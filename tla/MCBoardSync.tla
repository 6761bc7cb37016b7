------------------------------ MODULE MCBoardSync ------------------------------
(***************************************************************************)
(* BoardSync for TLC, and BoardRank on small columns.                      *)
(***************************************************************************)
EXTENDS BoardSync, BoardRank, TLC

CONSTANTS i1, i2, r1, r2, p1, p2

MCIssues == {i1, i2}
MCRequests == {r1, r2}
MCPods == {p1, p2}

\* Issues, requests and pods are interchangeable; used only where no liveness is
\* checked.
MCSymmetry ==
    Permutations(MCIssues) \cup Permutations(MCRequests) \cup Permutations(MCPods)

\* Every drop of a card on columns of at most three, with ranks up to 4: whatever
\* gap the column had, half of it is left, and the cards keep their order.
ASSUME DropsKeepOrder ==
    \A n \in 0..3 : \A col \in [1..n -> 0..4] : \A moving \in 0..n, at \in 0..n,
          k \in 0..2, r \in -3..8 :
        Spaced(col, 2 * k) /\ IsRank(ToItems(col, moving), Idx(col, moving, at), r) =>
            LET new == InsertAt(ToItems(col, moving), Idx(col, moving, at) + 1, r) IN
            IsDrop(col, moving, at, r, new) /\ Spaced(new, k)
===============================================================================
