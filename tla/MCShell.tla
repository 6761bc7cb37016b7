-------------------------------- MODULE MCShell --------------------------------
(***************************************************************************)
(* Shell, and Projects below it, for TLC.                                  *)
(***************************************************************************)
EXTENDS Shell, TLC

CONSTANTS u1, u2, p1, p2, k1, n1, n2, r1, r2

MCUsers == {u1, u2}
MCProjects == {p1, p2}
MCKeys == {k1}
MCNames == {n1, n2}
MCAsked == {"member"}
MCOthers == {None, "admin"}
MCRequests == {r1, r2}
MCWatchedSets == {{"page"}, {"sidebar"}, {"palette"}}

\* Nothing depends on which project, key, name or request is which.
MCSymmetry ==
    UNION {Permutations(S) : S \in {MCProjects, MCNames, MCRequests}}
===============================================================================
