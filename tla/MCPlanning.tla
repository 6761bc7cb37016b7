------------------------------ MODULE MCPlanning ------------------------------
(***************************************************************************)
(* Planning for TLC, and Charts on short lists.                            *)
(***************************************************************************)
EXTENDS Planning, Charts, TLC

CONSTANTS i1, s1, b1, p1, p2, d1, r1, r2, r3

MCIssues == {i1}
MCSprints == {s1}
MCStatuses == {"todo", "done"}
MCBacklogs == {b1}
MCSprintPages == {p1, p2}
MCDashboards == {d1}
MCOpenSets == {{b1, p1}, {b1, p2}, {p1, p2}, {d1}}
MCRequests == {r1, r2, r3}

\* Nothing depends on which request is which, nor on which sprint page.
MCSymmetry == Permutations(MCRequests) \cup Permutations(MCSprintPages)

\* Every share of up to 20 issues has a percentage, and at most two.
ASSUME PercentExists ==
    \A whole \in 0..20 : \A part \in 0..whole :
        Cardinality({n \in 0..100 : IsPercent(part, whole, n)}) \in {1, 2}

\* Lists of up to four issues have one longest bar, and every issue's own bar is
\* not longer than that.
ASSUME BarsFit ==
    \A n \in 0..4 : \A field \in [1..n -> {"todo", "in_progress", "done"}] :
        /\ Cardinality({m \in 0..5 : IsLongest(field, m)}) = 1
        /\ \A i \in 1..n, m \in 1..5, w \in 0..200 :
               IsBar(field, field[i], m, w) => w \in 1..100
        /\ \E w \in 0..100 : IsCompletion(field, w)
===============================================================================
