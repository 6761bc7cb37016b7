---------------------------- MODULE MCIssueTracker ----------------------------
(***************************************************************************)
(* IssueTracker for TLC.                                                   *)
(***************************************************************************)
EXTENDS IssueTracker, TLC

CONSTANTS i1, i2, r1, r2, r3, r4, s1

MCIssueIds == {i1, i2}
MCRequests == {r1, r2, r3, r4}
MCSprints == {s1}
\* in_review behaves as in_progress: neither is the first nor the last column.
MCStatuses == {"todo", "in_progress", "done"}

\* Any three calls; and two creates with two completions, whose sweeps can meet.
AnyCall == {"create", "update", "delete", "complete"}
MCMixes == {(r1 :> AnyCall @@ r2 :> AnyCall @@ r3 :> AnyCall @@ r4 :> {}),
            (r1 :> {"create"} @@ r2 :> {"create"} @@ r3 :> {"complete"} @@ r4 :> {"complete"})}
MCThree == {(r1 :> AnyCall @@ r2 :> AnyCall @@ r3 :> AnyCall @@ r4 :> {})}

\* Requests and ids are interchangeable; used only where no liveness is checked.
MCSymmetry == Permutations({r1, r2, r3}) \cup Permutations(MCIssueIds)
===============================================================================
