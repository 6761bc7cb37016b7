------------------------------ MODULE IssueKeys ------------------------------
(***************************************************************************)
(* What a project promises about the keys of its issues ("CS-1", "CS-2"):  *)
(* an issue gets the number after the last one the project gave out, in    *)
(* one indivisible step, keeps it for ever, and a deletion never frees it. *)
(* IssueTracker, where allocation takes a row lock, two statements and a   *)
(* commit that can fail, implements this module.                           *)
(***************************************************************************)
EXTENDS Integers

CONSTANTS
    Projects,   \* projects.id
    IssueIds,   \* issues.id: the UUIDs a run may draw
    NoKey       \* the key of an id that no issue has got yet

VARIABLES
    last,       \* the last number each project gave out
    key,        \* id -> <<project, number>>, kept after the issue is deleted
    gone        \* ids of deleted issues

vars == <<last, key, gone>>

Init ==
    /\ last = [p \in Projects |-> 0]
    /\ key  = [i \in IssueIds |-> NoKey]
    /\ gone = {}

Create(i, p) ==
    /\ key[i] = NoKey
    /\ last' = [last EXCEPT ![p] = @ + 1]
    /\ key'  = [key EXCEPT ![i] = <<p, last[p] + 1>>]
    /\ UNCHANGED gone

Delete(i) ==
    /\ key[i] # NoKey
    /\ gone' = gone \cup {i}
    /\ UNCHANGED <<last, key>>

Next == \E i \in IssueIds : Delete(i) \/ \E p \in Projects : Create(i, p)

Spec == Init /\ [][Next]_vars
==============================================================================
