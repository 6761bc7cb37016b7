-------------------------- MODULE IssueTracker_proofs --------------------------
(***************************************************************************)
(* Proofs about IssueTracker, for any sets of projects, requests, issues,  *)
(* sprints and statuses.  The invariants come in layers, each inductive    *)
(* over the ones before it.                                                *)
(***************************************************************************)
EXTENDS IssueTracker, TLAPS

\* The labels at which a request works on an issue of its own choice.
WithIssue == {"c_lock", "c_commit", "c_broadcast", "u_commit", "u_reload",
              "u_broadcast", "d_delete", "d_broadcast"}

-------------------------------------------------------------------------------
(***************************************************************************)
(* Types                                                                   *)
(***************************************************************************)

\* Why the tables keep their types: a request that is to write a row has one,
\* and a completion clears only rows that exist.
Working ==
    \A r \in Requests :
        /\ pc[r] \in WithIssue => mine[r] \in IssueIds /\ copy[r] \in Row
        /\ pc[r] \in {"s_sweep", "s_commit"} => patch[r].sprint \in Sprints
        /\ swept[r] # {} \/ matched[r] # {} => pc[r] = "s_commit"
        /\ \A i \in swept[r] : issues[i] # NoRow

TypeInv == TypeOK /\ Working

\* Patching a row leaves a row.
LEMMA PatchedIsRow ==
    ASSUME NEW row \in Row, NEW p \in Patch
    PROVE  /\ Patched(row, p) \in Row
           /\ Patched(row, p).project = row.project
           /\ Patched(row, p).number = row.number
  BY DEF Patched, Row, Patch, SprintIds

\* The statuses an audit row is made of are valid ones.
LEMMA LogChangeIsTrail ==
    ASSUME TypeInv, NEW r \in Requests, pc[r] = "u_commit"
    PROVE  LogChange(r) \in Seq(Activity)
  <1>1. mine[r] \in IssueIds /\ copy[r] \in Row /\ patch[r] \in Patch
    BY DEF TypeInv, TypeOK, Working, WithIssue
  <1>2. copy[r].status \in validStatuses /\ patch[r].status \in validStatuses \cup {Keep}
    BY <1>1 DEF Row, Patch
  <1>3. CASE patch[r].status \in {Keep, copy[r].status}
    BY <1>3 DEF LogChange
  <1>4. CASE patch[r].status \notin {Keep, copy[r].status}
    <2>1. [issue |-> mine[r], old |-> copy[r].status, new |-> patch[r].status] \in Activity
      BY <1>1, <1>2, <1>4 DEF Activity
    <2>2. QED  BY <1>4, <2>1 DEF LogChange
  <1>5. QED  BY <1>3, <1>4

LEMMA TypeInit == Init => TypeInv
  BY DEF Init, TypeInv, TypeOK, Working, NoPatch, Patch, WithIssue

\* Each step keeps the types and what requests in flight have in hand.
LEMMA TypeStep == TypeInv /\ [Next]_vars => TypeInv'
  <1> SUFFICES ASSUME TypeInv, [Next]_vars PROVE TypeInv'
    OBVIOUS
  <1> USE DEF TypeInv, WithIssue
  <1>1. ASSUME NEW r \in Requests, NEW i \in IssueIds, NEW p \in Projects,
               NEW s \in SprintIds, BeginCreate(r, i, p, s)
        PROVE  TypeInv'
    <2>1. [project |-> p, number |-> 0, status |-> "todo", sprint |-> s] \in Row
      BY StatusAssumption DEF Row
    <2>2. TypeOK'
      BY <1>1, <2>1 DEF TypeOK, BeginCreate, Goto, sweepVars, tables
    <2>3. Working'
      BY <1>1, <2>1 DEF TypeOK, Working, BeginCreate, Goto, sweepVars, tables
    <2>4. QED  BY <2>2, <2>3
  <1>2. ASSUME NEW r \in Requests, NEW i \in IssueIds,
               NEW st \in validStatuses \cup {Keep, BadStatus},
               NEW s \in Sprints \cup {Keep}, LoadForUpdate(r, i, st, s)
        PROVE  TypeInv'
    <2>1. issues[i] \in Row
      BY <1>2 DEF TypeOK, LoadForUpdate, InTable
    <2>2. [status |-> st, sprint |-> s] \in Patch
      BY <1>2 DEF LoadForUpdate, StatusAccepted, Patch, SprintIds
    <2>3. TypeOK'
      BY <1>2, <2>1, <2>2 DEF TypeOK, LoadForUpdate, Goto, sweepVars, tables
    <2>4. Working'
      BY <1>2, <2>1 DEF TypeOK, Working, LoadForUpdate, Goto, sweepVars, tables
    <2>5. QED  BY <2>3, <2>4
  <1>3. ASSUME NEW r \in Requests, NEW i \in IssueIds, LoadForDelete(r, i)
        PROVE  TypeInv'
    <2>1. issues[i] \in Row
      BY <1>3 DEF TypeOK, LoadForDelete, InTable
    <2>2. TypeOK'
      BY <1>3, <2>1 DEF TypeOK, LoadForDelete, Goto, sweepVars, tables
    <2>3. Working'
      BY <1>3, <2>1 DEF TypeOK, Working, LoadForDelete, Goto, sweepVars, tables
    <2>4. QED  BY <2>2, <2>3
  <1>4. ASSUME NEW r \in Requests, NEW s \in Sprints, LoadForComplete(r, s)
        PROVE  TypeInv'
    <2>1. [patch[r] EXCEPT !.sprint = s] \in Patch
      BY DEF TypeOK, Patch, SprintIds
    <2>2. TypeOK'
      BY <1>4, <2>1 DEF TypeOK, LoadForComplete, Goto, sweepVars, tables
    <2>3. patch'[r].sprint = s
      BY <1>4 DEF TypeOK, LoadForComplete, Patch
    <2>4. Working'
      BY <1>4, <2>3 DEF TypeOK, Working, LoadForComplete, Goto, sweepVars, tables
    <2>5. QED  BY <2>2, <2>4
  <1>5. ASSUME NEW r \in Requests, LockProject(r)
        PROVE  TypeInv'
    <2>1. mine[r] \in IssueIds /\ copy[r] \in Row
      BY <1>5 DEF Working, LockProject
    <2>2. [copy[r] EXCEPT !.number = issueSeq[copy[r].project] + 1] \in Row
      <3>1. issueSeq[copy[r].project] + 1 \in Nat
        BY <2>1 DEF TypeOK, Row
      <3>2. QED  BY <2>1, <3>1 DEF Row
    <2>3. TypeOK'
      BY <1>5, <2>2 DEF TypeOK, LockProject, Goto, sweepVars
    <2>4. Working'
      BY <1>5, <2>1, <2>2 DEF TypeOK, Working, LockProject, Goto, sweepVars
    <2>5. QED  BY <2>3, <2>4
  <1>6. ASSUME NEW r \in Requests, CommitCreate(r)
        PROVE  TypeInv'
    <2>1. mine[r] \in IssueIds /\ copy[r] \in Row /\ copy[r].number \in Nat
      BY <1>6 DEF Working, CommitCreate, Row
    <2>2. TypeOK'
      BY <1>6, <2>1 DEF TypeOK, CommitCreate, Goto, sweepVars
    <2>3. Working'
      BY <1>6, <2>1, SentinelAssumption DEF TypeOK, Working, CommitCreate, Goto, sweepVars
    <2>4. QED  BY <2>2, <2>3
  <1>7. ASSUME NEW r \in Requests, CommitUpdate(r)
        PROVE  TypeInv'
    <2>1. mine[r] \in IssueIds /\ copy[r] \in Row /\ patch[r] \in Patch
      BY <1>7 DEF TypeOK, Working, CommitUpdate
    <2>2. Patched(copy[r], patch[r]) \in Row
      BY <2>1, PatchedIsRow
    <2>3. InTable(mine[r]) => UpdatedRow(r) \in Row
      BY <2>1, PatchedIsRow DEF TypeOK, InTable, UpdatedRow
    <2>4. issues' \in [IssueIds -> Row \cup {NoRow}]
          /\ \A i \in IssueIds : issues[i] # NoRow => issues'[i] # NoRow
      BY <1>7, <2>1, <2>3, SentinelAssumption DEF TypeOK, CommitUpdate, WriteIssue
    <2>5. activities' \in Seq(Activity)
      BY <1>7, LogChangeIsTrail DEF TypeOK, CommitUpdate
    <2>6. TypeOK'
      BY <1>7, <2>2, <2>4, <2>5 DEF TypeOK, CommitUpdate, WriteIssue, Goto, sweepVars
    <2>7. Working'
      BY <1>7, <2>1, <2>2, <2>4 DEF TypeOK, Working, CommitUpdate, Goto, sweepVars
    <2>8. QED  BY <2>6, <2>7
  <1>8. ASSUME NEW r \in Requests, Reload(r)
        PROVE  TypeInv'
    <2>1. copy'[r] \in Row /\ copy' \in [Requests -> Row \cup {NoRow}]
          /\ \A q \in Requests : q # r => copy'[q] = copy[q]
      BY <1>8 DEF TypeOK, Working, Reload, InTable
    <2>2. TypeOK'
      BY <1>8, <2>1 DEF TypeOK, Reload, Goto, sweepVars, tables
    <2>3. Working'
      BY <1>8, <2>1 DEF TypeOK, Working, Reload, Goto, sweepVars, tables
    <2>4. QED  BY <2>2, <2>3
  <1>9. ASSUME NEW r \in Requests, Delete(r)
        PROVE  TypeInv'
    <2>1. mine[r] \in IssueIds
      BY <1>9 DEF Working, Delete
    <2>2. TypeOK'
      BY <1>9, <2>1 DEF TypeOK, Delete, Goto, sweepVars
    <2>3. Working'
      BY <1>9 DEF TypeOK, Working, Delete, Goto, sweepVars
    <2>4. QED  BY <2>2, <2>3
  <1>10. ASSUME NEW r \in Requests, Broadcast(r)
         PROVE  TypeInv'
    <2>1. pc[r] \in {"c_broadcast", "u_broadcast", "d_broadcast"}
      BY <1>10 DEF Broadcast, EventType
    <2>2. [type |-> EventType[pc[r]], issue |-> mine[r], row |-> copy[r]] \in Event
      BY <2>1 DEF Working, Event, EventType
    <2>3. NoPatch \in Patch
      BY DEF NoPatch, Patch
    <2>4. TypeOK'
      BY <1>10, <2>2, <2>3 DEF TypeOK, Broadcast, Return, Goto, sweepVars, tables
    <2>5. Working'
      BY <1>10 DEF TypeOK, Working, Broadcast, Return, Goto, sweepVars, tables
    <2>6. QED  BY <2>4, <2>5
  <1>11. ASSUME NEW r \in Requests, Sweep(r)
         PROVE  TypeInv'
    <2>1. Unfinished(patch[r].sprint) \subseteq IssueIds
      BY DEF Unfinished
    <2>2. TypeOK'
      BY <1>11, <2>1 DEF TypeOK, Sweep, Goto, tables
    <2>3. Working'
      BY <1>11 DEF TypeOK, Working, Sweep, Goto, tables
    <2>4. QED  BY <2>2, <2>3
  <1>12. ASSUME NEW r \in Requests, CommitComplete(r)
         PROVE  TypeInv'
    <2>1. patch[r].sprint \in Sprints /\ NoPatch \in Patch
      BY <1>12 DEF Working, CommitComplete, NoPatch, Patch
    <2>2. \A i \in IssueIds :
             /\ issues'[i] \in Row \cup {NoRow}
             /\ issues[i] # NoRow => issues'[i] # NoRow
      <3> SUFFICES ASSUME NEW i \in IssueIds
                   PROVE  /\ issues'[i] \in Row \cup {NoRow}
                          /\ issues[i] # NoRow => issues'[i] # NoRow
        OBVIOUS
      <3>1. CASE i \in swept[r]
        <4>1. issues[i] \in Row
          BY <3>1 DEF TypeOK, Working
        <4>2. issues'[i] \in Row
          BY <1>12, <3>1, <4>1 DEF CommitComplete, Row, SprintIds
        <4>3. QED  BY <4>2, SentinelAssumption
      <3>2. CASE i \notin swept[r]
        BY <1>12, <3>2 DEF TypeOK, CommitComplete
      <3>3. QED  BY <3>1, <3>2
    <2>3. issues' \in [IssueIds -> Row \cup {NoRow}]
      BY <1>12, <2>2 DEF CommitComplete
    <2>4. TypeOK'
      BY <1>12, <2>1, <2>3 DEF TypeOK, CommitComplete, Return, Goto, sweepVars
    <2>5. Working'
      BY <1>12, <2>2 DEF TypeOK, Working, CommitComplete, Return, Goto, sweepVars
    <2>6. QED  BY <2>4, <2>5
  <1>13. ASSUME NEW r \in Requests, Fail(r)
         PROVE  TypeInv'
    <2>1. NoPatch \in Patch
      BY DEF NoPatch, Patch
    <2>2. TypeOK'
      BY <1>13, <2>1 DEF TypeOK, Fail, Rollback, Unlocked, Return, Goto, sweepVars
    <2>3. Working'
      BY <1>13 DEF TypeOK, Working, Fail, Rollback, Return, Goto, sweepVars
    <2>4. QED  BY <2>2, <2>3
  <1>131. ASSUME NEW r \in Requests, NEW i \in IssueIds, SweepRow(r, i)
          PROVE  TypeInv'
    <2>1. TypeOK'
      BY <1>131 DEF TypeOK, SweepRow, tables
    <2>2. \A q \in Requests : \A j \in swept'[q] : j \in swept[q] \/ (q = r /\ issues[j] # NoRow)
      BY <1>131 DEF TypeOK, SweepRow, Unfinished, InTable
    <2>3. Working'
      BY <1>131, <2>2 DEF TypeOK, Working, SweepRow, tables
    <2>4. QED  BY <2>1, <2>3
  <1>14. ASSUME NEW s \in Sprints, CreateSprint(s) \/ StartSprint(s)
         PROVE  TypeInv'
    <2>1. TypeOK'
      BY <1>14 DEF TypeOK, CreateSprint, StartSprint, sweepVars
    <2>2. Working'
      BY <1>14 DEF Working, CreateSprint, StartSprint, sweepVars
    <2>3. QED  BY <2>1, <2>2
  <1>15. CASE UNCHANGED vars
    BY <1>15 DEF TypeOK, Working, vars
  <1>16. QED
    BY <1>1, <1>2, <1>3, <1>4, <1>5, <1>6, <1>7, <1>8, <1>9, <1>10, <1>11, <1>12,
       <1>13, <1>131, <1>14, <1>15 DEF Next, Begin, Step, AbortDeadlock, Quiet

\* Every reachable state is well typed: in particular no handler, however its
\* statements interleave with others, writes a status outside the enum.
THEOREM TypeCorrect == Spec => []TypeOK
  <1>1. Spec => []TypeInv
    BY TypeInit, TypeStep, PTL DEF Spec
  <1>2. TypeInv => TypeOK
    BY DEF TypeInv
  <1>3. QED  BY <1>1, <1>2, PTL

-------------------------------------------------------------------------------
(***************************************************************************)
(* Keys                                                                    *)
(***************************************************************************)

\* A request that is creating an issue has an id nobody else has.
Fresh ==
    \A r \in Requests : pc[r] \in {"c_lock", "c_commit"} =>
        /\ issues[mine[r]] = NoRow
        /\ \A q \in Requests : q # r => mine[q] # mine[r]

\* The number it is to commit is still the next one, because it holds the lock.
HoldsNext ==
    \A r \in Requests : pc[r] = "c_commit" =>
        /\ lockedBy[copy[r].project] = r
        /\ copy[r].number = issueSeq[copy[r].project] + 1

\* The two halves of NumbersDense.
NumberInRange ==
    \A i \in IssueIds : issues[i] # NoRow =>
        issues[i].number \in 1 .. issueSeq[issues[i].project]

NumberTaken ==
    \A p \in Projects : \A n \in 1 .. issueSeq[p] :
        \E i \in IssueIds : issues[i] # NoRow /\ issues[i].project = p /\ issues[i].number = n

KeyInv == Fresh /\ HoldsNext /\ NumberInRange /\ NumberTaken /\ KeysUnique

\* What a step does to rows that exist: nothing to their key.
KeyKept(i) ==
    /\ issues'[i] # NoRow
    /\ issues'[i].project = issues[i].project
    /\ issues'[i].number = issues[i].number

\* No step but a create's commit adds a row, and none changes a key.
LEMMA KeysKept ==
    ASSUME TypeInv, Fresh, [Next]_vars
    PROVE  /\ \A i \in IssueIds : issues[i] # NoRow => KeyKept(i)
           /\ (\A r \in Requests : ~CommitCreate(r)) =>
                 \A i \in IssueIds : issues[i] = NoRow => issues'[i] = NoRow
  <1> DEFINE Goal(i) == /\ issues[i] # NoRow => KeyKept(i)
                        /\ (\A r \in Requests : ~CommitCreate(r)) /\ issues[i] = NoRow
                              => issues'[i] = NoRow
  <1> SUFFICES ASSUME NEW i \in IssueIds PROVE Goal(i)
    OBVIOUS
  <1>1. ASSUME issues' = issues PROVE Goal(i)
    BY <1>1 DEF KeyKept
  <1>2. ASSUME NEW r \in Requests, CommitCreate(r) PROVE Goal(i)
    <2>1. mine[r] # i \/ issues[i] = NoRow
      BY <1>2 DEF CommitCreate, Fresh
    <2>2. mine[r] # i => issues'[i] = issues[i]
      BY <1>2 DEF CommitCreate, TypeInv, TypeOK
    <2>3. QED  BY <1>2, <2>1, <2>2 DEF KeyKept
  <1>3. ASSUME NEW r \in Requests, CommitUpdate(r) PROVE Goal(i)
    <2>1. issues'[i] = issues[i] \/ (mine[r] = i /\ InTable(i) /\ issues'[i] = UpdatedRow(r))
      BY <1>3 DEF CommitUpdate, WriteIssue, TypeInv, TypeOK
    <2>2. CASE issues'[i] = issues[i]
      BY <2>2 DEF KeyKept
    <2>3. CASE mine[r] = i /\ InTable(i) /\ issues'[i] = UpdatedRow(r)
      <3>1. issues[i] \in Row /\ patch[r] \in Patch
        BY <2>3 DEF InTable, TypeInv, TypeOK
      <3>2. /\ issues'[i] \in Row
            /\ issues'[i].project = issues[i].project
            /\ issues'[i].number = issues[i].number
        BY <2>3, <3>1, PatchedIsRow DEF UpdatedRow
      <3>3. QED  BY <2>3, <3>2, SentinelAssumption DEF KeyKept, InTable
    <2>4. QED  BY <2>1, <2>2, <2>3
  <1>4. ASSUME NEW r \in Requests, CommitComplete(r) PROVE Goal(i)
    <2>1. CASE i \in swept[r]
      <3>1. issues[i] \in Row
        BY <2>1 DEF TypeInv, TypeOK, Working
      <3>2. issues'[i] = [issues[i] EXCEPT !.sprint = NoSprint]
        BY <1>4, <2>1 DEF CommitComplete
      <3>3. /\ issues'[i] \in Row
            /\ issues'[i].project = issues[i].project
            /\ issues'[i].number = issues[i].number
        BY <3>1, <3>2 DEF Row, SprintIds
      <3>4. QED  BY <3>1, <3>3, SentinelAssumption DEF KeyKept
    <2>2. CASE i \notin swept[r]
      BY <1>4, <2>2 DEF CommitComplete, KeyKept
    <2>3. QED  BY <2>1, <2>2
  <1>5. CASE UNCHANGED vars
    BY <1>1, <1>5 DEF vars
  <1>6. CASE Next
    <2>1. \/ issues' = issues
          \/ \E r \in Requests : CommitCreate(r) \/ CommitUpdate(r) \/ CommitComplete(r)
      BY <1>6 DEF Next, Begin, Step, Quiet, vars, tables, BeginCreate, LoadForUpdate,
                  LoadForDelete, LoadForComplete, LockProject, Reload, Delete, Broadcast,
                  Sweep, SweepRow, AbortDeadlock, Fail, CreateSprint, StartSprint
    <2>2. QED  BY <1>1, <1>2, <1>3, <1>4, <2>1
  <1>7. QED  BY <1>5, <1>6

LEMMA KeyInit == Init => KeyInv
  BY DEF Init, KeyInv, Fresh, HoldsNext, NumberInRange, NumberTaken, KeysUnique

\* A request that chooses an issue or drops the one it has leaves fresh ids fresh.
LEMMA FreshStep == TypeInv /\ KeyInv /\ [Next]_vars => Fresh'
  <1> SUFFICES ASSUME TypeInv, KeyInv, [Next]_vars PROVE Fresh'
    OBVIOUS
  <1> USE DEF TypeInv, TypeOK, KeyInv, Fresh
  <1>1. ASSUME NEW r \in Requests, NEW i \in IssueIds, NEW p \in Projects,
               NEW s \in SprintIds, BeginCreate(r, i, p, s)
        PROVE  Fresh'
    BY <1>1 DEF BeginCreate, Goto, tables
  <1>2. ASSUME NEW r \in Requests, NEW i \in IssueIds, NEW st, NEW s,
               LoadForUpdate(r, i, st, s)
        PROVE  Fresh'
    BY <1>2 DEF LoadForUpdate, InTable, Goto, tables
  <1>3. ASSUME NEW r \in Requests, NEW i \in IssueIds, LoadForDelete(r, i)
        PROVE  Fresh'
    BY <1>3 DEF LoadForDelete, InTable, Goto, tables
  <1>4. ASSUME NEW r \in Requests, NEW s \in Sprints, LoadForComplete(r, s)
        PROVE  Fresh'
    BY <1>4 DEF LoadForComplete, Goto, tables
  <1>5. ASSUME NEW r \in Requests,
               LockProject(r) \/ CommitCreate(r) \/ CommitUpdate(r) \/ Reload(r)
                 \/ Delete(r) \/ Broadcast(r) \/ Sweep(r) \/ CommitComplete(r) \/ Fail(r)
                 \/ (\E i \in IssueIds : SweepRow(r, i))
        PROVE  Fresh'
    <2>1. \A q \in Requests : pc'[q] \in {"c_lock", "c_commit"} =>
             pc[q] \in {"c_lock", "c_commit"} /\ mine'[q] = mine[q] /\ mine[q] \in IssueIds
      BY <1>5 DEF LockProject, CommitCreate, CommitUpdate, Reload, Delete, Broadcast,
                  Sweep, SweepRow, CommitComplete, Fail, Return, Goto, Working, WithIssue
    <2>2. \A q \in Requests : mine'[q] \in {mine[q], NoIssue}
      BY <1>5 DEF LockProject, CommitCreate, CommitUpdate, Reload, Delete, Broadcast,
                  Sweep, SweepRow, CommitComplete, Fail, Return, Goto
    <2>3. ASSUME NEW q \in Requests, pc'[q] \in {"c_lock", "c_commit"}
          PROVE  issues'[mine[q]] = NoRow
      <3>1. CASE \E u \in Requests : CommitCreate(u)
        <4>1. PICK u \in Requests : CommitCreate(u)
          BY <3>1
        <4>2. u # q /\ mine[u] # mine[q]
          BY <2>1, <2>3, <4>1 DEF CommitCreate, Goto
        <4>3. QED  BY <2>1, <2>3, <4>1, <4>2 DEF CommitCreate
      <3>2. CASE ~\E u \in Requests : CommitCreate(u)
        BY <2>1, <2>3, <3>2, KeysKept
      <3>3. QED  BY <3>1, <3>2
    <2>4. QED  BY <2>1, <2>2, <2>3, SentinelAssumption
  <1>6. ASSUME NEW s \in Sprints, CreateSprint(s) \/ StartSprint(s)
        PROVE  Fresh'
    BY <1>6 DEF CreateSprint, StartSprint
  <1>7. CASE UNCHANGED vars
    BY <1>7 DEF vars
  <1>8. QED
    BY <1>1, <1>2, <1>3, <1>4, <1>5, <1>6, <1>7 DEF Next, Begin, Step, AbortDeadlock,
                                                    Quiet

\* The row lock keeps the number a create has read the next one.
LEMMA HoldsNextStep == TypeInv /\ KeyInv /\ [Next]_vars => HoldsNext'
  <1> SUFFICES ASSUME TypeInv, KeyInv, [Next]_vars PROVE HoldsNext'
    OBVIOUS
  <1> USE DEF TypeInv, TypeOK, KeyInv, HoldsNext
  <1>0. \A q \in Requests : pc[q] = "c_commit" => copy[q] \in Row /\ copy[q].project \in Projects
    BY DEF Working, WithIssue, Row
  <1>1. ASSUME NEW r \in Requests, LockProject(r)
        PROVE  HoldsNext'
    <2>1. copy[r] \in Row /\ copy[r].project \in Projects
      BY <1>1 DEF LockProject, Working, WithIssue, Row
    <2>2. copy'[r].project = copy[r].project /\ copy'[r].number = issueSeq[copy[r].project] + 1
      BY <1>1, <2>1 DEF LockProject, Row
    <2>3. lockedBy'[copy[r].project] = r
      BY <1>1, <2>1 DEF LockProject
    <2>4. ASSUME NEW q \in Requests, q # r, pc'[q] = "c_commit"
          PROVE  lockedBy'[copy[q].project] = q /\ copy'[q] = copy[q] /\ pc[q] = "c_commit"
      <3>1. pc[q] = "c_commit" /\ copy'[q] = copy[q]
        BY <1>1, <2>4 DEF LockProject, Goto
      <3>2. copy[q].project # copy[r].project
        BY <1>1, <3>1, SentinelAssumption DEF LockProject, LockFree
      <3>3. QED  BY <1>0, <1>1, <3>1, <3>2 DEF LockProject
    <2>5. QED  BY <1>1, <2>2, <2>3, <2>4 DEF LockProject
  <1>2. ASSUME NEW r \in Requests, CommitCreate(r)
        PROVE  HoldsNext'
    <2>1. ASSUME NEW q \in Requests, pc'[q] = "c_commit"
          PROVE  q # r /\ pc[q] = "c_commit" /\ copy[q].project # copy[r].project
      <3>1. q # r /\ pc[q] = "c_commit"
        BY <1>2, <2>1 DEF CommitCreate, Goto
      <3>2. lockedBy[copy[q].project] = q /\ lockedBy[copy[r].project] = r
        BY <1>2, <3>1 DEF CommitCreate
      <3>3. QED  BY <3>1, <3>2
    <2>2. QED  BY <1>0, <1>2, <2>1 DEF CommitCreate
  <1>3. ASSUME NEW r \in Requests, Fail(r)
        PROVE  HoldsNext'
    <2>1. ASSUME NEW q \in Requests, pc'[q] = "c_commit"
          PROVE  q # r /\ pc[q] = "c_commit" /\ copy'[q] = copy[q]
      BY <1>3, <2>1 DEF Fail, Return, Goto
    <2>2. QED  BY <1>0, <1>3, <2>1 DEF Fail, Rollback, Unlocked
  <1>4. ASSUME UNCHANGED <<lockedBy, issueSeq>>,
               \A q \in Requests : pc'[q] = "c_commit" =>
                   pc[q] = "c_commit" /\ copy'[q] = copy[q]
        PROVE  HoldsNext'
    BY <1>4
  <1>5. ASSUME NEW r \in Requests, Begin(r)
        PROVE  HoldsNext'
    BY <1>4, <1>5 DEF Begin, BeginCreate, LoadForUpdate, LoadForDelete, LoadForComplete,
                      Goto, tables
  <1>6. ASSUME NEW r \in Requests,
               CommitUpdate(r) \/ Reload(r) \/ Delete(r) \/ Sweep(r)
                 \/ (\E i \in IssueIds : SweepRow(r, i))
        PROVE  HoldsNext'
    BY <1>4, <1>6 DEF CommitUpdate, Reload, Delete, Sweep, SweepRow, Goto, tables
  <1>7. ASSUME NEW r \in Requests, Broadcast(r) \/ CommitComplete(r)
        PROVE  HoldsNext'
    BY <1>4, <1>7 DEF Broadcast, CommitComplete, Return, Goto, tables
  <1>8. ASSUME NEW s \in Sprints, CreateSprint(s) \/ StartSprint(s)
        PROVE  HoldsNext'
    BY <1>4, <1>8 DEF CreateSprint, StartSprint
  <1>9. CASE UNCHANGED vars
    BY <1>4, <1>9 DEF vars
  <1>10. QED
    BY <1>1, <1>2, <1>3, <1>5, <1>6, <1>7, <1>8, <1>9 DEF Next, Step, AbortDeadlock,
                                                          Quiet

\* Committing the next number keeps the numbers a gapless range without repeats.
LEMMA NumbersStep ==
    TypeInv /\ KeyInv /\ [Next]_vars => NumberInRange' /\ NumberTaken' /\ KeysUnique'
  <1> SUFFICES ASSUME TypeInv, KeyInv, [Next]_vars
               PROVE  NumberInRange' /\ NumberTaken' /\ KeysUnique'
    OBVIOUS
  <1>0. /\ \A i \in IssueIds : issues[i] # NoRow => KeyKept(i)
        /\ \A i \in IssueIds : issues[i] \in Row \cup {NoRow}
        /\ issueSeq \in [Projects -> Nat]
    BY KeysKept DEF KeyInv, TypeInv, TypeOK
  <1>1. ASSUME NEW r \in Requests, CommitCreate(r)
        PROVE  NumberInRange' /\ NumberTaken' /\ KeysUnique'
    <2> DEFINE new == mine[r]
               p == copy[r].project
               n == copy[r].number
    <2>1. new \in IssueIds /\ copy[r] \in Row /\ p \in Projects /\ n \in Nat
      BY <1>1 DEF TypeInv, Working, WithIssue, CommitCreate, Row
    <2>2. n = issueSeq[p] + 1 /\ issues[new] = NoRow
      BY <1>1 DEF KeyInv, HoldsNext, Fresh, CommitCreate
    <2>3. /\ issueSeq' = [issueSeq EXCEPT ![p] = n]
          /\ issues'[new] = copy[r] /\ issues'[new] # NoRow
          /\ \A i \in IssueIds : i # new => issues'[i] = issues[i]
      BY <1>1, <2>1, SentinelAssumption DEF CommitCreate, TypeInv, TypeOK
    <2>4. NumberInRange'
      <3> SUFFICES ASSUME NEW i \in IssueIds, issues'[i] # NoRow
                   PROVE  issues'[i].number \in 1 .. issueSeq'[issues'[i].project]
        BY DEF NumberInRange
      <3>1. CASE i = new
        BY <1>0, <2>1, <2>2, <2>3, <3>1
      <3>2. CASE i # new
        <4>1. issues[i] \in Row /\ issues[i].project \in Projects /\ issues[i].number \in Nat
          BY <1>0, <2>3, <3>2 DEF Row
        <4>2. issues[i].number \in 1 .. issueSeq[issues[i].project]
          BY <2>3, <3>2 DEF KeyInv, NumberInRange
        <4>3. issueSeq[issues[i].project] <= issueSeq'[issues[i].project]
          BY <1>0, <2>1, <2>2, <2>3, <4>1
        <4>4. QED  BY <1>0, <2>1, <2>3, <3>2, <4>1, <4>2, <4>3
      <3>3. QED  BY <3>1, <3>2
    <2>5. NumberTaken'
      <3> SUFFICES ASSUME NEW q \in Projects, NEW m \in 1 .. issueSeq'[q]
                   PROVE  \E i \in IssueIds : /\ issues'[i] # NoRow
                                              /\ issues'[i].project = q /\ issues'[i].number = m
        BY DEF NumberTaken
      <3>1. CASE q = p /\ m = n
        BY <2>1, <2>3, <3>1
      <3>2. CASE ~(q = p /\ m = n)
        <4>1. m \in 1 .. issueSeq[q]
          BY <1>0, <2>1, <2>2, <2>3, <3>2
        <4>2. PICK i \in IssueIds : issues[i] # NoRow /\ issues[i].project = q /\ issues[i].number = m
          BY <4>1 DEF KeyInv, NumberTaken
        <4>3. QED  BY <1>0, <4>2 DEF KeyKept
      <3>3. QED  BY <3>1, <3>2
    <2>6. KeysUnique'
      <3>1. ASSUME NEW i \in IssueIds, i # new, issues'[i] # NoRow, issues'[i].project = p
            PROVE  issues'[i].number # n
        <4>1. issues[i].number \in 1 .. issueSeq[p]
          BY <2>3, <3>1 DEF KeyInv, NumberInRange
        <4>2. QED  BY <1>0, <2>1, <2>2, <2>3, <3>1, <4>1
      <3>2. ASSUME NEW i \in IssueIds, NEW j \in IssueIds, i # j, i # new, j # new,
                   issues'[i] # NoRow, issues'[j] # NoRow,
                   issues'[i].project = issues'[j].project
            PROVE  issues'[i].number # issues'[j].number
        BY <2>3, <3>2 DEF KeyInv, KeysUnique
      <3>3. QED  BY <2>1, <2>3, <3>1, <3>2 DEF KeysUnique
    <2>7. QED  BY <2>4, <2>5, <2>6
  <1>2. CASE ~\E r \in Requests : CommitCreate(r)
    <2>1. issueSeq' = issueSeq
      BY <1>2 DEF Next, Begin, Step, Quiet, vars, tables, BeginCreate, LoadForUpdate,
                  LoadForDelete, LoadForComplete, LockProject, CommitUpdate, Reload,
                  Delete, Broadcast, Sweep, SweepRow, AbortDeadlock, CommitComplete,
                  Fail, Rollback, CreateSprint, StartSprint
    <2>2. \A i \in IssueIds : issues'[i] # NoRow => issues[i] # NoRow
      BY <1>2, KeysKept DEF KeyInv
    <2>3. NumberInRange'
      BY <1>0, <2>1, <2>2 DEF KeyInv, NumberInRange, KeyKept
    <2>4. NumberTaken'
      BY <1>0, <2>1, <2>2 DEF KeyInv, NumberTaken, KeyKept
    <2>5. KeysUnique'
      BY <1>0, <2>2 DEF KeyInv, KeysUnique, KeyKept
    <2>6. QED  BY <2>3, <2>4, <2>5
  <1>3. QED  BY <1>1, <1>2

LEMMA KeyInvariant == Spec => [](TypeInv /\ KeyInv)
  <1>1. Init => TypeInv /\ KeyInv
    BY TypeInit, KeyInit
  <1>2. TypeInv /\ KeyInv /\ [Next]_vars => TypeInv' /\ KeyInv'
    BY TypeStep, FreshStep, HoldsNextStep, NumbersStep DEF KeyInv
  <1>3. QED  BY <1>1, <1>2, PTL DEF Spec

\* No two issues that a project ever had share a number: concurrent creates
\* never collide, and a deleted issue's key is not given out again.
THEOREM KeysAreUnique == Spec => []KeysUnique
  <1>1. KeyInv => KeysUnique
    BY DEF KeyInv
  <1>2. QED  BY <1>1, KeyInvariant, PTL

\* A project's numbers are 1 .. issue_seq without a gap, however many creates
\* failed after they took one.
THEOREM NumbersAreDense == Spec => []NumbersDense
  <1>1. TypeInv /\ KeyInv => NumbersDense
    <2> SUFFICES ASSUME TypeInv, KeyInv, NEW p \in Projects
                 PROVE  {issues[i].number :
                           i \in {j \in IssueIds : issues[j] # NoRow /\ issues[j].project = p}}
                        = 1 .. issueSeq[p]
      BY DEF NumbersDense
    <2>1. \A i \in IssueIds : issues[i] # NoRow /\ issues[i].project = p
             => issues[i].number \in 1 .. issueSeq[p]
      BY DEF KeyInv, NumberInRange
    <2>2. \A n \in 1 .. issueSeq[p] :
             \E i \in IssueIds : issues[i] # NoRow /\ issues[i].project = p /\ issues[i].number = n
      BY DEF KeyInv, NumberTaken
    <2>3. QED  BY <2>1, <2>2
  <1>2. QED  BY <1>1, KeyInvariant, PTL

-------------------------------------------------------------------------------
(***************************************************************************)
(* Events                                                                  *)
(***************************************************************************)

\* A request that loaded or inserted an issue has its key, and the issue's row
\* never goes away: a deleted one only counts as deleted.
Known ==
    \A r \in Requests :
        /\ pc[r] \in WithIssue \ {"c_lock", "c_commit"} =>
              /\ issues[mine[r]] # NoRow
              /\ copy[r].project = issues[mine[r]].project
              /\ copy[r].number = issues[mine[r]].number
        /\ pc[r] = "d_broadcast" => mine[r] \in deleted

DeletedTold == \A e \in published : e.type = "issue.deleted" => e.issue \in deleted

EventInv == Known /\ EventsAfterCommit /\ DeletedTold

LEMMA EventInit == Init => EventInv
  BY DEF Init, EventInv, Known, EventsAfterCommit, DeletedTold, WithIssue

LEMMA KnownStep == TypeInv /\ KeyInv /\ EventInv /\ [Next]_vars => Known'
  <1> SUFFICES ASSUME TypeInv, KeyInv, EventInv, [Next]_vars PROVE Known'
    OBVIOUS
  <1> USE DEF TypeInv, TypeOK, WithIssue
  <1>0. /\ \A i \in IssueIds : issues[i] # NoRow => KeyKept(i)
        /\ Known
        /\ \A q \in Requests : pc[q] \in WithIssue => mine[q] \in IssueIds /\ copy[q] \in Row
    BY KeysKept DEF KeyInv, EventInv, Working
  \* Requests that do not move, and moves that leave the issue at hand alone.
  <1>1. ASSUME \A q \in Requests :
                  \/ pc'[q] \notin WithIssue \ {"c_lock", "c_commit"}
                  \/ /\ pc[q] \in WithIssue \ {"c_lock", "c_commit"}
                     /\ mine'[q] = mine[q] /\ copy'[q].project = copy[q].project
                     /\ copy'[q].number = copy[q].number
                     /\ pc'[q] = "d_broadcast" => pc[q] = "d_broadcast",
               deleted \subseteq deleted'
        PROVE  Known'
    BY <1>0, <1>1 DEF Known, KeyKept
  <1>2. ASSUME NEW r \in Requests, Begin(r)
        PROVE  Known'
    <2>1. /\ UNCHANGED <<issues, deleted>> /\ pc'[r] # "d_broadcast"
          /\ \A q \in Requests : q # r =>
                pc'[q] = pc[q] /\ mine'[q] = mine[q] /\ copy'[q] = copy[q]
          /\ pc'[r] \in WithIssue \ {"c_lock", "c_commit"} =>
                issues[mine'[r]] # NoRow /\ copy'[r] = issues[mine'[r]]
      BY <1>2 DEF Begin, BeginCreate, LoadForUpdate, LoadForDelete, LoadForComplete,
                  InTable, Goto, tables
    <2>2. QED  BY <1>0, <2>1 DEF Known
  <1>3. ASSUME NEW r \in Requests, LockProject(r)
        PROVE  Known'
    BY <1>1, <1>3 DEF LockProject, Goto
  <1>4. ASSUME NEW r \in Requests, CommitCreate(r)
        PROVE  Known'
    <2>1. /\ mine'[r] = mine[r] /\ copy'[r] = copy[r] /\ pc'[r] = "c_broadcast"
          /\ mine[r] \in IssueIds /\ issues'[mine[r]] = copy[r] /\ copy[r] # NoRow
      BY <1>0, <1>4, SentinelAssumption DEF CommitCreate, Goto
    <2>2. \A q \in Requests : q # r =>
             pc'[q] = pc[q] /\ mine'[q] = mine[q] /\ copy'[q] = copy[q]
      BY <1>4 DEF CommitCreate, Goto
    <2>3. deleted' = deleted
      BY <1>4 DEF CommitCreate
    <2>4. QED  BY <1>0, <2>1, <2>2, <2>3 DEF Known, KeyKept
  <1>5. ASSUME NEW r \in Requests, CommitUpdate(r)
        PROVE  Known'
    <2>1. /\ copy'[r].project = copy[r].project /\ copy'[r].number = copy[r].number
          /\ pc[r] = "u_commit" /\ pc'[r] = "u_reload" /\ UNCHANGED <<mine, deleted>>
      BY <1>0, <1>5, PatchedIsRow DEF CommitUpdate, WriteIssue, Goto
    <2>2. \A q \in Requests : q # r => pc'[q] = pc[q] /\ copy'[q] = copy[q]
      BY <1>5 DEF CommitUpdate, Goto
    <2>3. QED  BY <1>1, <2>1, <2>2
  <1>6. ASSUME NEW r \in Requests, Reload(r)
        PROVE  Known'
    <2>1. /\ copy'[r].project = copy[r].project /\ copy'[r].number = copy[r].number
          /\ pc[r] = "u_reload" /\ pc'[r] = "u_broadcast" /\ UNCHANGED <<mine, deleted>>
      BY <1>0, <1>6 DEF Reload, Known, Goto, tables
    <2>2. \A q \in Requests : q # r => pc'[q] = pc[q] /\ copy'[q] = copy[q]
      BY <1>6 DEF Reload, Goto
    <2>3. QED  BY <1>1, <2>1, <2>2
  <1>7. ASSUME NEW r \in Requests, Delete(r)
        PROVE  Known'
    BY <1>0, <1>7 DEF Delete, Known, Goto
  <1>8. ASSUME NEW r \in Requests,
               Broadcast(r) \/ Sweep(r) \/ CommitComplete(r) \/ Fail(r)
                 \/ (\E i \in IssueIds : SweepRow(r, i))
        PROVE  Known'
    BY <1>1, <1>8 DEF Broadcast, Sweep, SweepRow, CommitComplete, Fail, Return, Goto,
                      tables
  <1>9. ASSUME NEW s \in Sprints, CreateSprint(s) \/ StartSprint(s)
        PROVE  Known'
    BY <1>1, <1>9 DEF CreateSprint, StartSprint
  <1>10. CASE UNCHANGED vars
    BY <1>1, <1>10 DEF vars
  <1>11. QED
    BY <1>2, <1>3, <1>4, <1>5, <1>6, <1>7, <1>8, <1>9, <1>10 DEF Next, Step,
                                                                 AbortDeadlock, Quiet

\* Nothing is told but what Broadcast tells, and what was told stays true.
LEMMA ToldStep ==
    TypeInv /\ KeyInv /\ EventInv /\ [Next]_vars => EventsAfterCommit' /\ DeletedTold'
  <1> SUFFICES ASSUME TypeInv, KeyInv, EventInv, [Next]_vars
               PROVE  EventsAfterCommit' /\ DeletedTold'
    OBVIOUS
  <1>1. /\ \A i \in IssueIds : issues[i] # NoRow => KeyKept(i)
        /\ \A e \in published : e.issue \in IssueIds
    BY KeysKept DEF KeyInv, TypeInv, TypeOK, Event
  <1>2. deleted \subseteq deleted'
    BY DEF Next, Begin, Step, Quiet, vars, tables, BeginCreate, LoadForUpdate,
           LoadForDelete, LoadForComplete, LockProject, CommitCreate, CommitUpdate,
           WriteIssue, Reload, Delete, Broadcast, Sweep, SweepRow, AbortDeadlock,
           CommitComplete, Fail, CreateSprint, StartSprint
  <1>3. CASE published' = published
    BY <1>1, <1>2, <1>3 DEF EventInv, EventsAfterCommit, DeletedTold, KeyKept
  <1>4. ASSUME NEW r \in Requests, Broadcast(r)
        PROVE  EventsAfterCommit' /\ DeletedTold'
    <2> DEFINE e == [type |-> EventType[pc[r]], issue |-> mine[r], row |-> copy[r]]
    <2>1. published' = published \cup {e} /\ UNCHANGED <<issues, deleted>>
      BY <1>4 DEF Broadcast, tables
    <2>2. pc[r] \in {"c_broadcast", "u_broadcast", "d_broadcast"}
      BY <1>4 DEF Broadcast, EventType
    <2>3. e.type = "issue.deleted" => pc[r] = "d_broadcast"
      BY <2>2 DEF EventType
    <2>4. QED
      BY <2>1, <2>2, <2>3 DEF EventInv, Known, EventsAfterCommit, DeletedTold, WithIssue
  <1>5. (\E r \in Requests : Broadcast(r)) \/ published' = published
    BY DEF Next, Begin, Step, Quiet, vars, BeginCreate, LoadForUpdate, LoadForDelete,
           LoadForComplete, LockProject, CommitCreate, CommitUpdate, Reload, Delete,
           Sweep, SweepRow, AbortDeadlock, CommitComplete, Fail, CreateSprint,
           StartSprint
  <1>6. QED  BY <1>3, <1>4, <1>5

LEMMA EventInvariant == Spec => [](TypeInv /\ KeyInv /\ EventInv)
  <1>1. Init => EventInv
    BY EventInit
  <1>2. TypeInv /\ KeyInv /\ EventInv /\ [Next]_vars => EventInv'
    BY KnownStep, ToldStep DEF EventInv
  <1>3. QED  BY <1>1, <1>2, KeyInvariant, PTL DEF Spec

\* Watchers are told only of committed issues, under their keys.
THEOREM EventsFollowCommits == Spec => []EventsAfterCommit
  <1>1. EventInv => EventsAfterCommit
    BY DEF EventInv
  <1>2. QED  BY <1>1, EventInvariant, PTL

\* An issue that watchers were told is deleted stays deleted, whatever updates
\* were in flight.
THEOREM DeletionIsFinal == Spec => []DeletedEventIsFinal
  <1>1. EventInv => DeletedEventIsFinal
    BY DEF EventInv, DeletedTold, DeletedEventIsFinal, InTable
  <1>2. QED  BY <1>1, EventInvariant, PTL

-------------------------------------------------------------------------------
(***************************************************************************)
(* IssueTracker implements IssueKeys                                       *)
(***************************************************************************)

\* The abstract key of an issue.
KeyOf(i) == IF issues[i] = NoRow THEN NoRow ELSE <<issues[i].project, issues[i].number>>

\* A step is an allocation, a deletion, or nothing to IssueKeys.
LEMMA KeysStep ==
    ASSUME TypeInv, KeyInv, EventInv, [Next]_vars
    PROVE  [Keys!Next]_(Keys!vars)
  <1> USE DEF TypeInv, TypeOK
  <1>1. ASSUME NEW r \in Requests, CommitCreate(r)
        PROVE  Keys!Next
    <2>1. PICK i \in IssueIds, p \in Projects :
             i = mine[r] /\ p = copy[r].project /\ copy[r] \in Row
      BY <1>1 DEF Working, WithIssue, CommitCreate, Row
    <2>2. issues[i] = NoRow /\ copy[r].number = issueSeq[p] + 1 /\ copy[r] # NoRow
      BY <1>1, <2>1, SentinelAssumption DEF KeyInv, HoldsNext, Fresh, CommitCreate
    <2>3. issues' = [issues EXCEPT ![i] = copy[r]]
          /\ issueSeq' = [issueSeq EXCEPT ![p] = issueSeq[p] + 1] /\ deleted' = deleted
      BY <1>1, <2>1, <2>2 DEF CommitCreate
    <2>4. [j \in IssueIds |-> KeyOf(j)]' =
          [[j \in IssueIds |-> KeyOf(j)] EXCEPT ![i] = <<p, issueSeq[p] + 1>>]
      <3>1. \A j \in IssueIds :
               KeyOf(j)' = IF j = i THEN <<p, issueSeq[p] + 1>> ELSE KeyOf(j)
        BY <2>1, <2>2, <2>3 DEF KeyOf
      <3>2. QED  BY <2>1, <3>1
    <2>5. Keys!Create(i, p)
      BY <2>1, <2>2, <2>3, <2>4 DEF Keys!Create, KeyOf
    <2>6. QED  BY <2>1, <2>5 DEF Keys!Next
  <1>2. CASE ~\E r \in Requests : CommitCreate(r)
    <2>1. \A i \in IssueIds : KeyOf(i)' = KeyOf(i)
      BY <1>2, KeysKept DEF KeyInv, KeyOf, KeyKept
    <2>2. [i \in IssueIds |-> KeyOf(i)]' = [i \in IssueIds |-> KeyOf(i)]
      BY <2>1
    <2>3. issueSeq' = issueSeq
      BY <1>2 DEF Next, Begin, Step, Quiet, vars, tables, BeginCreate, LoadForUpdate,
                  LoadForDelete, LoadForComplete, LockProject, CommitUpdate, Reload,
                  Delete, Broadcast, Sweep, SweepRow, AbortDeadlock, CommitComplete,
                  Fail, Rollback, CreateSprint, StartSprint
    <2>4. ASSUME NEW r \in Requests, Delete(r), deleted' # deleted
          PROVE  Keys!Next
      <3>1. mine[r] \in IssueIds
        BY <2>4 DEF Delete, Working, WithIssue
      <3>2. ASSUME issues[mine[r]] # NoRow
            PROVE  Keys!Delete(mine[r])
        <4>1. issues[mine[r]] \in Row
          BY <3>1, <3>2
        <4>2. KeyOf(mine[r]) # NoRow
          BY <3>2, <4>1, SentinelAssumption DEF KeyOf, Row
        <4>3. QED  BY <2>2, <2>3, <2>4, <3>1, <4>2 DEF Keys!Delete, KeyOf, Delete
      <3>3. issues[mine[r]] # NoRow
        BY <2>4 DEF Delete, EventInv, Known, WithIssue
      <3>4. QED  BY <3>1, <3>2, <3>3 DEF Keys!Next
    <2>5. (\E r \in Requests : Delete(r)) \/ deleted' = deleted
      BY <1>2 DEF Next, Begin, Step, Quiet, vars, tables, BeginCreate, LoadForUpdate,
                  LoadForDelete, LoadForComplete, LockProject, CommitUpdate, WriteIssue,
                  Reload, Broadcast, Sweep, SweepRow, AbortDeadlock, CommitComplete,
                  Fail, CreateSprint, StartSprint
    <2>6. deleted' = deleted => UNCHANGED Keys!vars
      BY <2>2, <2>3 DEF Keys!vars, KeyOf
    <2>7. QED  BY <2>4, <2>5, <2>6
  <1>3. QED  BY <1>1, <1>2

\* The row lock, the commit and the rollback together allocate keys as if in
\* one indivisible step: every behaviour is one of IssueKeys.
THEOREM RefinesIssueKeys == Spec => KeysRefined
  <1>1. Init => Keys!Init
    <2> SUFFICES ASSUME Init PROVE Keys!Init
      OBVIOUS
    <2>1. QED  BY DEF Init, Keys!Init
  <1>2. TypeInv /\ KeyInv /\ EventInv /\ [Next]_vars => [Keys!Next]_(Keys!vars)
    BY KeysStep
  <1>3. QED  BY <1>1, <1>2, EventInvariant, PTL DEF Spec, KeysRefined, Keys!Spec

-------------------------------------------------------------------------------
(***************************************************************************)
(* The audit trail                                                         *)
(***************************************************************************)

\* Status st of issue i is where every trail begins, or some row led to it.
Logged(i, st) ==
    st = "todo" \/ \E k \in DOMAIN activities : activities[k].issue = i /\ activities[k].new = st

\* What a stale copy says was once true, so it is in the trail as well.
AuditInv ==
    /\ \A i \in IssueIds : issues[i] # NoRow => Logged(i, issues[i].status)
    /\ \A r \in Requests :
          /\ pc[r] \in {"c_lock", "c_commit"} => copy[r].status = "todo"
          /\ pc[r] = "u_commit" => Logged(mine[r], copy[r].status)
    /\ TrailIsConnected

\* The trail grows by the rows of one commit, at its end.
LEMMA TrailGrows ==
    ASSUME TypeInv, [Next]_vars
    PROVE  \/ activities' = activities
           \/ \E r \in Requests :
                 /\ CommitUpdate(r)
                 /\ patch[r].status \notin {Keep, copy[r].status}
                 /\ activities' = Append(activities,
                        [issue |-> mine[r], old |-> copy[r].status, new |-> patch[r].status])
  <1>1. ASSUME NEW r \in Requests, CommitUpdate(r)
        PROVE  \/ activities' = activities
               \/ /\ patch[r].status \notin {Keep, copy[r].status}
                  /\ activities' = Append(activities,
                         [issue |-> mine[r], old |-> copy[r].status, new |-> patch[r].status])
    <2>1. activities \in Seq(Activity)
      BY DEF TypeInv, TypeOK
    <2>2. activities' = activities \o LogChange(r)
      BY <1>1 DEF CommitUpdate
    <2>3. CASE patch[r].status \in {Keep, copy[r].status}
      BY <2>1, <2>2, <2>3 DEF LogChange
    <2>4. CASE patch[r].status \notin {Keep, copy[r].status}
      <3>1. LogChange(r) \in Seq(Activity)
        BY <1>1, LogChangeIsTrail DEF CommitUpdate
      <3>2. QED  BY <2>1, <2>2, <2>4, <3>1 DEF LogChange
    <2>5. QED  BY <2>3, <2>4
  <1>2. (\E r \in Requests : CommitUpdate(r)) \/ activities' = activities
    BY DEF Next, Begin, Step, Quiet, vars, tables, BeginCreate, LoadForUpdate,
           LoadForDelete, LoadForComplete, LockProject, CommitCreate, Reload, Delete,
           Broadcast, Sweep, SweepRow, AbortDeadlock, CommitComplete, Fail, CreateSprint,
           StartSprint
  <1>3. QED  BY <1>1, <1>2

\* What was logged stays logged.
LEMMA LoggedKept ==
    ASSUME TypeInv, [Next]_vars
    PROVE  /\ activities \in Seq(Activity) /\ activities' \in Seq(Activity)
           /\ Len(activities) <= Len(activities')
           /\ \A k \in 1 .. Len(activities) : activities'[k] = activities[k]
           /\ \A i, st : Logged(i, st) => Logged(i, st)'
  <1>1. activities \in Seq(Activity) /\ activities' \in Seq(Activity)
    BY TypeStep DEF TypeInv, TypeOK
  <1>2. Len(activities) <= Len(activities')
        /\ \A k \in 1 .. Len(activities) : activities'[k] = activities[k]
    <2>1. CASE activities' = activities
      BY <1>1, <2>1
    <2>2. ASSUME NEW e, activities' = Append(activities, e)
          PROVE  Len(activities) <= Len(activities')
                 /\ \A k \in 1 .. Len(activities) : activities'[k] = activities[k]
      BY <1>1, <2>2
    <2>3. QED  BY <2>1, <2>2, TrailGrows
  <1>3. DOMAIN activities \subseteq DOMAIN activities'
        /\ \A k \in DOMAIN activities : activities'[k] = activities[k]
    BY <1>1, <1>2
  <1>4. ASSUME NEW i, NEW st, Logged(i, st)
        PROVE  Logged(i, st)'
    BY <1>3, <1>4 DEF Logged
  <1>5. QED  BY <1>1, <1>2, <1>4

LEMMA AuditInit == Init => AuditInv
  BY DEF Init, AuditInv, TrailIsConnected

\* Whoever writes a status logs it, unless its copy says it was there before.
LEMMA AuditStep == TypeInv /\ KeyInv /\ AuditInv /\ [Next]_vars => AuditInv'
  <1> SUFFICES ASSUME TypeInv, KeyInv, AuditInv, [Next]_vars PROVE AuditInv'
    OBVIOUS
  <1> USE DEF Logged
  <1> DEFINE RowsLogged == \A i \in IssueIds : issues[i] # NoRow => Logged(i, issues[i].status)
             CopyLogged(r) == /\ pc[r] \in {"c_lock", "c_commit"} => copy[r].status = "todo"
                              /\ pc[r] = "u_commit" => Logged(mine[r], copy[r].status)
  <1>0. /\ RowsLogged /\ \A r \in Requests : CopyLogged(r)
        /\ \A i, st : Logged(i, st) => Logged(i, st)'
        /\ \A q \in Requests : pc[q] \in WithIssue => mine[q] \in IssueIds /\ copy[q] \in Row
    BY LoggedKept DEF AuditInv, TypeInv, Working
  <1>1. TrailIsConnected'
    <2>1. CASE activities' = activities
      BY <2>1 DEF AuditInv, TrailIsConnected
    <2>2. ASSUME NEW r \in Requests, CommitUpdate(r),
                 activities' = Append(activities,
                     [issue |-> mine[r], old |-> copy[r].status, new |-> patch[r].status])
          PROVE  TrailIsConnected'
      <3> DEFINE n == Len(activities) + 1
      <3>1. activities \in Seq(Activity) /\ DOMAIN activities = 1 .. Len(activities)
        BY DEF TypeInv, TypeOK
      <3>2. /\ DOMAIN activities' = 1 .. n /\ Len(activities) \in Nat
            /\ \A k \in DOMAIN activities : activities'[k] = activities[k]
            /\ activities'[n].old = copy[r].status /\ activities'[n].issue = mine[r]
        BY <2>2, <3>1
      <3>3. Logged(mine[r], copy[r].status)
        BY <1>0, <2>2 DEF CommitUpdate
      <3>4. \/ activities'[n].old = "todo"
            \/ \E j \in 1 .. n - 1 : /\ activities'[j].issue = activities'[n].issue
                                     /\ activities'[j].new = activities'[n].old
        <4>1. 1 .. n - 1 = DOMAIN activities
          BY <3>1, <3>2
        <4>2. copy[r].status = "todo" => activities'[n].old = "todo"
          BY <3>2
        <4>3. ASSUME NEW j \in DOMAIN activities, activities[j].issue = mine[r],
                     activities[j].new = copy[r].status
              PROVE  j \in 1 .. n - 1 /\ activities'[j].issue = activities'[n].issue
                     /\ activities'[j].new = activities'[n].old
          BY <3>2, <4>1, <4>3
        <4>4. QED  BY <3>3, <4>2, <4>3
      <3>5. ASSUME NEW k \in DOMAIN activities
            PROVE  \/ activities'[k].old = "todo"
                   \/ \E j \in 1 .. k - 1 : /\ activities'[j].issue = activities'[k].issue
                                            /\ activities'[j].new = activities'[k].old
        <4>1. \A j \in 1 .. k - 1 : activities'[j] = activities[j]
          BY <3>1, <3>2
        <4>2. QED  BY <3>2, <4>1 DEF AuditInv, TrailIsConnected
      <3>6. QED  BY <3>1, <3>2, <3>4, <3>5 DEF TrailIsConnected
    <2>3. QED  BY <2>1, <2>2, TrailGrows
  <1>2. RowsLogged'
    <2> SUFFICES ASSUME NEW i \in IssueIds, issues'[i] # NoRow
                 PROVE  Logged(i, issues[i].status)'
      BY DEF Logged
    <2>1. CASE issues'[i] = issues[i]
      BY <1>0, <2>1 DEF Logged
    <2>2. ASSUME NEW r \in Requests, CommitCreate(r), issues'[i] # issues[i]
          PROVE  issues'[i].status = "todo"
      BY <1>0, <2>2 DEF CommitCreate, TypeInv, TypeOK, WithIssue
    <2>3. ASSUME NEW r \in Requests, CommitUpdate(r), issues'[i] # issues[i]
          PROVE  Logged(i, issues[i].status)'
      <3>1. mine[r] = i /\ InTable(i) /\ issues'[i] = UpdatedRow(r) /\ pc[r] = "u_commit"
        BY <2>3 DEF CommitUpdate, WriteIssue, TypeInv, TypeOK
      <3>2. issues[i] \in Row /\ patch[r] \in Patch
        BY <3>1 DEF InTable, TypeInv, TypeOK
      <3>3. issues'[i].status = IF patch[r].status = Keep THEN issues[i].status ELSE patch[r].status
        BY <3>1, <3>2 DEF UpdatedRow, Patched, Row
      <3>4. CASE patch[r].status = Keep
        BY <1>0, <3>1, <3>3, <3>4 DEF InTable, Logged
      <3>5. CASE patch[r].status = copy[r].status /\ patch[r].status # Keep
        <4>1. Logged(mine[r], copy[r].status)
          BY <1>0, <3>1
        <4>2. QED  BY <1>0, <3>1, <3>3, <3>5, <4>1 DEF Logged
      <3>6. CASE patch[r].status \notin {Keep, copy[r].status}
        <4>1. LogChange(r) =
                 <<[issue |-> mine[r], old |-> copy[r].status, new |-> patch[r].status]>>
          BY <3>6 DEF LogChange
        <4>2. activities \in Seq(Activity) /\ LogChange(r) \in Seq(Activity)
          BY <3>1, LogChangeIsTrail DEF TypeInv, TypeOK
        <4>3. activities' = activities \o LogChange(r)
          BY <2>3 DEF CommitUpdate
        <4>4. Len(activities) + 1 \in DOMAIN activities'
              /\ activities'[Len(activities) + 1].issue = i
              /\ activities'[Len(activities) + 1].new = issues'[i].status
          BY <3>1, <3>3, <3>6, <4>1, <4>2, <4>3
        <4>5. QED  BY <4>4 DEF Logged
      <3>7. QED  BY <3>4, <3>5, <3>6
    <2>4. ASSUME NEW r \in Requests, CommitComplete(r), issues'[i] # issues[i]
          PROVE  Logged(i, issues[i].status)'
      <3>1. i \in swept[r] /\ issues'[i] = [issues[i] EXCEPT !.sprint = NoSprint]
        BY <2>4 DEF CommitComplete
      <3>2. issues[i] \in Row /\ issues[i] # NoRow
        BY <3>1 DEF TypeInv, TypeOK, Working
      <3>3. issues'[i].status = issues[i].status
        BY <3>1, <3>2 DEF Row
      <3>4. QED  BY <1>0, <3>2, <3>3 DEF Logged
    <2>5. \/ issues'[i] = issues[i]
          \/ \E r \in Requests : CommitCreate(r) \/ CommitUpdate(r) \/ CommitComplete(r)
      BY DEF Next, Begin, Step, Quiet, vars, tables, BeginCreate, LoadForUpdate,
             LoadForDelete, LoadForComplete, LockProject, Reload, Delete, Broadcast,
             Sweep, SweepRow, AbortDeadlock, Fail, CreateSprint, StartSprint
    <2>6. QED  BY <2>1, <2>2, <2>3, <2>4, <2>5 DEF Logged
  <1>3. ASSUME NEW q \in Requests
        PROVE  CopyLogged(q)'
    <2>1. CASE /\ pc'[q] \in {"c_lock", "c_commit", "u_commit"} => pc'[q] = pc[q]
               /\ mine'[q] = mine[q] /\ copy'[q] = copy[q]
      BY <1>0, <2>1 DEF Logged
    <2>2. CASE pc'[q] \notin {"c_lock", "c_commit", "u_commit"}
      BY <2>2
    <2>3. ASSUME NEW r \in Requests, Begin(r), q = r
          PROVE  CopyLogged(q)'
      <3>1. \/ pc'[q] = "c_lock" /\ copy'[q].status = "todo"
            \/ /\ pc'[q] = "u_commit" /\ mine'[q] \in IssueIds
               /\ issues[mine'[q]] # NoRow /\ copy'[q] = issues[mine'[q]]
            \/ pc'[q] \notin {"c_lock", "c_commit", "u_commit"}
        BY <2>3 DEF Begin, BeginCreate, LoadForUpdate, LoadForDelete, LoadForComplete,
                    InTable, Goto, TypeInv, TypeOK
      <3>2. activities' = activities
        BY <2>3 DEF Begin, BeginCreate, LoadForUpdate, LoadForDelete, LoadForComplete,
                    tables
      <3>3. pc'[q] = "u_commit" => Logged(mine[q], copy[q].status)'
        BY <1>0, <3>1, <3>2
      <3>4. QED  BY <3>1, <3>3
    <2>4. ASSUME LockProject(q)
          PROVE  CopyLogged(q)'
      BY <1>0, <2>4 DEF LockProject, Goto, TypeInv, TypeOK, WithIssue, Row
    <2>5. \/ \E r \in Requests : Begin(r) /\ q = r
          \/ LockProject(q)
          \/ /\ pc'[q] \in {"c_lock", "c_commit", "u_commit"} => pc'[q] = pc[q]
             /\ mine'[q] = mine[q] /\ copy'[q] = copy[q]
          \/ pc'[q] \notin {"c_lock", "c_commit", "u_commit"}
      BY DEF Next, Begin, Step, Quiet, vars, tables, BeginCreate, LoadForUpdate,
             LoadForDelete, LoadForComplete, LockProject, CommitCreate, CommitUpdate,
             Reload, Delete, Broadcast, Sweep, SweepRow, AbortDeadlock, CommitComplete,
             Fail, Return, Goto, CreateSprint, StartSprint, TypeInv, TypeOK
    <2>6. QED  BY <2>1, <2>2, <2>3, <2>4, <2>5
  <1>4. QED  BY <1>1, <1>2, <1>3 DEF AuditInv

LEMMA AuditInvariant == Spec => [](TypeInv /\ KeyInv /\ AuditInv)
  <1>1. QED  BY AuditInit, AuditStep, KeyInvariant, PTL DEF Spec

\* The trail of an issue has a row for every status it may be found in.
THEOREM StatusesAreLogged == Spec => []EveryStatusIsLogged
  <1>1. AuditInv => EveryStatusIsLogged
    BY DEF AuditInv, Logged, EveryStatusIsLogged
  <1>2. QED  BY <1>1, AuditInvariant, PTL

\* Every audit row starts where an earlier row of the issue, or its creation,
\* had led, although updates compare with copies of any age.
THEOREM TrailHoldsTogether == Spec => []TrailIsConnected
  <1>1. AuditInv => TrailIsConnected
    BY DEF AuditInv
  <1>2. QED  BY <1>1, AuditInvariant, PTL

-------------------------------------------------------------------------------
(***************************************************************************)
(* What a step may change in a row                                         *)
(***************************************************************************)

\* The rows an open completion has cleared are still as its sweep found them,
\* because they are locked, and no other completion has cleared them too.
SweepInv ==
    \A r \in Requests : \A i \in swept[r] :
        /\ InTable(i)
        /\ issues[i].sprint = patch[r].sprint
        /\ issues[i].status # "done"
        /\ \A q \in Requests : i \in swept[q] => q = r

LEMMA SweepInit == Init => SweepInv
  BY DEF Init, SweepInv

LEMMA SweepStep == TypeInv /\ KeyInv /\ SweepInv /\ [Next]_vars => SweepInv'
  <1> SUFFICES ASSUME TypeInv, KeyInv, SweepInv, [Next]_vars PROVE SweepInv'
    OBVIOUS
  <1> USE DEF TypeInv, TypeOK, SweepInv, InTable
  \* Steps that clear no row and touch no cleared one.
  <1>1. ASSUME \A q \in Requests : swept'[q] = {} \/ (swept'[q] = swept[q] /\ patch'[q] = patch[q]),
               \A q \in Requests : \A i \in swept'[q] :
                  issues'[i] = issues[i] /\ (i \in deleted' => i \in deleted)
        PROVE  SweepInv'
    <2> SUFFICES ASSUME NEW r \in Requests, NEW i \in swept'[r]
                 PROVE  /\ InTable(i)'
                        /\ issues'[i].sprint = patch'[r].sprint
                        /\ issues'[i].status # "done"
                        /\ \A q \in Requests : i \in swept'[q] => q = r
      OBVIOUS
    <2>1. swept'[r] = swept[r] /\ patch'[r] = patch[r] /\ i \in swept[r]
      BY <1>1
    <2>2. issues'[i] = issues[i] /\ (i \in deleted' => i \in deleted)
      BY <1>1
    <2>3. \A q \in Requests : i \in swept'[q] => i \in swept[q]
      BY <1>1
    <2>4. QED  BY <2>1, <2>2, <2>3
  <1>2. ASSUME NEW r \in Requests, Begin(r)
        PROVE  SweepInv'
    <2>1. swept[r] = {} /\ UNCHANGED <<issues, deleted, swept>>
          /\ \A q \in Requests : q # r => patch'[q] = patch[q]
      BY <1>2 DEF Begin, BeginCreate, LoadForUpdate, LoadForDelete, LoadForComplete,
                  tables, sweepVars, Working
    <2>2. QED  BY <1>1, <2>1
  <1>3. ASSUME NEW r \in Requests, CommitCreate(r)
        PROVE  SweepInv'
    BY <1>1, <1>3 DEF CommitCreate, KeyInv, Fresh, sweepVars
  <1>4. ASSUME NEW r \in Requests, CommitUpdate(r) \/ Delete(r)
        PROVE  SweepInv'
    <2>1. UNCHANGED <<patch, swept>>
      BY <1>4 DEF CommitUpdate, Delete, sweepVars
    <2>2. \A i \in IssueIds : i # mine[r] =>
             issues'[i] = issues[i] /\ (i \in deleted' => i \in deleted)
      BY <1>4 DEF CommitUpdate, WriteIssue, Delete
    <2>3. CASE RowFree(mine[r])
      BY <1>1, <2>1, <2>2, <2>3 DEF RowFree
    \* An empty body writes the row as it is.
    <2>4. CASE CommitUpdate(r) /\ patch[r] = NoPatch
      <3>1. \A i \in IssueIds : issues[i] \in Row => Patched(issues[i], NoPatch) = issues[i]
        BY DEF Patched, NoPatch, Row
      <3>2. \A i \in IssueIds : InTable(i) => issues[i] \in Row
        OBVIOUS
      <3>3. \A i \in IssueIds : issues'[i] = issues[i]
        BY <2>4, <3>1, <3>2 DEF CommitUpdate, WriteIssue, UpdatedRow
      <3>4. deleted' = deleted
        BY <2>4 DEF CommitUpdate, WriteIssue
      <3>5. QED  BY <1>1, <2>1, <3>3, <3>4
    <2>5. QED  BY <1>4, <2>3, <2>4 DEF CommitUpdate, Delete
  <1>5. ASSUME NEW r \in Requests, NEW j \in IssueIds, SweepRow(r, j)
        PROVE  SweepInv'
    <2>1. UNCHANGED <<issues, deleted, patch>>
      BY <1>5 DEF SweepRow, tables
    <2>2. swept'[r] = swept[r] \cup ({j} \cap Unfinished(patch[r].sprint))
          /\ \A q \in Requests : q # r => swept'[q] = swept[q]
      BY <1>5 DEF SweepRow
    <2>3. \A q \in Requests : j \notin swept[q]
      BY <1>5 DEF SweepRow, RowFree
    <2>4. ASSUME NEW q \in Requests, NEW i \in swept'[q]
          PROVE  /\ InTable(i)'
                 /\ issues'[i].sprint = patch'[q].sprint
                 /\ issues'[i].status # "done"
                 /\ \A u \in Requests : i \in swept'[u] => u = q
      <3>1. CASE i \in swept[q]
        BY <2>1, <2>2, <2>3, <3>1
      <3>2. CASE i \notin swept[q]
        <4>1. q = r /\ i = j /\ i \in Unfinished(patch[r].sprint)
          BY <2>2, <3>2
        <4>2. QED  BY <2>1, <2>2, <2>3, <4>1 DEF Unfinished
      <3>3. QED  BY <3>1, <3>2
    <2>5. QED  BY <2>4
  <1>6. ASSUME NEW r \in Requests, CommitComplete(r)
        PROVE  SweepInv'
    <2>1. swept'[r] = {} /\ \A q \in Requests : q # r =>
             swept'[q] = swept[q] /\ patch'[q] = patch[q]
      BY <1>6 DEF CommitComplete, Return
    <2>2. \A q \in Requests : \A i \in swept'[q] : i \notin swept[r]
      BY <2>1
    <2>3. deleted' = deleted /\ \A i \in IssueIds : i \notin swept[r] => issues'[i] = issues[i]
      BY <1>6 DEF CommitComplete
    <2>4. QED  BY <1>1, <2>1, <2>2, <2>3
  <1>7. ASSUME NEW r \in Requests, LockProject(r) \/ Reload(r) \/ Broadcast(r) \/ Sweep(r) \/ Fail(r)
        PROVE  SweepInv'
    BY <1>1, <1>7 DEF LockProject, Reload, Broadcast, Sweep, Fail, Return, tables, sweepVars
  <1>8. ASSUME NEW s \in Sprints, CreateSprint(s) \/ StartSprint(s)
        PROVE  SweepInv'
    BY <1>1, <1>8 DEF CreateSprint, StartSprint, sweepVars
  <1>9. CASE UNCHANGED vars
    BY <1>1, <1>9 DEF vars
  <1>10. QED
    BY <1>2, <1>3, <1>4, <1>5, <1>6, <1>7, <1>8, <1>9 DEF Next, Step, AbortDeadlock,
                                                          Quiet

LEMMA SweepInvariant == Spec => [](TypeInv /\ KeyInv /\ SweepInv)
  <1>1. QED  BY SweepInit, SweepStep, KeyInvariant, PTL DEF Spec

\* The ways a row that exists can change, if it changes at all.
LEMMA RowChange ==
    ASSUME TypeInv, KeyInv, [Next]_vars, NEW i \in IssueIds, issues[i] # NoRow
    PROVE  \/ issues'[i] = issues[i]
           \/ \E r \in Requests :
                 /\ pc[r] = "u_commit" /\ mine[r] = i
                 /\ issues'[i].status \in {issues[i].status, patch[r].status}
                 /\ \/ issues'[i].sprint = issues[i].sprint
                    \/ issues'[i].sprint = patch[r].sprint /\ patch[r].sprint \in Sprints
           \/ \E r \in Requests :
                 /\ CommitComplete(r) /\ i \in swept[r]
                 /\ issues'[i].status = issues[i].status /\ issues'[i].sprint = NoSprint
  <1> USE DEF TypeInv, TypeOK
  <1>1. ASSUME NEW r \in Requests, CommitCreate(r)
        PROVE  issues'[i] = issues[i]
    BY <1>1 DEF CommitCreate, KeyInv, Fresh
  <1>2. ASSUME NEW r \in Requests, CommitUpdate(r), issues'[i] # issues[i]
        PROVE  /\ pc[r] = "u_commit" /\ mine[r] = i
               /\ issues'[i].status \in {issues[i].status, patch[r].status}
               /\ \/ issues'[i].sprint = issues[i].sprint
                  \/ issues'[i].sprint = patch[r].sprint /\ patch[r].sprint \in Sprints
    <2>1. pc[r] = "u_commit" /\ mine[r] = i /\ issues'[i] = UpdatedRow(r)
      BY <1>2 DEF CommitUpdate, WriteIssue
    <2>2. issues[i] \in Row /\ patch[r] \in Patch
      OBVIOUS
    <2>3. /\ issues'[i].status = IF patch[r].status = Keep THEN issues[i].status
                                 ELSE patch[r].status
          /\ issues'[i].sprint = IF patch[r].sprint = Keep THEN issues[i].sprint
                                 ELSE patch[r].sprint
      BY <2>1, <2>2 DEF UpdatedRow, Patched, Row
    <2>4. patch[r].sprint \in Sprints \cup {Keep}
      BY <2>2 DEF Patch
    <2>5. QED  BY <2>1, <2>3, <2>4
  <1>3. ASSUME NEW r \in Requests, CommitComplete(r), issues'[i] # issues[i]
        PROVE  /\ i \in swept[r]
               /\ issues'[i].status = issues[i].status /\ issues'[i].sprint = NoSprint
    <2>1. i \in swept[r] /\ issues'[i] = [issues[i] EXCEPT !.sprint = NoSprint]
      BY <1>3 DEF CommitComplete
    <2>2. issues[i] \in Row
      OBVIOUS
    <2>3. QED  BY <2>1, <2>2 DEF Row
  <1>4. \/ issues'[i] = issues[i]
        \/ \E r \in Requests : CommitCreate(r) \/ CommitUpdate(r) \/ CommitComplete(r)
    BY DEF Next, Begin, Step, Quiet, vars, tables, BeginCreate, LoadForUpdate,
           LoadForDelete, LoadForComplete, LockProject, Reload, Delete, Broadcast, Sweep,
           SweepRow, AbortDeadlock, Fail, CreateSprint, StartSprint
  <1>5. QED  BY <1>1, <1>2, <1>3, <1>4

\* No update writes back a column its body did not name: what others committed
\* since it loaded the issue survives.
THEOREM StaleCopiesAreNotWritten == Spec => NoStaleWriteBack
  <1> DEFINE Kept ==
        \A i \in IssueIds : issues[i] # NoRow =>
          /\ issues'[i].project = issues[i].project
          /\ issues'[i].number = issues[i].number
          /\ issues'[i].status # issues[i].status =>
                \E r \in Requests : pc[r] = "u_commit" /\ mine[r] = i
                                    /\ patch[r].status = issues'[i].status
          /\ issues'[i].sprint # issues[i].sprint =>
                \/ \E r \in Requests : pc[r] = "u_commit" /\ mine[r] = i
                                       /\ patch[r].sprint = issues'[i].sprint
                \/ \E r \in Requests : pc[r] = "s_commit" /\ i \in swept[r]
  <1>1. TypeInv /\ KeyInv /\ [Next]_vars => Kept
    <2> SUFFICES ASSUME TypeInv, KeyInv, [Next]_vars, NEW i \in IssueIds, issues[i] # NoRow
                 PROVE  /\ issues'[i].project = issues[i].project
                        /\ issues'[i].number = issues[i].number
                        /\ issues'[i].status # issues[i].status =>
                              \E r \in Requests : pc[r] = "u_commit" /\ mine[r] = i
                                                  /\ patch[r].status = issues'[i].status
                        /\ issues'[i].sprint # issues[i].sprint =>
                              \/ \E r \in Requests : pc[r] = "u_commit" /\ mine[r] = i
                                                     /\ patch[r].sprint = issues'[i].sprint
                              \/ \E r \in Requests : pc[r] = "s_commit" /\ i \in swept[r]
      OBVIOUS
    <2>1. issues'[i].project = issues[i].project /\ issues'[i].number = issues[i].number
      BY KeysKept DEF KeyInv, KeyKept
    <2>2. issues'[i].status # issues[i].status =>
             \E r \in Requests : pc[r] = "u_commit" /\ mine[r] = i
                                 /\ patch[r].status = issues'[i].status
      BY RowChange
    <2>3. issues'[i].sprint # issues[i].sprint =>
             \/ \E r \in Requests : pc[r] = "u_commit" /\ mine[r] = i
                                    /\ patch[r].sprint = issues'[i].sprint
             \/ \E r \in Requests : pc[r] = "s_commit" /\ i \in swept[r]
      BY RowChange DEF CommitComplete
    <2>4. QED  BY <2>1, <2>2, <2>3
  <1>2. Spec => [][Kept]_vars
    BY <1>1, KeyInvariant, PTL DEF Spec
  <1>3. QED  BY <1>2 DEF NoStaleWriteBack

\* An issue goes back to the backlog only when its sprint closes, and never a
\* finished one.
THEOREM FinishedWorkStaysInItsSprint == Spec => SweepSparesDone
  <1> DEFINE Spared ==
        \A i \in IssueIds :
          /\ issues[i] # NoRow /\ issues[i].sprint # NoSprint
          /\ issues'[i].sprint = NoSprint
          => issues[i].status # "done" /\ sprintStatus'[issues[i].sprint] = "completed"
  <1>1. TypeInv /\ KeyInv /\ SweepInv /\ [Next]_vars => Spared
    <2> SUFFICES ASSUME TypeInv, KeyInv, SweepInv, [Next]_vars, NEW i \in IssueIds,
                        issues[i] # NoRow, issues[i].sprint # NoSprint,
                        issues'[i].sprint = NoSprint
                 PROVE  issues[i].status # "done"
                        /\ sprintStatus'[issues[i].sprint] = "completed"
      OBVIOUS
    <2>1. PICK r \in Requests : CommitComplete(r) /\ i \in swept[r]
      BY RowChange, SentinelAssumption
    <2>2. issues[i].sprint = patch[r].sprint /\ issues[i].status # "done"
          /\ patch[r].sprint \in Sprints
      BY <2>1 DEF SweepInv, CommitComplete, TypeInv, Working
    <2>3. QED  BY <2>1, <2>2 DEF CommitComplete, TypeInv, TypeOK
  <1>2. Spec => [][Spared]_vars
    BY <1>1, SweepInvariant, PTL DEF Spec
  <1>3. QED  BY <1>2 DEF SweepSparesDone
===============================================================================
