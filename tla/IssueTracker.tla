----------------------------- MODULE IssueTracker -----------------------------
(***************************************************************************)
(* The issue and sprint handlers of the API (internal/handlers/issues.go   *)
(* and sprints.go) over the PostgreSQL tables they share.                  *)
(*                                                                         *)
(* A request is one HTTP call, served by one goroutine.  It runs the       *)
(* statements of its handler one at a time and those of other requests run *)
(* in between.  Transactions are READ COMMITTED: what a transaction wrote  *)
(* shows at its commit, a SELECT ... FOR UPDATE or an UPDATE keeps its     *)
(* rows locked until then, one row taken after the other, and a failure    *)
(* undoes it.  A transaction whose writes nobody can see before the commit *)
(* is one step, its commit; one that reads something or takes several      *)
(* locks first has steps for that.                                         *)
(*                                                                         *)
(* Of an issue the model keeps its project, number, status and sprint.     *)
(* The other columns are patched by the same statement and no handler      *)
(* reads them.                                                             *)
(***************************************************************************)
EXTENDS Integers, Sequences

CONSTANTS
    Projects,       \* projects.id
    Requests,       \* HTTP requests that may be in flight together
    Mixes,          \* bound: the calls that requests may be together
    IssueIds,       \* issues.id: the UUIDs a run may draw
    Sprints,        \* sprints.id
    validStatuses,  \* the keys of issues.go's map of that name
    BadStatus,      \* a status a client may send and the map lacks
    NoSprint,       \* sprint_id IS NULL: the backlog
    NoRow,          \* no such row
    NoIssue,        \* a request that has not chosen an issue
    NoRequest,      \* nobody holds the lock
    Keep            \* a field a PATCH body leaves out

ASSUME StatusAssumption ==
    {"todo", "done"} \subseteq validStatuses /\ BadStatus \notin validStatuses

ASSUME MixAssumption ==
    Mixes \subseteq [Requests -> SUBSET {"create", "update", "delete", "complete"}]

SprintIds == Sprints \cup {NoSprint}

Row == [project : Projects, number : Nat, status : validStatuses, sprint : SprintIds]

ASSUME SentinelAssumption ==
    /\ NoRow \notin Row \cup (Projects \X Nat)
    /\ NoSprint \notin Sprints
    /\ NoIssue \notin IssueIds
    /\ NoRequest \notin Requests
    /\ Keep \notin validStatuses \cup {BadStatus} \cup SprintIds

VARIABLES
    issueSeq,       \* projects.issue_seq
    lockedBy,       \* the request that holds a project's row lock
    issues,         \* the issues table; the row of a deleted issue stays for reference
    deleted,        \* ids of deleted issues
    sprintStatus,   \* sprints.status, "absent" before the insert
    activities,     \* the activities table in insertion order
    published,      \* events handed to the hub
    pc,             \* the next statement of each request
    mine,           \* the issue id a request works on
    copy,           \* the handler's variable `issue`
    patch,          \* the request body of an update; the sprint of a completion
    matched,        \* rows the sweep of a completion has found and not come to
    swept,          \* rows it has cleared and keeps locked
    calls           \* what each request may be, for ever one of Mixes

vars == <<issueSeq, lockedBy, issues, deleted, sprintStatus, activities,
          published, pc, mine, copy, patch, matched, swept, calls>>

tables == <<issueSeq, lockedBy, issues, deleted, sprintStatus, activities>>
sweepVars == <<matched, swept, calls>>

\* A body can name a sprint but not the backlog: a null sprintId means Keep.
Patch == [status : validStatuses \cup {Keep}, sprint : Sprints \cup {Keep}]
NoPatch == [status |-> Keep, sprint |-> Keep]

Activity == [issue : IssueIds, old : validStatuses, new : validStatuses]

EventType ==
    [c_broadcast |-> "issue.created", u_broadcast |-> "issue.updated",
     d_broadcast |-> "issue.deleted"]

Event == [type : {"issue.created", "issue.updated", "issue.deleted"},
          issue : IssueIds, row : Row]

Init ==
    /\ issueSeq = [p \in Projects |-> 0]
    /\ lockedBy = [p \in Projects |-> NoRequest]
    /\ issues = [i \in IssueIds |-> NoRow]
    /\ deleted = {}
    /\ sprintStatus = [s \in Sprints |-> "absent"]
    /\ activities = << >>
    /\ published = {}
    /\ pc = [r \in Requests |-> "idle"]
    /\ mine = [r \in Requests |-> NoIssue]
    /\ copy = [r \in Requests |-> NoRow]
    /\ patch = [r \in Requests |-> NoPatch]
    /\ matched = [r \in Requests |-> {}]
    /\ swept = [r \in Requests |-> {}]
    /\ calls \in Mixes

Goto(r, l) == pc' = [pc EXCEPT ![r] = l]

\* The handler returns and its variables go with it.
Return(r) ==
    /\ Goto(r, "done")
    /\ mine' = [mine EXCEPT ![r] = NoIssue]
    /\ copy' = [copy EXCEPT ![r] = NoRow]
    /\ patch' = [patch EXCEPT ![r] = NoPatch]
    /\ matched' = [matched EXCEPT ![r] = {}]
    /\ swept' = [swept EXCEPT ![r] = {}]
    /\ UNCHANGED calls

InTable(i) == issues[i] # NoRow /\ i \notin deleted

\* No open transaction holds the row of issue i.
RowFree(i) == \A r \in Requests : i \notin swept[r]

-------------------------------------------------------------------------------
(***************************************************************************)
(* CreateIssue                                                             *)
(***************************************************************************)

\* Authentication, validation, and the UUID that BeforeCreate will draw.  The
\* sprint is whatever the body names: nothing looks it up.
BeginCreate(r, i, p, s) ==
    /\ pc[r] = "idle" /\ "create" \in calls[r]
    /\ issues[i] = NoRow /\ \A q \in Requests : mine[q] # i
    /\ mine' = [mine EXCEPT ![r] = i]
    /\ copy' = [copy EXCEPT ![r] = [project |-> p, number |-> 0,
                                    status |-> "todo", sprint |-> s]]
    /\ Goto(r, "c_lock")
    /\ UNCHANGED <<tables, published, patch, sweepVars>>

\* A SELECT without FOR UPDATE: nobody waits.
AnyLockWillDo(p) == TRUE

LockFree(p) == lockedBy[p] = NoRequest

\* SELECT ... FOR UPDATE, and next := p.IssueSeq + 1.
LockProject(r) ==
    LET p == copy[r].project IN
    /\ pc[r] = "c_lock"
    /\ LockFree(p)
    /\ lockedBy' = [lockedBy EXCEPT ![p] = r]
    /\ copy' = [copy EXCEPT ![r].number = issueSeq[p] + 1]
    /\ Goto(r, "c_commit")
    /\ UNCHANGED <<issueSeq, issues, deleted, sprintStatus, activities,
                   published, mine, patch, sweepVars>>

\* UPDATE issue_seq, INSERT the issue, COMMIT.
CommitCreate(r) ==
    LET p == copy[r].project IN
    /\ pc[r] = "c_commit"
    /\ issueSeq' = [issueSeq EXCEPT ![p] = copy[r].number]
    /\ issues' = [issues EXCEPT ![mine[r]] = copy[r]]
    /\ lockedBy' = [lockedBy EXCEPT ![p] = NoRequest]
    /\ Goto(r, "c_broadcast")
    /\ UNCHANGED <<deleted, sprintStatus, activities, published, mine, copy,
                   patch, sweepVars>>

-------------------------------------------------------------------------------
(***************************************************************************)
(* UpdateIssue                                                             *)
(***************************************************************************)

\* A handler that leaves the enum to the database.
AnyStatus(st) == TRUE

StatusAccepted(st) == st \in validStatuses \cup {Keep}

\* loadIssueForMember, outside any transaction, and the checks on the body.
LoadForUpdate(r, i, st, s) ==
    /\ pc[r] = "idle" /\ "update" \in calls[r]
    /\ InTable(i)
    /\ StatusAccepted(st)
    /\ mine' = [mine EXCEPT ![r] = i]
    /\ copy' = [copy EXCEPT ![r] = issues[i]]
    /\ patch' = [patch EXCEPT ![r] = [status |-> st, sprint |-> s]]
    /\ Goto(r, "u_commit")
    /\ UNCHANGED <<tables, published, sweepVars>>

\* The columns of the updates map over a row.
Patched(row, p) ==
    [row EXCEPT !.status = IF p.status = Keep THEN @ ELSE p.status,
                !.sprint = IF p.sprint = Keep THEN @ ELSE p.sprint]

\* gorm's Save: every column, from the copy the handler loaded.
SavedRow(r) == Patched(copy[r], patch[r])

\* UPDATE ... SET the columns of the map, on the row as it is now.
UpdatedRow(r) == Patched(issues[mine[r]], patch[r])

\* logChange after the copy took the new value: there is never a difference.
LogAfterAssignment(r) == << >>

\* logChange with the arguments read from the copy already patched.
LogNewAsOld(r) ==
    IF patch[r].status \in {Keep, copy[r].status} THEN << >>
    ELSE <<[issue |-> mine[r], old |-> patch[r].status, new |-> patch[r].status]>>

\* logChange("status", ...): against the copy, however old it is.
LogChange(r) ==
    IF patch[r].status \in {Keep, copy[r].status} THEN << >>
    ELSE <<[issue |-> mine[r], old |-> copy[r].status, new |-> patch[r].status]>>

\* An upsert: writing an issue that was deleted brings it back.
UpsertIssue(r) ==
    /\ issues' = [issues EXCEPT ![mine[r]] = UpdatedRow(r)]
    /\ deleted' = deleted \ {mine[r]}

\* No row matches a deleted issue, which is no error.
WriteIssue(r) ==
    /\ issues' = IF InTable(mine[r])
                 THEN [issues EXCEPT ![mine[r]] = UpdatedRow(r)] ELSE issues
    /\ UNCHANGED deleted

\* UPDATE the issue, INSERT the activities, COMMIT.  gorm assigns the new
\* values to the copy as well.  An empty body opens no transaction and waits
\* for no lock.
CommitUpdate(r) ==
    /\ pc[r] = "u_commit"
    /\ patch[r] = NoPatch \/ RowFree(mine[r])
    /\ WriteIssue(r)
    /\ activities' = activities \o LogChange(r)
    /\ copy' = [copy EXCEPT ![r] = Patched(@, patch[r])]
    /\ Goto(r, "u_reload")
    /\ UNCHANGED <<issueSeq, lockedBy, sprintStatus, published, mine, patch, sweepVars>>

\* First(issue) with its error ignored: no row, or no answer, leaves the copy.
Reload(r) ==
    /\ pc[r] = "u_reload"
    /\ \/ InTable(mine[r]) /\ copy' = [copy EXCEPT ![r] = issues[mine[r]]]
       \/ UNCHANGED copy
    /\ Goto(r, "u_broadcast")
    /\ UNCHANGED <<tables, published, mine, patch, sweepVars>>

-------------------------------------------------------------------------------
(***************************************************************************)
(* DeleteIssue                                                             *)
(***************************************************************************)

\* loadIssueForMember.  The role check that follows it can only refuse.
LoadForDelete(r, i) ==
    /\ pc[r] = "idle" /\ "delete" \in calls[r]
    /\ InTable(i)
    /\ mine' = [mine EXCEPT ![r] = i]
    /\ copy' = [copy EXCEPT ![r] = issues[i]]
    /\ Goto(r, "d_delete")
    /\ UNCHANGED <<tables, published, patch, sweepVars>>

\* One statement, its own transaction.  A row already gone is no error.
Delete(r) ==
    /\ pc[r] = "d_delete"
    /\ RowFree(mine[r])
    /\ deleted' = deleted \cup {mine[r]}
    /\ Goto(r, "d_broadcast")
    /\ UNCHANGED <<issueSeq, lockedBy, issues, sprintStatus, activities,
                   published, mine, copy, patch, sweepVars>>

\* h.broadcast after the commit, then the response.
Broadcast(r) ==
    /\ pc[r] \in DOMAIN EventType
    /\ published' = published \cup
           {[type |-> EventType[pc[r]], issue |-> mine[r], row |-> copy[r]]}
    /\ Return(r)
    /\ UNCHANGED tables

-------------------------------------------------------------------------------
(***************************************************************************)
(* Sprints                                                                 *)
(***************************************************************************)

CreateSprint(s) ==
    /\ sprintStatus[s] = "absent"
    /\ sprintStatus' = [sprintStatus EXCEPT ![s] = "planned"]
    /\ UNCHANGED <<issueSeq, lockedBy, issues, deleted, activities, published,
                   pc, mine, copy, patch, sweepVars>>

\* No condition on the status the sprint had.
StartSprint(s) ==
    /\ sprintStatus[s] # "absent"
    /\ sprintStatus' = [sprintStatus EXCEPT ![s] = "active"]
    /\ UNCHANGED <<issueSeq, lockedBy, issues, deleted, activities, published,
                   pc, mine, copy, patch, sweepVars>>

LoadForComplete(r, s) ==
    /\ pc[r] = "idle" /\ "complete" \in calls[r]
    /\ sprintStatus[s] # "absent"
    /\ patch' = [patch EXCEPT ![r].sprint = s]
    /\ Goto(r, "s_sweep")
    /\ UNCHANGED <<tables, published, mine, copy, sweepVars>>

\* A sweep that forgets the condition on the status.
WholeSprint(s) == {i \in IssueIds : InTable(i) /\ issues[i].sprint = s}

\* WHERE sprint_id = s AND status <> 'done'
Unfinished(s) ==
    {i \in IssueIds : InTable(i) /\ issues[i].sprint = s /\ issues[i].status # "done"}

\* UPDATE issues SET sprint_id = NULL: the snapshot of the statement says which
\* rows it will come to.
Sweep(r) ==
    /\ pc[r] = "s_sweep"
    /\ matched' = [matched EXCEPT ![r] = Unfinished(patch[r].sprint)]
    /\ Goto(r, "s_commit")
    /\ UNCHANGED <<tables, published, mine, copy, patch, swept, calls>>

\* It takes their locks one by one and keeps them, nothing committed.  A row is
\* tested again once it is locked, and passed over if it was changed.  (PostgreSQL
\* keeps that lock as well, so that others wait longer.)
SweepRow(r, i) ==
    /\ pc[r] = "s_commit" /\ i \in matched[r]
    /\ RowFree(i)
    /\ matched' = [matched EXCEPT ![r] = @ \ {i}]
    /\ swept' = [swept EXCEPT ![r] = @ \cup ({i} \cap Unfinished(patch[r].sprint))]
    /\ UNCHANGED <<tables, published, pc, mine, copy, patch, calls>>

\* UPDATE the sprint, COMMIT; the response follows.
CommitComplete(r) ==
    /\ pc[r] = "s_commit" /\ matched[r] = {}
    /\ issues' = [i \in IssueIds |->
                     IF i \in swept[r] THEN [issues[i] EXCEPT !.sprint = NoSprint]
                     ELSE issues[i]]
    /\ sprintStatus' = [sprintStatus EXCEPT ![patch[r].sprint] = "completed"]
    /\ Return(r)
    /\ UNCHANGED <<issueSeq, lockedBy, deleted, activities, published>>

-------------------------------------------------------------------------------
(***************************************************************************)
(* Failures                                                                *)
(***************************************************************************)

InFlight(r) == pc[r] \notin {"idle", "done"}

Unlocked(r) == [p \in Projects |-> IF lockedBy[p] = r THEN NoRequest ELSE lockedBy[p]]

\* The counter is bumped outside the transaction, which alone is rolled back.
BumpSurvives(r) ==
    /\ issueSeq' = IF pc[r] = "c_commit"
                   THEN [issueSeq EXCEPT ![copy[r].project] = @ + 1] ELSE issueSeq
    /\ lockedBy' = Unlocked(r)

\* The transaction is left open.
LeaveOpen(r) == UNCHANGED <<issueSeq, lockedBy>>

\* ROLLBACK: none of the transaction's writes, and none of its locks, remain.
Rollback(r) ==
    /\ lockedBy' = Unlocked(r)
    /\ UNCHANGED issueSeq

\* The error of the transaction is dropped and the handler goes on.
FailAndGoOn(r) ==
    /\ InFlight(r)
    /\ Rollback(r)
    /\ IF pc[r] = "c_commit"
       THEN Goto(r, "c_broadcast") /\ UNCHANGED <<mine, copy, patch, sweepVars>>
       ELSE Return(r)
    /\ UNCHANGED <<issues, deleted, sprintStatus, activities, published>>

\* A statement fails or the pod dies: PostgreSQL rolls an open transaction
\* back, and what the handler had left to do, the broadcast included, is never
\* done.
Fail(r) ==
    /\ InFlight(r)
    /\ Rollback(r)
    /\ Return(r)
    /\ UNCHANGED <<issues, deleted, sprintStatus, activities, published>>

\* Sweeps that wait for each other's rows.
Deadlocked(r) ==
    matched[r] # {} /\ \E circle \in SUBSET Requests :
        /\ r \in circle
        /\ \A q \in circle :
              /\ matched[q] # {}
              /\ \A i \in matched[q] : \E holder \in circle : i \in swept[holder]

\* PostgreSQL notices (deadlock_timeout) and fails one of them.
AbortDeadlock(r) == Deadlocked(r) /\ Fail(r)

-------------------------------------------------------------------------------

Begin(r) ==
    \/ \E i \in IssueIds, p \in Projects, s \in SprintIds : BeginCreate(r, i, p, s)
    \/ \E i \in IssueIds, st \in validStatuses \cup {Keep, BadStatus},
          s \in Sprints \cup {Keep} : LoadForUpdate(r, i, st, s)
    \/ \E i \in IssueIds : LoadForDelete(r, i)
    \/ \E s \in Sprints : LoadForComplete(r, s)

\* The next statement of a request that has started.
Step(r) ==
    /\ InFlight(r)
    /\ \/ LockProject(r) \/ CommitCreate(r)
       \/ CommitUpdate(r) \/ Reload(r)
       \/ Delete(r)
       \/ Broadcast(r)
       \/ Sweep(r) \/ (\E i \in IssueIds : SweepRow(r, i)) \/ CommitComplete(r)
       \/ AbortDeadlock(r)

\* Nothing in flight: the server waits for requests.
Quiet == (\A r \in Requests : ~InFlight(r)) /\ UNCHANGED vars

Next ==
    \/ \E r \in Requests : Begin(r) \/ Step(r) \/ Fail(r)
    \/ \E s \in Sprints : CreateSprint(s) \/ StartSprint(s)
    \/ Quiet

\* A goroutine keeps running, PostgreSQL grants a lock that stays free, and it
\* ends a deadlock.
Fairness == \A r \in Requests : WF_vars(Step(r))

Spec == Init /\ [][Next]_vars /\ Fairness

-------------------------------------------------------------------------------
(***************************************************************************)
(* Properties                                                              *)
(***************************************************************************)

\* The tables hold values the columns allow: a status is always one of the
\* enum, because the handlers refuse any other before they write.
TypeOK ==
    /\ issueSeq \in [Projects -> Nat]
    /\ lockedBy \in [Projects -> Requests \cup {NoRequest}]
    /\ issues \in [IssueIds -> Row \cup {NoRow}]
    /\ deleted \subseteq IssueIds
    /\ sprintStatus \in [Sprints -> {"absent", "planned", "active", "completed"}]
    /\ activities \in Seq(Activity)
    /\ published \subseteq Event
    /\ pc \in [Requests -> {"idle", "c_lock", "c_commit", "c_broadcast",
                            "u_commit", "u_reload", "u_broadcast",
                            "d_delete", "d_broadcast", "s_sweep", "s_commit", "done"}]
    /\ mine \in [Requests -> IssueIds \cup {NoIssue}]
    /\ copy \in [Requests -> Row \cup {NoRow}]
    /\ patch \in [Requests -> Patch]
    /\ matched \in [Requests -> SUBSET IssueIds]
    /\ swept \in [Requests -> SUBSET IssueIds]
    /\ calls \in Mixes

\* Two issues a project ever had, deleted ones included, have different
\* numbers: "two concurrent creates never collide" (issues.go:51).
KeysUnique ==
    \A i, j \in IssueIds :
        /\ i # j /\ issues[i] # NoRow /\ issues[j] # NoRow
        /\ issues[i].project = issues[j].project
        => issues[i].number # issues[j].number

\* The numbers of a project are 1 .. issue_seq, every one used: a create that
\* fails after it took a number gives the number back.
NumbersDense ==
    \A p \in Projects :
        {issues[i].number : i \in {j \in IssueIds : issues[j] # NoRow /\ issues[j].project = p}}
            = 1 .. issueSeq[p]

\* Allocation under the row lock looks indivisible: this module implements
\* IssueKeys.
Keys == INSTANCE IssueKeys WITH
    last <- issueSeq,
    key  <- [i \in IssueIds |-> IF issues[i] = NoRow THEN NoRow
                                ELSE <<issues[i].project, issues[i].number>>],
    gone <- deleted,
    NoKey <- NoRow

KeysRefined == Keys!Spec

\* However stale the copies that updates compare with, a status other than the
\* one an issue is born with is the new value of some row of its audit trail.
EveryStatusIsLogged ==
    \A i \in IssueIds :
        issues[i] # NoRow /\ issues[i].status # "todo" =>
            \E k \in DOMAIN activities :
                activities[k].issue = i /\ activities[k].new = issues[i].status

\* An audit row starts from a status that the trail had already reached: "todo"
\* or the new value of an earlier row of the same issue.
TrailIsConnected ==
    \A k \in DOMAIN activities :
        \/ activities[k].old = "todo"
        \/ \E j \in 1 .. k - 1 :
              activities[j].issue = activities[k].issue /\ activities[j].new = activities[k].old

\* A request changes only the columns its body names: what others committed
\* after it loaded the issue is not written back from the old copy.
NoStaleWriteBack ==
    [][\A i \in IssueIds : issues[i] # NoRow =>
          /\ issues'[i].project = issues[i].project
          /\ issues'[i].number = issues[i].number
          /\ issues'[i].status # issues[i].status =>
                \E r \in Requests : pc[r] = "u_commit" /\ mine[r] = i
                                    /\ patch[r].status = issues'[i].status
          /\ issues'[i].sprint # issues[i].sprint =>
                \/ \E r \in Requests : pc[r] = "u_commit" /\ mine[r] = i
                                       /\ patch[r].sprint = issues'[i].sprint
                \/ \E r \in Requests : pc[r] = "s_commit" /\ i \in swept[r]
      ]_vars

\* An issue goes back to the backlog only in the step that closes its sprint,
\* and only if it is not done at that very moment, though the sweep that chose
\* it was an earlier statement.
SweepSparesDone ==
    [][\A i \in IssueIds :
          /\ issues[i] # NoRow /\ issues[i].sprint # NoSprint
          /\ issues'[i].sprint = NoSprint
          => issues[i].status # "done" /\ sprintStatus'[issues[i].sprint] = "completed"
      ]_vars

\* Once watchers were told that an issue is deleted, it never is in the table
\* again, although updates that loaded it before are still to commit.
DeletedEventIsFinal ==
    \A e \in published : e.type = "issue.deleted" => ~InTable(e.issue)

\* Watchers hear only of issues that were committed, under the key they have:
\* no event comes from a transaction that was rolled back.
EventsAfterCommit ==
    \A e \in published :
        /\ issues[e.issue] # NoRow
        /\ e.row.project = issues[e.issue].project
        /\ e.row.number = issues[e.issue].number

\* A request that started ends, whichever row locks it met, in whatever order
\* sweeps of the same rows took them, and however the holders ended.
EveryRequestEnds == \A r \in Requests : InFlight(r) ~> pc[r] = "done"

-------------------------------------------------------------------------------
(***************************************************************************)
(* What the comments and the README say, and the code does not do          *)
(***************************************************************************)

\* "records an activity row for meaningful field changes (status ...) -- the
\* audit trail" (issues.go:190): the last status row of an issue in the table
\* tells its status, "todo" if there is none.
AuditTellsStatus ==
    \A i \in IssueIds : InTable(i) =>
        LET rows == {k \in DOMAIN activities : activities[k].issue = i} IN
        IF rows = {} THEN issues[i].status = "todo"
        ELSE \E k \in rows : (\A j \in rows : j <= k) /\ activities[k].new = issues[i].status

\* "Any unfinished issues are moved back to the backlog" (sprints.go:118): when
\* a sprint becomes completed, what it holds is done.
SprintEndsClean ==
    [][\A s \in Sprints :
          sprintStatus[s] # "completed" /\ sprintStatus'[s] = "completed" =>
             \A i \in IssueIds \ deleted' :
                issues'[i] # NoRow /\ issues'[i].sprint = s => issues'[i].status = "done"
      ]_vars
===============================================================================
