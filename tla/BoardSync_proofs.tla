---------------------------- MODULE BoardSync_proofs ----------------------------
(***************************************************************************)
(* Proofs about BoardSync, for any number of issues, boards, requests and  *)
(* pods, any columns and any size of the buffers.                          *)
(***************************************************************************)
EXTENDS BoardSync, SequenceTheorems, TLAPS

\* A request that is under way has something to do.
Working == \A r \in Requests : pc[r] \notin {"idle", "done"} => job[r] \in Job

TypeInv == TypeOK /\ Working

\* No card is in two of the columns.
Disjoint(cols) ==
    \A s, t \in STATUSES : s # t => \A i \in Issues : ~(i \in cols[s] /\ i \in cols[t])

-------------------------------------------------------------------------------
(***************************************************************************)
(* The columns                                                             *)
(***************************************************************************)

LEMMA UpsertColumns ==
    ASSUME NEW cols \in Columns, NEW i \in Issues, NEW s \in STATUSES
    PROVE  /\ upsertIssue(cols, i, s) \in Columns
           /\ Disjoint(cols) => Disjoint(upsertIssue(cols, i, s))
  BY DEF upsertIssue, Columns, Disjoint

LEMMA RemoveColumns ==
    ASSUME NEW cols \in Columns, NEW i \in Issues
    PROVE  /\ removeIssue(cols, i) \in Columns
           /\ Disjoint(cols) => Disjoint(removeIssue(cols, i))
  BY DEF removeIssue, Columns, Disjoint

LEMMA AppliedColumns ==
    ASSUME NEW cols \in Columns, NEW i \in Issues, NEW s \in STATUSES \cup {Absent}
    PROVE  /\ Applied(cols, i, s) \in Columns
           /\ Disjoint(cols) => Disjoint(Applied(cols, i, s))
  BY UpsertColumns, RemoveColumns DEF Applied

\* The card was in the column it is taken from, so in no other.
LEMMA MovedColumns ==
    ASSUME NEW cols \in Columns, NEW i \in Issues, NEW from \in STATUSES,
           NEW to \in STATUSES, i \in cols[from]
    PROVE  /\ Moved(cols, i, from, to) \in Columns
           /\ Disjoint(cols) => Disjoint(Moved(cols, i, from, to))
  BY DEF Moved, Columns, Disjoint

LEMMA FetchedColumns ==
    ASSUME NEW rows \in [Issues -> Issue]
    PROVE  /\ [s \in STATUSES |-> {i \in Issues : rows[i].status = s}] \in Columns
           /\ Disjoint([s \in STATUSES |-> {i \in Issues : rows[i].status = s}])
  BY DEF Columns, Disjoint

LEMMA OneColumnIsDisjoint ==
    OneColumn <=> \A b \in Boards : Disjoint(columns[b]) /\ Disjoint(boardRef[b])
  BY DEF OneColumn, Disjoint

-------------------------------------------------------------------------------
(***************************************************************************)
(* Types                                                                   *)
(***************************************************************************)

LEMMA NoIssueIsIssue == NoIssue \in Issue /\ noIssues \in [Issues -> Issue]
  BY DEF NoIssue, Issue, noIssues

LEMMA PatchedIsIssue ==
    ASSUME NEW row \in Issue, NEW s \in STATUSES \cup {Keep}
    PROVE  Patched(row, s) \in Issue
  BY DEF Patched, Issue

LEMMA TypeInit == Init => TypeInv
  <1> SUFFICES ASSUME Init PROVE TypeInv
    OBVIOUS
  <1>1. issues \in [Issues -> Issue]
    BY StatusAssumption DEF Init, NoIssue, Issue
  <1>2. /\ columns \in [Boards -> Columns] /\ boardRef \in [Boards -> Columns]
        /\ snap \in [Boards -> [Issues -> Issue]] /\ copy \in [Requests -> Issue]
    BY NoIssueIsIssue DEF Init, Columns, emptyColumns
  <1>3. published \in [Issues -> Nat] /\ seen \in [Boards -> [Issues -> Nat]]
    BY <1>1 DEF Init, Issue
  <1>4. QED  BY <1>1, <1>2, <1>3 DEF Init, TypeInv, TypeOK, Working

LEMMA SpoilType ==
    ASSUME spoilt \in [Boards -> SUBSET Causes], NEW bs, NEW why \in Causes, Spoil(bs, why)
    PROVE  spoilt' \in [Boards -> SUBSET Causes]
  BY DEF Spoil

\* The types of the pages' variables, of the server's, and so on.
PageTypes ==
    /\ columns \in [Boards -> Columns]
    /\ boardRef \in [Boards -> Columns]
    /\ seen \in [Boards -> [Issues -> Nat]]

ServerTypes == issues \in [Issues -> Issue] /\ published \in [Issues -> Nat]

RequestTypes ==
    /\ pc \in [Requests -> {"idle", "load", "commit", "reload", "publish", "answer", "done"}]
    /\ job \in [Requests -> Job \cup {None}]
    /\ copy \in [Requests -> Issue]
    /\ failed \subseteq Requests
    /\ Working

FetchTypes ==
    /\ fetch \in [Boards -> {"none", "asked", "shown", "failed"}]
    /\ snap \in [Boards -> [Issues -> Issue]]

SocketTypes == socket \in [Boards -> Pods \cup {None}] /\ queue \in [Boards -> Seq(Event)]

SpoiltType == spoilt \in [Boards -> SUBSET Causes]

\* The invariant by groups of variables, since an action leaves most groups alone.
LEMMA TypeGroups ==
    TypeInv <=> /\ PageTypes /\ ServerTypes /\ RequestTypes
                /\ FetchTypes /\ SocketTypes /\ SpoiltType
  BY DEF TypeInv, TypeOK, PageTypes, ServerTypes, RequestTypes, FetchTypes, SocketTypes, SpoiltType

LEMMA GroupsStay ==
    /\ PageTypes /\ UNCHANGED pageVars => PageTypes'
    /\ ServerTypes /\ UNCHANGED serverVars => ServerTypes'
    /\ RequestTypes /\ UNCHANGED requestVars => RequestTypes'
    /\ FetchTypes /\ UNCHANGED fetchVars => FetchTypes'
    /\ SocketTypes /\ UNCHANGED socketVars => SocketTypes'
    /\ SpoiltType /\ UNCHANGED spoilt => SpoiltType'
  BY DEF PageTypes, ServerTypes, RequestTypes, FetchTypes, SocketTypes, SpoiltType, Working,
         pageVars, serverVars, requestVars, fetchVars, socketVars

\* What a request under way holds.
LEMMA JobTypes ==
    ASSUME RequestTypes, NEW r \in Requests, pc[r] \notin {"idle", "done"}
    PROVE  /\ job[r] \in Job
           /\ job[r].issue \in Issues
           /\ job[r].kind \in {"create", "update", "drop", "delete"}
           /\ job[r].status \in STATUSES \cup {Keep}
           /\ job[r].by \in Boards \cup {Elsewhere}
           /\ copy[r] \in Issue
           /\ copy[r].status \in STATUSES \cup {Absent}
           /\ copy[r].ver \in Nat
  <1>1. job[r] \in Job /\ copy[r] \in Issue
    BY DEF RequestTypes, Working
  <1>2. QED  BY <1>1 DEF Job, Issue

\* A request that moves on with a new copy keeps the types of requests.
LEMMA CopyTypes ==
    ASSUME RequestTypes, NEW r \in Requests, pc[r] \notin {"idle", "done"},
           NEW row \in Issue,
           NEW l \in {"load", "commit", "reload", "publish", "answer"},
           copy' = [copy EXCEPT ![r] = row], Goto(r, l), UNCHANGED job,
           failed' \subseteq Requests
    PROVE  RequestTypes'
  BY DEF RequestTypes, Working, Goto

LEMMA TypeStep == TypeInv /\ [Next]_vars => TypeInv'
  <1> SUFFICES ASSUME TypeInv, [Next]_vars PROVE TypeInv'
    OBVIOUS
  <1> USE GroupsStay
  <1>0. PageTypes /\ ServerTypes /\ RequestTypes /\ FetchTypes /\ SocketTypes /\ SpoiltType
    BY TypeGroups
  <1> SUFFICES /\ PageTypes' /\ ServerTypes' /\ RequestTypes'
               /\ FetchTypes' /\ SocketTypes' /\ SpoiltType'
    BY DEF TypeInv, TypeOK, PageTypes, ServerTypes, RequestTypes, FetchTypes, SocketTypes, SpoiltType
  <1> DEFINE Goal == /\ PageTypes' /\ ServerTypes' /\ RequestTypes'
                     /\ FetchTypes' /\ SocketTypes' /\ SpoiltType'
  <1>1. ASSUME NEW r \in Requests, NEW j \in Job, Ask(r, j) PROVE Goal
    <2>1. RequestTypes'
      BY <1>0, <1>1 DEF Ask, RequestTypes, Working, Goto
    <2>2. QED  BY <1>0, <1>1, <2>1 DEF Ask
  <1>2. ASSUME NEW r \in Requests, Load(r) PROVE Goal
    <2>1. job[r].issue \in Issues /\ job[r] \in Job
      BY <1>0, <1>2, JobTypes DEF Load
    <2>2. issues[job[r].issue] \in Issue
      BY <1>0, <2>1 DEF ServerTypes
    <2>3. RequestTypes'
      BY <1>0, <1>2, <2>1, <2>2 DEF Load, RequestTypes, Working, Goto
    <2>4. QED  BY <1>0, <1>2, <2>3 DEF Load
  <1>3. ASSUME NEW r \in Requests, CommitCreate(r) PROVE Goal
    <2> DEFINE row == [status |-> "todo", ver |-> 1]
    <2>1. job[r].issue \in Issues
      BY <1>0, <1>3, JobTypes DEF CommitCreate
    <2>2. row \in Issue
      BY StatusAssumption DEF Issue
    <2>3. /\ issues' = [issues EXCEPT ![job[r].issue] = row] /\ copy' = [copy EXCEPT ![r] = row]
          /\ Goto(r, "publish") /\ pc[r] = "commit"
          /\ UNCHANGED <<published, job, failed, fetchVars, socketVars, pageVars, spoilt>>
      BY <1>3 DEF CommitCreate
    <2> HIDE DEF row
    <2>4. ServerTypes'
      BY <1>0, <2>1, <2>2, <2>3 DEF ServerTypes
    <2>5. failed' \subseteq Requests
      BY <1>0, <2>3 DEF RequestTypes
    <2>6. RequestTypes'
      BY <1>0, <2>2, <2>3, <2>5, CopyTypes
    <2>7. QED  BY <1>0, <2>3, <2>4, <2>6
  <1>4. ASSUME NEW r \in Requests, CommitUpdate(r) PROVE Goal
    <2>1. job[r].issue \in Issues /\ job[r].status \in STATUSES \cup {Keep} /\ copy[r] \in Issue
      BY <1>0, <1>4, JobTypes DEF CommitUpdate
    <2> DEFINE newer == [issues[job[r].issue] EXCEPT !.ver = @ + 1]
    <2>2. newer \in Issue
      BY <1>0, <2>1 DEF ServerTypes, Issue
    <2>3. Patched(newer, job[r].status) \in Issue /\ Patched(copy[r], job[r].status) \in Issue
      BY <2>1, <2>2, PatchedIsIssue
    <2>4. /\ \/ issues' = [issues EXCEPT ![job[r].issue] = Patched(newer, job[r].status)]
             \/ issues' = issues
          /\ copy' = [copy EXCEPT ![r] = Patched(copy[r], job[r].status)]
          /\ Goto(r, "reload") /\ pc[r] = "commit"
          /\ UNCHANGED <<published, job, failed, fetchVars, socketVars, pageVars, spoilt>>
      BY <1>4 DEF CommitUpdate
    <2> HIDE DEF newer
    <2>5. ServerTypes'
      BY <1>0, <2>1, <2>3, <2>4 DEF ServerTypes
    <2>6. failed' \subseteq Requests
      BY <1>0, <2>4 DEF RequestTypes
    <2>7. RequestTypes'
      BY <1>0, <2>3, <2>4, <2>6, CopyTypes
    <2>8. QED  BY <1>0, <2>4, <2>5, <2>7
  <1>5. ASSUME NEW r \in Requests, CommitDelete(r) PROVE Goal
    <2> DEFINE gone == [status |-> Absent,
                        ver |-> issues[job[r].issue].ver + IF InTable(job[r].issue) THEN 1 ELSE 0]
    <2>1. job[r].issue \in Issues
      BY <1>0, <1>5, JobTypes DEF CommitDelete
    <2>2. issues[job[r].issue].ver \in Nat
      BY <1>0, <2>1 DEF ServerTypes, Issue
    <2>3. gone \in Issue
      <3>1. CASE InTable(job[r].issue)
        BY <2>2, <3>1 DEF Issue
      <3>2. CASE ~InTable(job[r].issue)
        BY <2>2, <3>2 DEF Issue
      <3>3. QED  BY <3>1, <3>2
    <2>4. /\ issues' = [issues EXCEPT ![job[r].issue] = gone] /\ copy' = [copy EXCEPT ![r] = gone]
          /\ Goto(r, "publish") /\ pc[r] = "commit"
          /\ UNCHANGED <<published, job, failed, fetchVars, socketVars, pageVars, spoilt>>
      BY <1>5 DEF CommitDelete
    <2> HIDE DEF gone
    <2>5. ServerTypes'
      BY <1>0, <2>1, <2>3, <2>4 DEF ServerTypes
    <2>6. failed' \subseteq Requests
      BY <1>0, <2>4 DEF RequestTypes
    <2>7. RequestTypes'
      BY <1>0, <2>3, <2>4, <2>6, CopyTypes
    <2>8. QED  BY <1>0, <2>4, <2>5, <2>7
  <1>6. ASSUME NEW r \in Requests, Reload(r) PROVE Goal
    <2>1. job[r].issue \in Issues /\ job[r] \in Job /\ pc[r] = "reload"
      BY <1>0, <1>6, JobTypes DEF Reload
    <2>2. issues[job[r].issue] \in Issue
      BY <1>0, <2>1 DEF ServerTypes
    <2>3. RequestTypes'
      BY <1>0, <1>6, <2>1, <2>2 DEF Reload, RequestTypes, Working, Goto
    <2>4. SpoiltType'
      BY <1>0, <1>6, SpoilType DEF Reload, SpoiltType, Causes
    <2>5. QED  BY <1>0, <1>6, <2>3, <2>4 DEF Reload
  <1>7. ASSUME NEW r \in Requests, Publish(r) PROVE Goal
    <2>1. job[r].issue \in Issues /\ copy[r].ver \in Nat /\ job[r] \in Job /\ copy[r] \in Issue
      BY <1>0, <1>7, JobTypes DEF Publish
    <2> DEFINE event == [issue |-> job[r].issue, row |-> copy[r]]
    <2>2. event \in Event
      BY <2>1 DEF Event
    <2>3. PICK gets \in SUBSET Boards :
             queue' = [b \in Boards |-> IF b \in gets THEN Append(queue[b], event) ELSE queue[b]]
      <3>1. \A p : Audience(p) \subseteq Boards
        BY DEF Audience
      <3>2. QED  BY <1>7, <3>1 DEF Publish
    <2> HIDE DEF event
    <2>4. SocketTypes'
      <3>1. \A b \in Boards : queue[b] \in Seq(Event) /\ Append(queue[b], event) \in Seq(Event)
        BY <1>0, <2>2 DEF SocketTypes
      <3>2. queue' \in [Boards -> Seq(Event)]
        BY <2>3, <3>1
      <3>3. QED  BY <1>0, <1>7, <3>2 DEF SocketTypes, Publish
    <2>5. ServerTypes'
      BY <1>0, <1>7, <2>1 DEF Publish, ServerTypes
    <2>6. SpoiltType'
      <3>1. PICK more \in [Boards -> SUBSET Causes] :
               spoilt' = [b \in Boards |-> spoilt[b] \cup more[b]]
        <4>1. PICK p \in Pods, full \in SUBSET Boards :
                 spoilt' = [b \in Boards |-> spoilt[b]
                    \cup (IF b \in {c \in Boards \ (Audience(p) \ full) :
                                       fetch[c] # "none" \/ queue[c] # << >>}
                          THEN {"missed"} ELSE {})
                    \cup (IF b \in Audience(p) \ full /\ copy[r].ver < published[job[r].issue]
                          THEN {"overtaken"} ELSE {})]
          BY <1>7 DEF Publish, Audience
        <4> DEFINE more == [b \in Boards |->
                    (IF b \in {c \in Boards \ (Audience(p) \ full) :
                                  fetch[c] # "none" \/ queue[c] # << >>}
                     THEN {"missed"} ELSE {})
                    \cup (IF b \in Audience(p) \ full /\ copy[r].ver < published[job[r].issue]
                          THEN {"overtaken"} ELSE {})]
        <4>2. more \in [Boards -> SUBSET Causes]
          BY DEF Causes
        <4>3. QED  BY <4>1, <4>2
      <3>2. QED  BY <1>0, <3>1 DEF SpoiltType
    <2>7. RequestTypes'
      BY <1>0, <1>7, <2>1 DEF Publish, RequestTypes, Working, Goto
    <2>8. QED  BY <1>0, <1>7, <2>4, <2>5, <2>6, <2>7 DEF Publish
  <1>8. ASSUME NEW r \in Requests, Fail(r) PROVE Goal
    <2>1. job[r] \in Job
      BY <1>0, <1>8, JobTypes DEF Fail
    <2>2. RequestTypes'
      BY <1>0, <1>8, <2>1 DEF Fail, RequestTypes, Working, Goto
    <2>3. SpoiltType'
      BY <1>0, <1>8, SpoilType DEF Fail, SpoiltType, Causes
    <2>4. QED  BY <1>0, <1>8, <2>2, <2>3 DEF Fail
  <1>9. ASSUME NEW r \in Requests, Answer(r) PROVE Goal
    <2>1. /\ job[r].issue \in Issues /\ job[r].by \in Boards \cup {Elsewhere}
          /\ copy[r].status \in STATUSES \cup {Absent} /\ copy[r].ver \in Nat
      BY <1>0, <1>9, JobTypes DEF Answer
    <2>2. PageTypes'
      <3>1. UNCHANGED pageVars => PageTypes'
        BY <1>0
      <3>2. ASSUME job[r].by \in Boards, Show(job[r].by, job[r].issue, copy[r]) PROVE PageTypes'
        BY <1>0, <2>1, <3>2, AppliedColumns DEF Show, PageTypes
      <3>3. ASSUME job[r].by \in Boards, UNCHANGED <<boardRef, seen>>,
                   columns' = [columns EXCEPT ![job[r].by] = removeIssue(@, job[r].issue)]
            PROVE  PageTypes'
        BY <1>0, <2>1, <3>3, RemoveColumns DEF PageTypes
      <3>4. QED  BY <1>9, <2>1, <3>1, <3>2, <3>3 DEF Answer
    <2>3. SpoiltType'
      BY <1>0, <1>9, SpoilType DEF Answer, SpoiltType, Causes
    <2>4. RequestTypes'
      BY <1>0, <1>9, NoIssueIsIssue DEF Answer, RequestTypes, Working, Goto
    <2>5. QED  BY <1>0, <1>9, <2>2, <2>3, <2>4 DEF Answer
  <1>10. ASSUME NEW b \in Boards, Fetch(b) PROVE Goal
    <2>1. FetchTypes'
      BY <1>0, <1>10, NoIssueIsIssue DEF Fetch, FetchTypes, ServerTypes
    <2>2. SpoiltType'
      BY <1>0, <1>10, SpoilType DEF Fetch, SpoiltType, Causes
    <2>3. QED  BY <1>0, <1>10, <2>1, <2>2 DEF Fetch
  <1>11. ASSUME NEW b \in Boards, ShowFetch(b) PROVE Goal
    <2>1. snap[b] \in [Issues -> Issue]
      BY <1>0 DEF FetchTypes
    <2>2. columns' \in [Boards -> Columns]
      BY <1>0, <1>11, <2>1, FetchedColumns DEF ShowFetch, PageTypes
    <2>3. [i \in Issues |-> snap[b][i].ver] \in [Issues -> Nat]
      BY <2>1 DEF Issue
    <2>4. PageTypes'
      BY <1>0, <1>11, <2>2, <2>3 DEF ShowFetch, PageTypes
    <2>5. FetchTypes'
      BY <1>0, <1>11, NoIssueIsIssue DEF ShowFetch, FetchTypes
    <2>6. SpoiltType'
      BY <1>0, <1>11, SpoilType DEF ShowFetch, SpoiltType, Causes
    <2>7. QED  BY <1>0, <1>11, <2>4, <2>5, <2>6 DEF ShowFetch
  <1>12. ASSUME NEW b \in Boards, FetchFails(b) PROVE Goal
    <2>1. FetchTypes'
      BY <1>0, <1>12, NoIssueIsIssue DEF FetchFails, FetchTypes
    <2>2. SpoiltType'
      BY <1>0, <1>12, SpoilType DEF FetchFails, SpoiltType, Causes
    <2>3. QED  BY <1>0, <1>12, <2>1, <2>2 DEF FetchFails
  <1>13. ASSUME NEW b \in Boards, NEW p \in Pods, Connect(b, p) PROVE Goal
    <2>1. SocketTypes'
      BY <1>0, <1>13 DEF Connect, SocketTypes
    <2>2. QED  BY <1>0, <1>13, <2>1 DEF Connect
  <1>14. ASSUME NEW b \in Boards, Disconnect(b) PROVE Goal
    <2>1. SocketTypes'
      BY <1>0, <1>14 DEF Disconnect, SocketTypes
    <2>2. SpoiltType'
      BY <1>0, <1>14, SpoilType DEF Disconnect, SpoiltType, Causes
    <2>3. QED  BY <1>0, <1>14, <2>1, <2>2 DEF Disconnect
  <1>15. ASSUME NEW b \in Boards, Receive(b) PROVE Goal
    <2>1. queue[b] \in Seq(Event) /\ queue[b] # << >>
      BY <1>0, <1>15 DEF Receive, SocketTypes
    <2>2. Head(queue[b]) \in Event /\ Tail(queue[b]) \in Seq(Event)
      BY <2>1
    <2>3. Head(queue[b]).issue \in Issues /\ Head(queue[b]).row.ver \in Nat
          /\ Head(queue[b]).row.status \in STATUSES \cup {Absent}
      BY <2>2 DEF Event, Issue
    <2>4. PageTypes'
      BY <1>0, <1>15, <2>3, AppliedColumns DEF Receive, Show, PageTypes
    <2>5. SocketTypes'
      BY <1>0, <1>15, <2>2 DEF Receive, SocketTypes
    <2>6. QED  BY <1>0, <1>15, <2>4, <2>5 DEF Receive
  <1>16. ASSUME NEW b \in Boards, Render(b) PROVE Goal
    <2>1. PageTypes'
      BY <1>0, <1>16 DEF Render, PageTypes
    <2>2. QED  BY <1>0, <1>16, <2>1 DEF Render
  <1>17. ASSUME NEW b \in Boards, NEW r \in Requests, NEW i \in Issues, NEW from \in STATUSES,
                NEW to \in STATUSES, Drop(b, r, i, from, to)
         PROVE Goal
    <2>1. PageTypes'
      BY <1>0, <1>17, MovedColumns DEF Drop, PageTypes
    <2>2. [kind |-> "drop", issue |-> i, status |-> to, by |-> b] \in Job
      BY DEF Job
    <2>3. RequestTypes'
      BY <1>0, <1>17, <2>2 DEF Drop, RequestTypes, Working, Goto
    <2>4. SpoiltType'
      BY <1>0, <1>17, SpoilType DEF Drop, SpoiltType, Causes
    <2>5. QED  BY <1>0, <1>17, <2>1, <2>3, <2>4 DEF Drop
  <1>18. CASE UNCHANGED vars
    BY <1>0, <1>18 DEF vars
  <1>19. QED
    BY <1>1, <1>2, <1>3, <1>4, <1>5, <1>6, <1>7, <1>8, <1>9, <1>10, <1>11, <1>12, <1>13,
       <1>14, <1>15, <1>16, <1>17, <1>18
    DEF Next, RequestStep, FetchStep, PageStep

\* Whatever statuses requests name and in whatever order answers, events and
\* failures come, the variables of the server and of the pages keep their types.
THEOREM TypeCorrect == Spec => []TypeOK
  <1>1. TypeInv => TypeOK
    BY DEF TypeInv
  <1>2. QED  BY <1>1, TypeInit, TypeStep, PTL DEF Spec

-------------------------------------------------------------------------------
(***************************************************************************)
(* One column                                                              *)
(***************************************************************************)

LEMMA OneColumnStep == TypeInv /\ OneColumn /\ [Next]_vars => OneColumn'
  <1> SUFFICES ASSUME TypeInv, OneColumn, [Next]_vars PROVE OneColumn'
    OBVIOUS
  <1>1. \A c \in Boards : Disjoint(columns[c]) /\ Disjoint(boardRef[c])
    BY OneColumnIsDisjoint
  <1>2. /\ columns \in [Boards -> Columns] /\ boardRef \in [Boards -> Columns]
        /\ \A c \in Boards : columns[c] \in Columns /\ boardRef[c] \in Columns
    BY DEF TypeInv, TypeOK
  <1>3. SUFFICES \A c \in Boards : Disjoint(columns'[c]) /\ Disjoint(boardRef'[c])
    BY DEF OneColumn, Disjoint
  <1>4. CASE UNCHANGED <<columns, boardRef>>
    BY <1>1, <1>4
  <1>5. ASSUME NEW r \in Requests, Answer(r)
        PROVE  \A c \in Boards : Disjoint(columns'[c]) /\ Disjoint(boardRef'[c])
    <2>1. job[r] \in Job /\ job[r].issue \in Issues /\ copy[r].status \in STATUSES \cup {Absent}
      BY <1>5 DEF Answer, TypeInv, TypeOK, Working, Job, Issue
    <2>2. boardRef' = boardRef
      BY <1>5, <2>1 DEF Answer, Show, pageVars, Job
    <2>3. \/ columns' = columns
          \/ columns' = [columns EXCEPT ![job[r].by] =
                            Applied(@, job[r].issue, copy[r].status)]
          \/ columns' = [columns EXCEPT ![job[r].by] = removeIssue(@, job[r].issue)]
      BY <1>5, <2>1 DEF Answer, Show, pageVars, Job
    <2>4. QED  BY <1>1, <1>2, <2>1, <2>2, <2>3, AppliedColumns, RemoveColumns
  <1>6. ASSUME NEW b \in Boards, ShowFetch(b)
        PROVE  \A c \in Boards : Disjoint(columns'[c]) /\ Disjoint(boardRef'[c])
    <2>1. snap[b] \in [Issues -> Issue]
      BY DEF TypeInv, TypeOK
    <2>2. QED  BY <1>1, <1>2, <1>6, <2>1, FetchedColumns DEF ShowFetch
  <1>7. ASSUME NEW b \in Boards, Receive(b)
        PROVE  \A c \in Boards : Disjoint(columns'[c]) /\ Disjoint(boardRef'[c])
    <2>0. queue[b] \in Seq(Event) /\ queue[b] # << >>
      BY <1>7 DEF Receive, TypeInv, TypeOK
    <2>1. Head(queue[b]) \in Event
      BY <2>0
    <2>2. Head(queue[b]).issue \in Issues /\ Head(queue[b]).row.status \in STATUSES \cup {Absent}
      BY <2>1 DEF Event, Issue
    <2>3. QED  BY <1>1, <1>2, <1>7, <2>2, AppliedColumns DEF Receive, Show
  <1>8. ASSUME NEW b \in Boards, Render(b)
        PROVE  \A c \in Boards : Disjoint(columns'[c]) /\ Disjoint(boardRef'[c])
    BY <1>1, <1>2, <1>8 DEF Render
  <1>9. ASSUME NEW b \in Boards, NEW r \in Requests, NEW i \in Issues, NEW from \in STATUSES,
               NEW to \in STATUSES, Drop(b, r, i, from, to)
        PROVE  \A c \in Boards : Disjoint(columns'[c]) /\ Disjoint(boardRef'[c])
    BY <1>1, <1>2, <1>9, MovedColumns DEF Drop
  <1>10. QED
    BY <1>4, <1>5, <1>6, <1>7, <1>8, <1>9
    DEF Next, RequestStep, FetchStep, PageStep, vars, pageVars, Ask, Load, CommitCreate,
        CommitUpdate, CommitDelete, Reload, Publish, Fail, Fetch, FetchFails, Connect, Disconnect

\* A page never shows a card twice: events and answers take the card out of every
\* column first, a fetch replaces them all, and a move starts from a rendering in
\* which the card was in one column.
THEOREM NoCardTwice == Spec => []OneColumn
  <1>1. Init => OneColumn
    BY DEF Init, OneColumn, emptyColumns
  <1>2. QED  BY <1>1, TypeInit, TypeStep, OneColumnStep, PTL DEF Spec

-------------------------------------------------------------------------------
(***************************************************************************)
(* Agreement: the requests and the table                                   *)
(***************************************************************************)

\* A row of the issue no newer than the table's, and the table's if as new.
NoNewer(row, i) ==
    /\ row.ver <= issues[i].ver
    /\ row.ver = issues[i].ver => row.status = issues[i].status

\* Only an issue that never was in the table has no version.
RowsInv == \A i \in Issues : issues[i].ver = 0 => issues[i].status = Absent

\* One request creates an issue, and until its commit there is none.
CreateInv ==
    /\ \A q, r \in Requests :
          /\ job[q] # None /\ job[r] # None /\ job[q].kind = "create" /\ job[r].kind = "create"
          /\ job[q].issue = job[r].issue
          => q = r
    /\ \A r \in Requests :
          /\ pc[r] = "commit" /\ job[r].kind = "create" => issues[job[r].issue] = NoIssue
          /\ pc[r] = "load" => job[r].kind # "create"

\* The handler has made its event, or has succeeded.
Sent(r) == pc[r] = "publish" \/ (pc[r] = "answer" /\ r \notin failed)

\* The handler's copy of the row of i is no newer than the table; once it has
\* committed and not yet reloaded it is older, and what a DELETE removed is gone.
CopyOK(r, i) ==
    /\ pc[r] = "commit" /\ job[r].kind # "create" =>
          NoNewer(copy[r], i) /\ copy[r].status # Absent /\ issues[i].ver # 0
    /\ pc[r] = "reload" => job[r].kind \in {"update", "drop"} /\ copy[r].ver < issues[i].ver
    /\ Sent(r) => NoNewer(copy[r], i)
    /\ Sent(r) /\ job[r].kind = "delete" => issues[i].status = Absent /\ issues[i].ver # 0

CopyInv == \A r \in Requests : CopyOK(r, job[r].issue)

TableInv == RowsInv /\ CreateInv /\ CopyInv

LEMMA TableTypes ==
    ASSUME TypeInv
    PROVE  /\ issues \in [Issues -> Issue] /\ published \in [Issues -> Nat]
           /\ \A i \in Issues : /\ issues[i] \in Issue /\ issues[i].ver \in Nat
                                /\ issues[i].status \in STATUSES \cup {Absent}
                                /\ published[i] \in Nat
           /\ \A row \in Issue : row.ver \in Nat /\ row.status \in STATUSES \cup {Absent}
  BY DEF TypeInv, TypeOK, Issue

\* What a request under way holds.
LEMMA UnderWay ==
    ASSUME TypeInv, NEW r \in Requests, pc[r] \notin {"idle", "done"}
    PROVE  /\ job[r] \in Job /\ job[r] # None /\ job[r].issue \in Issues
           /\ job[r].kind \in {"create", "update", "drop", "delete"}
           /\ job[r].status \in STATUSES \cup {Keep}
           /\ job[r].by \in Boards \cup {Elsewhere}
           /\ copy[r] \in Issue /\ copy[r].ver \in Nat
  BY TypeGroups, JobTypes, NoneAssumption

LEMMA DeadRow ==
    ASSUME NEW row \in Issue
    PROVE  /\ row.status = Absent => row = [status |-> Absent, ver |-> row.ver]
           /\ row.status = Absent /\ row.ver = 0 => row = NoIssue
  BY DEF Issue, NoIssue

\* A commit makes a new version of an issue that is in the table or is created;
\* nothing else touches the table.
LEMMA TableMoves ==
    ASSUME TypeInv, CreateInv, [Next]_vars
    PROVE  /\ \A i \in Issues :
                 \/ issues'[i] = issues[i]
                 \/ /\ issues'[i].ver \in Nat /\ issues'[i].ver > issues[i].ver
                    /\ \/ InTable(i)
                       \/ issues[i] = NoIssue
                          /\ \E q \in Requests : CommitCreate(q) /\ job[q].issue = i
           /\ \/ issues' = issues
              \/ \E q \in Requests : CommitCreate(q) \/ CommitUpdate(q) \/ CommitDelete(q)
  <1> DEFINE Moves(i) ==
                 \/ issues'[i] = issues[i]
                 \/ /\ issues'[i].ver \in Nat /\ issues'[i].ver > issues[i].ver
                    /\ \/ InTable(i)
                       \/ issues[i] = NoIssue
                          /\ \E q \in Requests : CommitCreate(q) /\ job[q].issue = i
  <1>1. CASE issues' = issues
    BY <1>1
  <1>2. ASSUME NEW q \in Requests, CommitCreate(q) PROVE \A i \in Issues : Moves(i)
    <2>1. pc[q] = "commit" /\ job[q].kind = "create"
      BY <1>2 DEF CommitCreate
    <2>2. job[q].issue \in Issues /\ issues[job[q].issue] = NoIssue
      BY <2>1, UnderWay DEF CreateInv
    <2>3. \A i \in Issues : issues'[i] =
             IF i = job[q].issue THEN [status |-> "todo", ver |-> 1] ELSE issues[i]
      BY <1>2, <2>2, TableTypes DEF CommitCreate
    <2>4. NoIssue.ver = 0
      BY DEF NoIssue
    <2>5. QED  BY <1>2, <2>2, <2>3, <2>4
  <1>3. ASSUME NEW q \in Requests, CommitUpdate(q) PROVE \A i \in Issues : Moves(i)
    <2>1. job[q].issue \in Issues
      BY <1>3, UnderWay DEF CommitUpdate
    <2>2. PICK n : n = job[q].issue
      OBVIOUS
    <2>3. CASE InTable(n)
      <3>1. PICK row : row = Patched([issues[n] EXCEPT !.ver = @ + 1], job[q].status)
        OBVIOUS
      <3>2. row.ver = issues[n].ver + 1
        BY <2>1, <2>2, <3>1, TableTypes DEF Patched, Issue
      <3>3. issues' = [issues EXCEPT ![n] = row]
        BY <1>3, <2>2, <2>3, <3>1 DEF CommitUpdate
      <3>4. \A i \in Issues : issues'[i] = IF i = n THEN row ELSE issues[i]
        BY <2>1, <2>2, <3>3, TableTypes
      <3>5. QED  BY <2>1, <2>2, <2>3, <3>2, <3>4, TableTypes
    <2>4. CASE ~InTable(n)
      BY <1>3, <2>2, <2>4 DEF CommitUpdate
    <2>5. QED  BY <2>3, <2>4
  <1>4. ASSUME NEW q \in Requests, CommitDelete(q) PROVE \A i \in Issues : Moves(i)
    <2>1. job[q].issue \in Issues
      BY <1>4, UnderWay DEF CommitDelete
    <2>2. PICK n : n = job[q].issue
      OBVIOUS
    <2>3. PICK row : row = [status |-> Absent, ver |-> issues[n].ver + IF InTable(n) THEN 1 ELSE 0]
      OBVIOUS
    <2>4. issues' = [issues EXCEPT ![n] = row]
      BY <1>4, <2>2, <2>3 DEF CommitDelete
    <2>5. \A i \in Issues : issues'[i] = IF i = n THEN row ELSE issues[i]
      BY <2>1, <2>2, <2>4, TableTypes
    <2>6. CASE InTable(n)
      <3>1. row.ver = issues[n].ver + 1
        BY <2>3, <2>6
      <3>2. QED  BY <2>1, <2>2, <2>5, <2>6, <3>1, TableTypes
    <2>7. CASE ~InTable(n)
      <3>1. issues[n] \in Issue /\ issues[n].status = Absent
        BY <2>1, <2>2, <2>7, TableTypes DEF InTable
      <3>2. issues[n].ver \in Nat
        BY <2>1, <2>2, TableTypes
      <3>3. row = [status |-> Absent, ver |-> issues[n].ver]
        BY <2>3, <2>7, <3>2
      <3>4. row = issues[n]
        BY <3>1, <3>3, DeadRow
      <3>5. QED  BY <2>5, <3>4
    <2>8. QED  BY <2>6, <2>7
  <1>5. \/ issues' = issues
        \/ \E q \in Requests : CommitCreate(q) \/ CommitUpdate(q) \/ CommitDelete(q)
    BY DEF Next, RequestStep, PageStep, FetchStep, vars, serverVars, Ask, Load, Reload, Publish,
           Fail, Answer, Fetch, ShowFetch, FetchFails, Connect, Disconnect, Receive, Render, Drop
  <1>6. QED  BY <1>1, <1>2, <1>3, <1>4, <1>5

\* A request moves by its own steps only.
LEMMA RequestMoves ==
    ASSUME TypeInv, [Next]_vars, NEW r \in Requests
    PROVE  \/ /\ pc'[r] = pc[r] /\ job'[r] = job[r] /\ copy'[r] = copy[r]
              /\ r \in failed' <=> r \in failed
           \/ \E j \in Job : Ask(r, j)
           \/ RequestStep(r)
           \/ Fail(r)
           \/ \E b \in Boards, i \in Issues, from \in STATUSES, to \in STATUSES :
                 Drop(b, r, i, from, to)
  <1> USE DEF TypeInv, TypeOK, Goto
  <1> DEFINE Rests == /\ pc'[r] = pc[r] /\ job'[r] = job[r] /\ copy'[r] = copy[r]
                      /\ r \in failed' <=> r \in failed
  <1>1. ASSUME NEW q \in Requests, NEW j \in Job, Ask(q, j), q # r PROVE Rests
    BY <1>1 DEF Ask
  <1>2. ASSUME NEW q \in Requests, RequestStep(q), q # r PROVE Rests
    BY <1>2 DEF RequestStep, Load, CommitCreate, CommitUpdate, CommitDelete, Reload, Publish, Answer
  <1>3. ASSUME NEW q \in Requests, Fail(q), q # r PROVE Rests
    BY <1>3 DEF Fail
  <1>4. ASSUME NEW b \in Boards, PageStep(b) PROVE
           Rests \/ \E i \in Issues, from \in STATUSES, to \in STATUSES : Drop(b, r, i, from, to)
    <2>1. CASE UNCHANGED requestVars
      BY <2>1 DEF requestVars
    <2>2. ASSUME NEW q \in Requests, NEW i \in Issues, NEW from \in STATUSES, NEW to \in STATUSES,
                 Drop(b, q, i, from, to), q # r
          PROVE  Rests
      BY <2>2 DEF Drop
    <2>3. CASE FetchStep(b) \/ Receive(b) \/ Render(b) \/ Disconnect(b)
               \/ \E p \in Pods : Connect(b, p)
      <3>1. UNCHANGED requestVars
        BY <2>3 DEF FetchStep, Fetch, ShowFetch, FetchFails, Connect, Disconnect, Receive, Render
      <3>2. QED  BY <2>1, <3>1
    <2>4. CASE \E q \in Requests, i \in Issues, from \in STATUSES, to \in STATUSES :
                  Drop(b, q, i, from, to)
      <3>1. PICK q \in Requests, i \in Issues, from \in STATUSES, to \in STATUSES :
                    Drop(b, q, i, from, to)
        BY <2>4
      <3>2. QED  BY <2>2, <3>1
    <2>5. QED  BY <1>4, <2>3, <2>4 DEF PageStep
  <1>5. CASE UNCHANGED vars
    BY <1>5 DEF vars, requestVars
  <1>6. QED  BY <1>1, <1>2, <1>3, <1>4, <1>5 DEF Next

\* Commits make no row newer than the table.
LEMMA NoNewerStays ==
    ASSUME TypeInv, CreateInv, [Next]_vars, NEW i \in Issues, NEW row \in Issue, NoNewer(row, i)
    PROVE  NoNewer(row, i)'
  <1>1. row.ver \in Nat /\ issues[i].ver \in Nat
    BY TableTypes
  <1>2. issues'[i] = issues[i] \/ (issues'[i].ver \in Nat /\ issues'[i].ver > issues[i].ver)
    BY TableMoves
  <1>3. QED  BY <1>1, <1>2 DEF NoNewer

LEMMA RowsStep == TypeInv /\ RowsInv /\ CreateInv /\ [Next]_vars => RowsInv'
  <1> SUFFICES ASSUME TypeInv, RowsInv, CreateInv, [Next]_vars, NEW i \in Issues, issues'[i].ver = 0
               PROVE  issues'[i].status = Absent
    BY DEF RowsInv
  <1>1. issues[i].ver \in Nat
    BY TableTypes
  <1>2. issues'[i] = issues[i]
    BY <1>1, TableMoves
  <1>3. QED  BY <1>2 DEF RowsInv

\* What was deleted is not created again, and what is created was not there.
LEMMA CreateStep == TypeInv /\ RowsInv /\ CreateInv /\ [Next]_vars => CreateInv'
  <1> SUFFICES ASSUME TypeInv, RowsInv, CreateInv, [Next]_vars PROVE CreateInv'
    OBVIOUS
  <1> DEFINE Creates(q) == job[q] # None /\ job[q].kind = "create"
             Asks(q) == \E j \in Job : Ask(q, j) /\ job'[q] = j /\ j.kind = "create"
  <1>0. job \in [Requests -> Job \cup {None}] /\ pc \in [Requests -> {"idle", "load", "commit", "reload", "publish", "answer", "done"}]
    BY DEF TypeInv, TypeOK
  <1>1. \A q \in Requests : job'[q] # None /\ job'[q].kind = "create" =>
            (Creates(q) /\ job'[q] = job[q]) \/ Asks(q)
    <2> SUFFICES ASSUME NEW q \in Requests, job'[q] # None, job'[q].kind = "create"
                 PROVE  (Creates(q) /\ job'[q] = job[q]) \/ Asks(q)
      OBVIOUS
    <2>1. ASSUME NEW j \in Job, Ask(q, j) PROVE Asks(q)
      <3>1. job'[q] = j
        BY <1>0, <2>1 DEF Ask
      <3>2. QED  BY <2>1, <3>1
    <2>2. CASE RequestStep(q) \/ Fail(q)
      <3>1. job'[q] = job[q] \/ job'[q] = None
        BY <1>0, <2>2 DEF RequestStep, Load, CommitCreate, CommitUpdate, CommitDelete, Reload,
                          Publish, Answer, Fail
      <3>2. QED  BY <3>1
    <2>3. ASSUME NEW b \in Boards, NEW i \in Issues, NEW from \in STATUSES, NEW to \in STATUSES,
                 Drop(b, q, i, from, to)
          PROVE  FALSE
      BY <1>0, <2>3 DEF Drop
    <2>4. QED  BY <2>1, <2>2, <2>3, RequestMoves
  <1>2. ASSUME NEW q \in Requests, NEW r \in Requests, q # r, Asks(q)
        PROVE  job'[r] = job[r] /\ (job[r] # None => job[r].issue # job'[q].issue)
    BY <1>0, <1>2 DEF Ask
  <1>3. \A q, r \in Requests :
           /\ job'[q] # None /\ job'[r] # None /\ job'[q].kind = "create" /\ job'[r].kind = "create"
           /\ job'[q].issue = job'[r].issue
           => q = r
    <2> SUFFICES ASSUME NEW q \in Requests, NEW r \in Requests, q # r,
                        job'[q] # None, job'[r] # None,
                        job'[q].kind = "create", job'[r].kind = "create",
                        job'[q].issue = job'[r].issue
                 PROVE  FALSE
      OBVIOUS
    <2>1. CASE Asks(q)
      BY <1>2, <2>1
    <2>2. CASE Asks(r)
      BY <1>2, <2>2
    <2>3. CASE Creates(q) /\ job'[q] = job[q] /\ Creates(r) /\ job'[r] = job[r]
      BY <2>3 DEF CreateInv
    <2>4. QED  BY <1>1, <2>1, <2>2, <2>3
  <1>4. ASSUME NEW r \in Requests
        PROVE  /\ pc'[r] = "commit" /\ job'[r].kind = "create" => issues'[job'[r].issue] = NoIssue
               /\ pc'[r] = "load" => job'[r].kind # "create"
    <2>1. CASE pc'[r] = pc[r] /\ job'[r] = job[r]
      <3>1. pc'[r] = "load" => job'[r].kind # "create"
        BY <2>1 DEF CreateInv
      <3>2. ASSUME pc[r] = "commit", job[r].kind = "create"
            PROVE  issues'[job[r].issue] = NoIssue
        <4>1. job[r].issue \in Issues /\ job[r] # None
          BY <3>2, UnderWay
        <4>2. issues[job[r].issue] = NoIssue /\ NoIssue.status = Absent
          BY <3>2 DEF CreateInv, NoIssue
        <4>3. ASSUME NEW q \in Requests, CommitCreate(q), job[q].issue = job[r].issue PROVE FALSE
          <5>1. pc[q] = "commit" /\ job[q].kind = "create" /\ job[q] # None /\ pc'[q] = "publish"
            BY <1>0, <4>3, UnderWay DEF CommitCreate, Goto
          <5>2. q = r
            BY <3>2, <4>1, <4>3, <5>1 DEF CreateInv
          <5>3. QED  BY <2>1, <3>2, <5>1, <5>2
        <4>4. issues'[job[r].issue] = issues[job[r].issue]
          BY <4>1, <4>2, <4>3, TableMoves DEF InTable
        <4>5. QED  BY <4>2, <4>4
      <3>3. QED  BY <2>1, <3>1, <3>2
    <2>2. ASSUME NEW j \in Job, Ask(r, j) PROVE
               /\ pc'[r] = "commit" /\ job'[r].kind = "create" => issues'[job'[r].issue] = NoIssue
               /\ pc'[r] = "load" => job'[r].kind # "create"
      <3>1. /\ job'[r] = j /\ j.issue \in Issues /\ issues' = issues
            /\ j.kind = "create" => issues[j.issue].ver = 0 /\ pc'[r] = "commit"
        BY <1>0, <2>2 DEF Ask, Goto, serverVars, Job
      <3>2. j.kind = "create" => issues[j.issue] = NoIssue
        BY <3>1, TableTypes, DeadRow DEF RowsInv
      <3>3. QED  BY <3>1, <3>2
    <2>3. CASE Load(r)
      <3>1. job'[r] = job[r] /\ pc[r] = "load" /\ pc'[r] # "load"
        BY <1>0, <2>3 DEF Load, Goto
      <3>2. QED  BY <3>1 DEF CreateInv
    <2>4. CASE CommitCreate(r) \/ CommitUpdate(r) \/ CommitDelete(r) \/ Reload(r) \/ Publish(r)
               \/ Answer(r) \/ Fail(r)
      <3>1. pc'[r] \notin {"load", "commit"}
        BY <1>0, <2>4 DEF CommitCreate, CommitUpdate, CommitDelete, Reload, Publish, Answer, Fail, Goto
      <3>2. QED  BY <3>1
    <2>5. ASSUME NEW b \in Boards, NEW i \in Issues, NEW from \in STATUSES, NEW to \in STATUSES,
                 Drop(b, r, i, from, to)
          PROVE  pc'[r] = "load" /\ job'[r].kind = "drop"
      BY <1>0, <2>5 DEF Drop, Goto
    <2>6. QED  BY <2>1, <2>2, <2>3, <2>4, <2>5, RequestMoves DEF RequestStep
  <1>5. QED  BY <1>3, <1>4 DEF CreateInv

LEMMA CopyStep ==
    ASSUME TypeInv, TableInv, [Next]_vars, NEW r \in Requests
    PROVE  CopyOK(r, job[r].issue)'
  <1> USE DEF TableInv
  <1>0. /\ pc \in [Requests -> {"idle", "load", "commit", "reload", "publish", "answer", "done"}]
        /\ job \in [Requests -> Job \cup {None}] /\ copy \in [Requests -> Issue]
    BY DEF TypeInv, TypeOK
  <1>1. CASE pc'[r] = pc[r] /\ job'[r] = job[r] /\ copy'[r] = copy[r] /\ (r \in failed' <=> r \in failed)
    <2>1. CASE pc[r] \notin {"commit", "reload", "publish", "answer"}
      BY <1>1, <2>1 DEF CopyOK, Sent
    <2>2. CASE pc[r] \in {"commit", "reload", "publish", "answer"}
      <3>1. job[r].issue \in Issues /\ copy[r] \in Issue /\ copy[r].ver \in Nat
        BY <2>2, UnderWay
      <3>2. PICK i \in Issues, row \in Issue : i = job[r].issue /\ row = copy[r]
        BY <3>1
      <3>3. i \in Issues /\ row \in Issue /\ row.ver \in Nat /\ issues[i].ver \in Nat
        BY <3>1, <3>2, TableTypes
      <3>4. NoNewer(row, i) => NoNewer(row, i)'
        BY <3>3, NoNewerStays
      <3>5. CopyOK(r, i)
        BY <3>2 DEF CopyInv
      <3>6. /\ issues'[i] = issues[i] \/ (issues'[i].ver \in Nat /\ issues'[i].ver > issues[i].ver)
            /\ issues[i].status = Absent /\ issues[i].ver # 0 => issues'[i] = issues[i]
        <4>1. NoIssue.ver = 0
          BY DEF NoIssue
        <4>2. QED  BY <3>3, <4>1, TableMoves DEF InTable
      <3>7. copy'[r] = row /\ job'[r].issue = i
        BY <1>1, <3>2
      <3>8. pc[r] = "commit" /\ job[r].kind # "create" =>
               NoNewer(row, i) /\ row.status # Absent /\ issues[i].ver # 0
        BY <3>2, <3>5 DEF CopyOK
      <3>9. pc[r] = "reload" => job[r].kind \in {"update", "drop"} /\ row.ver < issues[i].ver
        BY <3>2, <3>5 DEF CopyOK
      <3>10. /\ Sent(r) => NoNewer(row, i)
             /\ Sent(r) /\ job[r].kind = "delete" => issues[i].status = Absent /\ issues[i].ver # 0
        BY <3>2, <3>5 DEF CopyOK
      <3>11. Sent(r)' <=> Sent(r)
        BY <1>1 DEF Sent
      <3>12. issues[i].ver # 0 => issues'[i].ver # 0
        BY <3>3, <3>6
      <3>13. row.ver < issues[i].ver => row.ver < issues'[i].ver
        BY <3>3, <3>6
      <3>14. pc'[r] = "commit" /\ job'[r].kind # "create" =>
                NoNewer(copy[r], job[r].issue)' /\ copy'[r].status # Absent
                /\ issues'[job'[r].issue].ver # 0
        BY <1>1, <3>4, <3>7, <3>8, <3>12 DEF NoNewer
      <3>15. pc'[r] = "reload" =>
                job'[r].kind \in {"update", "drop"} /\ copy'[r].ver < issues'[job'[r].issue].ver
        BY <1>1, <3>7, <3>9, <3>13
      <3>16. /\ Sent(r)' => NoNewer(copy[r], job[r].issue)'
             /\ Sent(r)' /\ job'[r].kind = "delete" =>
                   issues'[job'[r].issue].status = Absent /\ issues'[job'[r].issue].ver # 0
        BY <1>1, <3>4, <3>6, <3>7, <3>10, <3>11 DEF NoNewer
      <3>17. QED  BY <3>14, <3>15, <3>16 DEF CopyOK
    <2>3. QED  BY <2>1, <2>2
  <1>2. ASSUME NEW j \in Job, Ask(r, j) PROVE CopyOK(r, job[r].issue)'
    <2>1. pc'[r] = "load" \/ (pc'[r] = "commit" /\ job'[r].kind = "create")
      BY <1>0, <1>2 DEF Ask, Goto
    <2>2. QED  BY <2>1 DEF CopyOK, Sent
  <1>3. ASSUME NEW b \in Boards, NEW i \in Issues, NEW from \in STATUSES, NEW to \in STATUSES,
               Drop(b, r, i, from, to)
        PROVE  CopyOK(r, job[r].issue)'
    <2>1. pc'[r] = "load"
      BY <1>0, <1>3 DEF Drop, Goto
    <2>2. QED  BY <2>1 DEF CopyOK, Sent
  <1>4. CASE Load(r)
    <2>1. job[r].issue \in Issues /\ job' = job /\ issues' = issues
      BY <1>4, UnderWay DEF Load, serverVars
    <2>2. PICK i \in Issues : i = job[r].issue
      BY <2>1
    <2>3. CASE InTable(i)
      <3>1. pc'[r] = "commit" /\ copy'[r] = issues[i]
        BY <1>0, <1>4, <2>2, <2>3 DEF Load, Goto
      <3>2. issues[i].ver # 0 /\ issues[i].status # Absent /\ issues[i].ver \in Nat
        BY <2>2, <2>3, TableTypes DEF InTable, RowsInv
      <3>3. QED  BY <2>1, <2>2, <3>1, <3>2 DEF CopyOK, Sent, NoNewer
    <2>4. CASE ~InTable(i)
      <3>1. pc'[r] = "answer" /\ r \in failed'
        BY <1>0, <1>4, <2>2, <2>4 DEF Load, Goto
      <3>2. QED  BY <3>1 DEF CopyOK, Sent
    <2>5. QED  BY <2>3, <2>4
  <1>5. CASE CommitCreate(r)
    <2>1. /\ job[r].issue \in Issues /\ job' = job /\ pc'[r] = "publish" /\ job[r].kind = "create"
          /\ copy'[r] = [status |-> "todo", ver |-> 1]
          /\ issues'[job[r].issue] = [status |-> "todo", ver |-> 1]
      BY <1>0, <1>5, UnderWay, TableTypes DEF CommitCreate, Goto
    <2>2. QED  BY <2>1 DEF CopyOK, Sent, NoNewer
  <1>6. CASE CommitUpdate(r)
    <2>1. /\ job[r].issue \in Issues /\ job' = job /\ pc[r] = "commit" /\ pc'[r] = "reload"
          /\ job[r].kind \in {"update", "drop"}
          /\ copy'[r] = Patched(copy[r], job[r].status) /\ copy[r] \in Issue
      BY <1>0, <1>6, UnderWay DEF CommitUpdate, Goto
    <2>2. PICK i \in Issues : i = job[r].issue
      BY <2>1
    <2>3. copy'[r].ver = copy[r].ver /\ copy[r].ver \in Nat /\ issues[i].ver \in Nat
      BY <2>1, <2>2, TableTypes DEF Patched, Issue
    <2>4. NoNewer(copy[r], i) /\ copy[r].status # Absent
      BY <2>1, <2>2 DEF CopyInv, CopyOK
    <2>5. copy[r].ver < issues'[i].ver
      <3>1. CASE InTable(i)
        <4>1. issues'[i].ver = issues[i].ver + 1
          BY <1>6, <2>1, <2>2, <3>1, TableTypes DEF CommitUpdate, Patched, Issue
        <4>2. QED  BY <2>3, <2>4, <4>1 DEF NoNewer
      <3>2. CASE ~InTable(i)
        <4>1. issues' = issues
          BY <1>6, <2>2, <3>2 DEF CommitUpdate
        <4>2. copy[r].ver # issues[i].ver
          BY <2>4, <3>2 DEF NoNewer, InTable
        <4>3. QED  BY <2>3, <2>4, <4>1, <4>2 DEF NoNewer
      <3>3. QED  BY <3>1, <3>2
    <2>6. QED  BY <2>1, <2>2, <2>3, <2>5 DEF CopyOK, Sent
  <1>7. CASE CommitDelete(r)
    <2>1. /\ job[r].issue \in Issues /\ job' = job /\ pc[r] = "commit" /\ pc'[r] = "publish"
          /\ job[r].kind = "delete"
      BY <1>0, <1>7, UnderWay DEF CommitDelete, Goto
    <2>2. PICK i \in Issues : i = job[r].issue
      BY <2>1
    <2>3. PICK row : row = [status |-> Absent, ver |-> issues[i].ver + IF InTable(i) THEN 1 ELSE 0]
      OBVIOUS
    <2>4. copy'[r] = row /\ issues'[i] = row
      BY <1>0, <1>7, <2>2, <2>3, TableTypes DEF CommitDelete
    <2>5. issues[i].ver # 0 /\ issues[i].ver \in Nat
      BY <2>1, <2>2, TableTypes DEF CopyInv, CopyOK
    <2>6. row.status = Absent /\ row.ver # 0 /\ row.ver \in Nat
      BY <2>3, <2>5
    <2>7. QED  BY <2>1, <2>2, <2>4, <2>6 DEF CopyOK, Sent, NoNewer
  <1>8. CASE Reload(r)
    <2>1. /\ job[r].issue \in Issues /\ job' = job /\ issues' = issues
          /\ pc[r] = "reload" /\ pc'[r] = "publish"
          /\ copy[r] \in Issue /\ (copy'[r] = copy[r] \/ copy'[r] = issues[job[r].issue])
      BY <1>0, <1>8, UnderWay DEF Reload, Goto, serverVars
    <2>2. PICK i \in Issues : i = job[r].issue
      BY <2>1
    <2>3. job[r].kind \in {"update", "drop"} /\ copy[r].ver < issues[i].ver
      BY <2>1, <2>2 DEF CopyInv, CopyOK
    <2>4. copy[r].ver \in Nat /\ issues[i].ver \in Nat
      BY <2>1, <2>2, TableTypes
    <2>5. NoNewer(copy[r], i) /\ NoNewer(issues[i], i)
      BY <2>3, <2>4 DEF NoNewer
    <2>6. NoNewer(copy[r], job[r].issue)'
      BY <2>1, <2>2, <2>5 DEF NoNewer
    <2>7. QED  BY <2>1, <2>3, <2>6 DEF CopyOK, Sent
  <1>9. CASE Publish(r)
    <2>1. /\ job' = job /\ issues' = issues /\ copy' = copy /\ pc[r] = "publish" /\ pc'[r] = "answer"
      BY <1>0, <1>9 DEF Publish, Goto
    <2>2. Sent(r) /\ CopyOK(r, job[r].issue)
      BY <2>1 DEF CopyInv, Sent
    <2>3. QED  BY <2>1, <2>2 DEF CopyOK, Sent, NoNewer
  <1>10. CASE Answer(r)
    <2>1. pc'[r] = "done"
      BY <1>0, <1>10 DEF Answer, Goto
    <2>2. QED  BY <2>1 DEF CopyOK, Sent
  <1>11. CASE Fail(r)
    <2>1. pc'[r] = "answer" /\ r \in failed'
      BY <1>0, <1>11 DEF Fail, Goto
    <2>2. QED  BY <2>1 DEF CopyOK, Sent
  <1>12. QED
    BY <1>1, <1>2, <1>3, <1>4, <1>5, <1>6, <1>7, <1>8, <1>9, <1>10, <1>11, RequestMoves
       DEF RequestStep

LEMMA TableStep == TypeInv /\ TableInv /\ [Next]_vars => TableInv'
  <1> SUFFICES ASSUME TypeInv, TableInv, [Next]_vars PROVE TableInv'
    OBVIOUS
  <1>1. RowsInv' /\ CreateInv'
    BY RowsStep, CreateStep DEF TableInv
  <1>2. CopyInv'
    BY CopyStep DEF CopyInv
  <1>3. QED  BY <1>1, <1>2 DEF TableInv

LEMMA TableInit == Init => TableInv
  <1> SUFFICES ASSUME Init PROVE TableInv
    OBVIOUS
  <1>1. RowsInv
    BY StatusAssumption DEF Init, RowsInv, NoIssue
  <1>2. CreateInv /\ CopyInv
    BY DEF Init, CreateInv, CopyInv, CopyOK, Sent
  <1>3. QED  BY <1>1, <1>2 DEF TableInv

-------------------------------------------------------------------------------
(***************************************************************************)
(* Agreement: what is published                                            *)
(***************************************************************************)

\* A request is going to publish the current version of the issue.
Pending(i) ==
    \E r \in Requests :
        \/ pc[r] = "reload" /\ job[r].issue = i /\ InTable(i)
        \/ pc[r] = "publish" /\ job[r].issue = i /\ copy[r].ver = issues[i].ver

AllSpoilt == \A b \in Boards : spoilt[b] # {}

\* The current version was broadcast, or will be, or every page knows of a failure.
PublishedInv ==
    \A i \in Issues :
        /\ published[i] <= issues[i].ver
        /\ published[i] = issues[i].ver \/ Pending(i) \/ AllSpoilt

\* What a broadcast does to a page: it gets the event, or it was not there.
LEMMA PublishFacts ==
    ASSUME TypeInv, NEW r \in Requests, Publish(r), NEW i \in Issues, i = job[r].issue
    PROVE  /\ pc[r] = "publish" /\ copy[r].ver \in Nat
           /\ UNCHANGED <<issues, job, copy, failed, fetch, snap, socket, columns, boardRef, seen>>
           /\ Goto(r, "answer")
           /\ \A n \in Issues : published'[n] =
                 IF n = i /\ copy[r].ver > published[i] THEN copy[r].ver ELSE published[n]
           /\ \A b \in Boards :
                 /\ spoilt[b] \subseteq spoilt'[b]
                 /\ \/ /\ queue'[b] = Append(queue[b], [issue |-> i, row |-> copy[r]])
                       /\ spoilt'[b] = {} => copy[r].ver >= published[i]
                    \/ /\ queue'[b] = queue[b]
                       /\ spoilt'[b] = {} => fetch[b] = "none" /\ queue[b] = << >>
  <1>1. /\ pc[r] = "publish" /\ copy[r].ver \in Nat /\ Goto(r, "answer")
        /\ UNCHANGED <<issues, job, copy, failed, fetch, snap, socket, columns, boardRef, seen>>
    BY UnderWay DEF Publish, fetchVars, pageVars
  <1>2. \A n \in Issues : published'[n] =
           IF n = i /\ copy[r].ver > published[i] THEN copy[r].ver ELSE published[n]
    BY TableTypes DEF Publish
  <1>3. PICK p \in Pods, full \in SUBSET Boards :
           /\ queue' = [b \in Boards |-> IF b \in Audience(p) \ full
                           THEN Append(queue[b], [issue |-> job[r].issue, row |-> copy[r]])
                           ELSE queue[b]]
           /\ spoilt' = [b \in Boards |-> spoilt[b]
                  \cup (IF b \in {c \in Boards \ (Audience(p) \ full) :
                                     fetch[c] # "none" \/ queue[c] # << >>}
                        THEN {"missed"} ELSE {})
                  \cup (IF b \in Audience(p) \ full /\ copy[r].ver < published[job[r].issue]
                        THEN {"overtaken"} ELSE {})]
    BY DEF Publish, Audience
  <1>4. ASSUME NEW b \in Boards
        PROVE  /\ spoilt[b] \subseteq spoilt'[b]
               /\ \/ /\ queue'[b] = Append(queue[b], [issue |-> i, row |-> copy[r]])
                     /\ spoilt'[b] = {} => copy[r].ver >= published[i]
                  \/ /\ queue'[b] = queue[b]
                     /\ spoilt'[b] = {} => fetch[b] = "none" /\ queue[b] = << >>
    <2> DEFINE gets == Audience(p) \ full
               misses == {c \in Boards \ gets : fetch[c] # "none" \/ queue[c] # << >>}
    <2>1. spoilt'[b] = spoilt[b]
                            \cup (IF b \in misses THEN {"missed"} ELSE {})
                            \cup (IF b \in gets /\ copy[r].ver < published[i]
                                  THEN {"overtaken"} ELSE {})
      BY <1>3
    <2>2. queue'[b] = IF b \in gets
                      THEN Append(queue[b], [issue |-> i, row |-> copy[r]]) ELSE queue[b]
      BY <1>3
    <2>3. CASE b \in gets
      <3>1. queue'[b] = Append(queue[b], [issue |-> i, row |-> copy[r]])
        BY <2>2, <2>3
      <3>2. spoilt'[b] = {} => ~(copy[r].ver < published[i])
        BY <2>1, <2>3
      <3>3. published[i] \in Nat
        BY TableTypes
      <3>4. spoilt'[b] = {} => copy[r].ver >= published[i]
        BY <1>1, <3>2, <3>3
      <3>5. QED  BY <2>1, <3>1, <3>4
    <2>4. CASE b \notin gets
      <3>1. queue'[b] = queue[b]
        BY <2>2, <2>4
      <3>2. spoilt'[b] = {} => b \notin misses
        BY <2>1
      <3>3. QED  BY <2>1, <2>4, <3>1, <3>2
    <2>5. QED  BY <2>3, <2>4
  <1>5. QED  BY <1>1, <1>2, <1>4

LEMMA SpoiltGrows ==
    ASSUME TypeInv, [Next]_vars, NEW b \in Boards
    PROVE  spoilt[b] \subseteq spoilt'[b]
  <1>1. CASE spoilt' = spoilt
    BY <1>1
  <1>2. ASSUME NEW bs, NEW why, Spoil(bs, why) PROVE spoilt[b] \subseteq spoilt'[b]
    BY <1>2 DEF Spoil
  <1>3. ASSUME NEW r \in Requests, Publish(r) PROVE spoilt[b] \subseteq spoilt'[b]
    <2>1. job[r].issue \in Issues
      BY <1>3, UnderWay DEF Publish
    <2>2. QED  BY <1>3, <2>1, PublishFacts
  <1>4. ASSUME NEW r \in Requests, RequestStep(r) \/ Fail(r) \/ \E j \in Job : Ask(r, j)
        PROVE  spoilt[b] \subseteq spoilt'[b]
    BY <1>1, <1>2, <1>3, <1>4 DEF RequestStep, Ask, Load, CommitCreate, CommitUpdate, CommitDelete,
                                  Reload, Answer, Fail
  <1>5. ASSUME NEW c \in Boards, PageStep(c) PROVE spoilt[b] \subseteq spoilt'[b]
    BY <1>1, <1>2, <1>5 DEF PageStep, FetchStep, Fetch, ShowFetch, FetchFails, Connect,
                            Disconnect, Receive, Render, Drop
  <1>6. QED  BY <1>1, <1>4, <1>5 DEF Next, vars

\* Whoever commits is going to publish what it committed.
LEMMA NewPending ==
    ASSUME TypeInv, CreateInv, [Next]_vars, NEW i \in Issues, issues'[i] # issues[i]
    PROVE  Pending(i)'
  <1>0. /\ pc \in [Requests -> {"idle", "load", "commit", "reload", "publish", "answer", "done"}]
        /\ copy \in [Requests -> Issue]
    BY DEF TypeInv, TypeOK
  <1>1. PICK q \in Requests : CommitCreate(q) \/ CommitUpdate(q) \/ CommitDelete(q)
    BY TableMoves
  <1>2. job[q].issue \in Issues /\ job' = job /\ job[q].status \in STATUSES \cup {Keep}
    BY <1>1, UnderWay DEF CommitCreate, CommitUpdate, CommitDelete
  <1>3. job[q].issue = i
    BY <1>1, <1>2, TableTypes DEF CommitCreate, CommitUpdate, CommitDelete
  <1>4. CASE CommitCreate(q)
    <2>1. pc'[q] = "publish" /\ copy'[q].ver = issues'[i].ver
      BY <1>0, <1>2, <1>3, <1>4, TableTypes DEF CommitCreate, Goto
    <2>2. QED  BY <1>2, <1>3, <2>1 DEF Pending
  <1>5. CASE CommitUpdate(q)
    <2>1. InTable(i)
      BY <1>3, <1>5 DEF CommitUpdate
    <2>2. PICK row : row = Patched([issues[i] EXCEPT !.ver = @ + 1], job[q].status)
      OBVIOUS
    <2>3. row.status = IF job[q].status = Keep THEN issues[i].status ELSE job[q].status
      BY <2>2, TableTypes DEF Patched, Issue
    <2>4. row.status # Absent
      BY <1>2, <2>1, <2>3, StatusAssumption DEF InTable
    <2>5. issues' = [issues EXCEPT ![i] = row] /\ pc'[q] = "reload"
      BY <1>0, <1>3, <1>5, <2>1, <2>2 DEF CommitUpdate, Goto
    <2>6. issues'[i] = row
      BY <2>5, TableTypes
    <2>7. QED  BY <1>2, <1>3, <2>4, <2>5, <2>6 DEF Pending, InTable
  <1>6. CASE CommitDelete(q)
    <2>1. PICK row : row = [status |-> Absent, ver |-> issues[i].ver + IF InTable(i) THEN 1 ELSE 0]
      OBVIOUS
    <2>2. pc'[q] = "publish" /\ copy' = [copy EXCEPT ![q] = row] /\ issues' = [issues EXCEPT ![i] = row]
      BY <1>0, <1>3, <1>6, <2>1 DEF CommitDelete, Goto
    <2>3. copy'[q] = row /\ issues'[i] = row
      BY <1>0, <2>2, TableTypes
    <2>4. QED  BY <1>2, <1>3, <2>2, <2>3 DEF Pending
  <1>7. QED  BY <1>1, <1>4, <1>5, <1>6

\* It does so, unless a failure spoils every page.
LEMMA PendingMoves ==
    ASSUME TypeInv, [Next]_vars, NEW i \in Issues, Pending(i), issues'[i] = issues[i]
    PROVE  \/ Pending(i)'
           \/ AllSpoilt'
           \/ \E r \in Requests :
                 Publish(r) /\ job[r].issue = i /\ copy[r].ver = issues[i].ver
  <1>0. /\ pc \in [Requests -> {"idle", "load", "commit", "reload", "publish", "answer", "done"}]
        /\ copy \in [Requests -> Issue]
    BY DEF TypeInv, TypeOK
  <1>1. PICK q \in Requests :
           \/ pc[q] = "reload" /\ job[q].issue = i /\ InTable(i)
           \/ pc[q] = "publish" /\ job[q].issue = i /\ copy[q].ver = issues[i].ver
    BY DEF Pending
  <1>2. InTable(i)' <=> InTable(i)
    BY DEF InTable
  <1>3. CASE pc'[q] = pc[q] /\ job'[q] = job[q] /\ copy'[q] = copy[q]
    BY <1>1, <1>2, <1>3 DEF Pending
  <1>4. CASE Reload(q)
    <2>1. pc[q] = "reload" /\ pc'[q] = "publish" /\ job' = job /\ job[q].issue = i /\ InTable(i)
      BY <1>0, <1>1, <1>4 DEF Reload, Goto
    <2>2. copy'[q] = issues[i] \/ Spoil(Boards, "failed")
      BY <1>0, <1>4, <2>1 DEF Reload
    <2>3. Spoil(Boards, "failed") => AllSpoilt'
      BY DEF Spoil, AllSpoilt
    <2>4. QED  BY <2>1, <2>2, <2>3 DEF Pending
  <1>5. CASE Publish(q)
    <2>1. pc[q] = "publish"
      BY <1>5 DEF Publish
    <2>2. QED  BY <1>1, <1>5, <2>1
  <1>6. CASE Fail(q)
    <2>1. Spoil(Boards, "missed")
      BY <1>1, <1>6 DEF Fail
    <2>2. QED  BY <2>1 DEF Spoil, AllSpoilt
  <1>7. ~(\E j \in Job : Ask(q, j)) /\ ~Load(q) /\ ~CommitCreate(q) /\ ~CommitUpdate(q)
        /\ ~CommitDelete(q) /\ ~Answer(q)
        /\ ~\E b \in Boards, n \in Issues, from \in STATUSES, to \in STATUSES : Drop(b, q, n, from, to)
    BY <1>1 DEF Ask, Load, CommitCreate, CommitUpdate, CommitDelete, Answer, Drop
  <1>8. QED  BY <1>3, <1>4, <1>5, <1>6, <1>7, RequestMoves DEF RequestStep

LEMMA PublishedMoves ==
    ASSUME TypeInv, [Next]_vars
    PROVE  published' = published \/ \E r \in Requests : Publish(r)
  BY DEF Next, RequestStep, PageStep, FetchStep, vars, serverVars, Ask, Load, CommitCreate,
         CommitUpdate, CommitDelete, Reload, Fail, Answer, Fetch, ShowFetch, FetchFails, Connect,
         Disconnect, Receive, Render, Drop

LEMMA PublishedStep == TypeInv /\ TableInv /\ PublishedInv /\ [Next]_vars => PublishedInv'
  <1> SUFFICES ASSUME TypeInv, TableInv, PublishedInv, [Next]_vars, NEW i \in Issues
               PROVE  /\ published'[i] <= issues'[i].ver
                      /\ published'[i] = issues'[i].ver \/ Pending(i)' \/ AllSpoilt'
    BY DEF PublishedInv
  <1> USE DEF TableInv
  <1>1. published[i] \in Nat /\ issues[i].ver \in Nat /\ published[i] <= issues[i].ver
    BY TableTypes DEF PublishedInv
  <1>2. ASSUME NEW r \in Requests, Publish(r)
        PROVE  /\ issues' = issues /\ published'[i] <= issues[i].ver
               /\ published[i] = issues[i].ver => published'[i] = issues[i].ver
               /\ job[r].issue = i /\ copy[r].ver = issues[i].ver => published'[i] = issues[i].ver
    <2>1. job[r].issue \in Issues /\ pc[r] = "publish"
      BY <1>2, UnderWay DEF Publish
    <2>2. PICK n \in Issues : n = job[r].issue
      BY <2>1
    <2>3. NoNewer(copy[r], n)
      BY <2>1, <2>2 DEF CopyInv, CopyOK, Sent
    <2>4. /\ copy[r].ver \in Nat /\ issues' = issues
          /\ \A m \in Issues : published'[m] =
                IF m = n /\ copy[r].ver > published[n] THEN copy[r].ver ELSE published[m]
      BY <1>2, <2>2, PublishFacts
    <2>5. CASE i = n
      BY <1>1, <2>2, <2>3, <2>4, <2>5 DEF NoNewer
    <2>6. CASE i # n
      BY <1>1, <2>2, <2>4, <2>6
    <2>7. QED  BY <2>5, <2>6
  <1>3. published'[i] <= issues'[i].ver
    <2>1. issues'[i] = issues[i] \/ (issues'[i].ver \in Nat /\ issues'[i].ver > issues[i].ver)
      BY TableMoves
    <2>2. published'[i] = published[i] \/ (published'[i] <= issues[i].ver /\ issues' = issues)
      BY <1>2, PublishedMoves
    <2>3. QED  BY <1>1, <2>1, <2>2
  <1>4. CASE issues'[i] # issues[i]
    BY <1>3, <1>4, NewPending
  <1>5. CASE issues'[i] = issues[i]
    <2>1. CASE published[i] = issues[i].ver
      BY <1>2, <1>3, <1>5, <2>1, PublishedMoves
    <2>2. CASE Pending(i)
      <3>1. CASE \E r \in Requests : Publish(r) /\ job[r].issue = i /\ copy[r].ver = issues[i].ver
        BY <1>2, <1>3, <1>5, <3>1
      <3>2. QED  BY <1>3, <1>5, <2>2, <3>1, PendingMoves
    <2>3. CASE AllSpoilt
      BY <1>3, <2>3, SpoiltGrows DEF AllSpoilt
    <2>4. QED  BY <2>1, <2>2, <2>3 DEF PublishedInv
  <1>6. QED  BY <1>4, <1>5

-------------------------------------------------------------------------------
(***************************************************************************)
(* Agreement: what is on the way                                           *)
(***************************************************************************)

\* An event on the way is no newer than the table.
EventsInv ==
    \A b \in Boards : \A k \in DOMAIN queue[b] : NoNewer(queue[b][k].row, queue[b][k].issue)

\* No later event on the way to the page is about the same issue.
Latest(b, k) == \A m \in DOMAIN queue[b] : m > k => queue[b][m].issue # queue[b][k].issue

\* The last event on the way about an issue is the last one that was broadcast.
LatestInv ==
    \A b \in Boards : spoilt[b] = {} =>
        \A k \in DOMAIN queue[b] :
            Latest(b, k) => queue[b][k].row.ver = published[queue[b][k].issue]

\* Nor is what a fetch has read.
SnapInv == \A b \in Boards, i \in Issues : fetch[b] = "asked" => NoNewer(snap[b][i], i)

LEMMA EventTypes ==
    ASSUME NEW q \in Seq(Event)
    PROVE  /\ Len(q) \in Nat /\ DOMAIN q = 1 .. Len(q)
           /\ \A k \in DOMAIN q : /\ q[k] \in Event /\ q[k].issue \in Issues /\ q[k].row \in Issue
                                  /\ q[k].row.ver \in Nat
                                  /\ q[k].row.status \in STATUSES \cup {Absent}
  <1>1. Len(q) \in Nat /\ DOMAIN q = 1 .. Len(q)
    BY LenProperties
  <1>2. ASSUME NEW k \in DOMAIN q
        PROVE  /\ q[k] \in Event /\ q[k].issue \in Issues /\ q[k].row \in Issue
               /\ q[k].row.ver \in Nat /\ q[k].row.status \in STATUSES \cup {Absent}
    <2>1. q[k] \in Event
      BY <1>1, <1>2, ElementOfSeq
    <2>2. q[k].issue \in Issues /\ q[k].row \in Issue
      BY <2>1 DEF Event
    <2>3. QED  BY <2>1, <2>2 DEF Issue
  <1>3. QED  BY <1>1, <1>2

LEMMA AppendedEvent ==
    ASSUME NEW q \in Seq(Event), NEW e \in Event
    PROVE  /\ DOMAIN Append(q, e) = 1 .. Len(q) + 1 /\ Append(q, e)[Len(q) + 1] = e
           /\ \A k \in 1 .. Len(q) : Append(q, e)[k] = q[k]
  <1>1. /\ Append(q, e) \in Seq(Event) /\ Len(Append(q, e)) = Len(q) + 1
        /\ Append(q, e)[Len(q) + 1] = e /\ \A k \in 1 .. Len(q) : Append(q, e)[k] = q[k]
    BY AppendProperties
  <1>2. QED  BY <1>1, LenProperties

LEMMA TakenEvent ==
    ASSUME NEW q \in Seq(Event), q # << >>
    PROVE  /\ 1 \in DOMAIN q /\ Head(q) = q[1] /\ DOMAIN Tail(q) = 1 .. Len(q) - 1
           /\ \A k \in 1 .. Len(q) - 1 : k + 1 \in DOMAIN q /\ Tail(q)[k] = q[k + 1]
  <1>1. /\ Head(q) \in Event /\ Tail(q) \in Seq(Event) /\ Len(Tail(q)) = Len(q) - 1
        /\ \A k \in 1 .. Len(Tail(q)) : Tail(q)[k] = q[k + 1]
    BY HeadTailProperties
  <1>2. Len(q) \in Nat /\ Len(q) # 0 /\ DOMAIN q = 1 .. Len(q) /\ DOMAIN Tail(q) = 1 .. Len(Tail(q))
    BY <1>1, LenProperties, EmptySeq
  <1>3. Head(q) = q[1]
    BY DEF Head
  <1>4. QED  BY <1>1, <1>2, <1>3

\* Events come from broadcasts, and go to the page or with the connection.
LEMMA QueueMoves ==
    ASSUME TypeInv, [Next]_vars, NEW b \in Boards
    PROVE  \/ queue'[b] = queue[b] /\ published' = published
           \/ \E r \in Requests : Publish(r)
           \/ Receive(b)
           \/ queue'[b] = << >> /\ published' = published
  <1> USE DEF TypeInv, TypeOK
  <1>1. UNCHANGED <<queue, published>> => queue'[b] = queue[b] /\ published' = published
    OBVIOUS
  <1>2. ASSUME NEW r \in Requests, RequestStep(r) \/ Fail(r) \/ \E j \in Job : Ask(r, j)
        PROVE  Publish(r) \/ UNCHANGED <<queue, published>>
    BY <1>2 DEF RequestStep, Ask, Load, CommitCreate, CommitUpdate, CommitDelete, Reload, Answer,
                Fail, serverVars, socketVars
  <1>3. ASSUME NEW c \in Boards, Receive(c), c # b PROVE queue'[b] = queue[b] /\ published' = published
    BY <1>3 DEF Receive, serverVars
  <1>4. ASSUME NEW c \in Boards, Disconnect(c)
        PROVE  (queue'[b] = queue[b] \/ queue'[b] = << >>) /\ published' = published
    BY <1>4 DEF Disconnect, serverVars
  <1>5. ASSUME NEW c \in Boards, PageStep(c), ~Receive(c), ~Disconnect(c)
        PROVE  UNCHANGED <<queue, published>>
    BY <1>5 DEF PageStep, FetchStep, Fetch, ShowFetch, FetchFails, Connect, Render, Drop,
                serverVars, socketVars
  <1>6. UNCHANGED vars => UNCHANGED <<queue, published>>
    BY DEF vars, socketVars, serverVars
  <1>7. QED  BY <1>1, <1>2, <1>3, <1>4, <1>5, <1>6 DEF Next

\* Every event on the way was on the way before, or is being published.
LEMMA EventFrom ==
    ASSUME TypeInv, [Next]_vars, NEW b \in Boards, NEW k \in DOMAIN queue'[b]
    PROVE  \/ \E m \in DOMAIN queue[b] : queue'[b][k] = queue[b][m]
           \/ \E r \in Requests :
                 Publish(r) /\ queue'[b][k] = [issue |-> job[r].issue, row |-> copy[r]]
  <1>1. PICK q \in Seq(Event) : q = queue[b]
    BY DEF TypeInv, TypeOK
  <1>2. q \in Seq(Event) /\ Len(q) \in Nat /\ DOMAIN q = 1 .. Len(q)
    BY <1>1, LenProperties
  <1>3. CASE queue'[b] = queue[b]
    BY <1>3
  <1>4. ASSUME NEW r \in Requests, Publish(r), queue'[b] # queue[b]
        PROVE  \/ \E m \in DOMAIN queue[b] : queue'[b][k] = queue[b][m]
               \/ queue'[b][k] = [issue |-> job[r].issue, row |-> copy[r]]
    <2>1. PICK e \in Event : e = [issue |-> job[r].issue, row |-> copy[r]]
      BY <1>4, UnderWay DEF Publish, Event
    <2>2. job[r].issue \in Issues
      BY <1>4, UnderWay DEF Publish
    <2>3. queue'[b] = Append(q, e)
      BY <1>1, <1>4, <2>1, <2>2, PublishFacts
    <2>4. /\ DOMAIN Append(q, e) = 1 .. Len(q) + 1 /\ Append(q, e)[Len(q) + 1] = e
          /\ \A m \in 1 .. Len(q) : Append(q, e)[m] = q[m]
      BY <1>2, <2>1, AppendedEvent
    <2>5. k \in 1 .. Len(q) + 1
      BY <2>3, <2>4
    <2>6. CASE k = Len(q) + 1
      BY <2>1, <2>3, <2>4, <2>6
    <2>7. CASE k \in 1 .. Len(q)
      BY <1>1, <1>2, <2>3, <2>4, <2>7
    <2>8. QED  BY <1>2, <2>5, <2>6, <2>7
  <1>5. CASE Receive(b)
    <2>1. q # << >> /\ queue'[b] = Tail(q)
      BY <1>1, <1>5 DEF Receive, TypeInv, TypeOK
    <2>2. k + 1 \in DOMAIN q /\ Tail(q)[k] = q[k + 1]
      BY <1>2, <2>1, TakenEvent
    <2>3. QED  BY <1>1, <2>1, <2>2
  <1>6. CASE queue'[b] = << >>
    BY <1>6
  <1>7. QED  BY <1>3, <1>4, <1>5, <1>6, QueueMoves

LEMMA EventsStep == TypeInv /\ TableInv /\ EventsInv /\ [Next]_vars => EventsInv'
  <1> SUFFICES ASSUME TypeInv, TableInv, EventsInv, [Next]_vars,
                      NEW b \in Boards, NEW k \in DOMAIN queue'[b]
               PROVE  NoNewer(queue[b][k].row, queue[b][k].issue)'
    BY DEF EventsInv
  <1>1. PICK q \in Seq(Event) : q = queue[b]
    BY DEF TypeInv, TypeOK
  <1>2. ASSUME NEW m \in DOMAIN queue[b], queue'[b][k] = queue[b][m]
        PROVE  NoNewer(queue[b][k].row, queue[b][k].issue)'
    <2>1. q[m].issue \in Issues /\ q[m].row \in Issue
      BY <1>1, EventTypes
    <2>2. PICK i \in Issues, row \in Issue : i = q[m].issue /\ row = q[m].row
      BY <2>1
    <2>3. i \in Issues /\ row \in Issue /\ NoNewer(row, i)
      BY <1>1, <2>1, <2>2 DEF EventsInv
    <2>4. NoNewer(row, i)'
      BY <2>3, NoNewerStays DEF TableInv
    <2>5. queue'[b][k].issue = i /\ queue'[b][k].row = row
      BY <1>1, <1>2, <2>2
    <2>6. QED  BY <2>4, <2>5 DEF NoNewer
  <1>3. ASSUME NEW r \in Requests, Publish(r),
               queue'[b][k] = [issue |-> job[r].issue, row |-> copy[r]]
        PROVE  NoNewer(queue[b][k].row, queue[b][k].issue)'
    <2>1. pc[r] = "publish" /\ issues' = issues
      BY <1>3 DEF Publish
    <2>2. NoNewer(copy[r], job[r].issue)
      BY <2>1 DEF TableInv, CopyInv, CopyOK, Sent
    <2>3. queue'[b][k].issue = job[r].issue /\ queue'[b][k].row = copy[r]
      BY <1>3
    <2>4. QED  BY <2>1, <2>2, <2>3 DEF NoNewer
  <1>4. QED  BY <1>2, <1>3, EventFrom

\* A broadcast that a page gets is not older than the one before.
LEMMA LatestStep == TypeInv /\ LatestInv /\ [Next]_vars => LatestInv'
  <1> SUFFICES ASSUME TypeInv, LatestInv, [Next]_vars, NEW b \in Boards, spoilt'[b] = {},
                      NEW k \in DOMAIN queue'[b], Latest(b, k)'
               PROVE  queue'[b][k].row.ver = published'[queue'[b][k].issue]
    BY DEF LatestInv
  <1>1. PICK q \in Seq(Event) : q = queue[b]
    BY DEF TypeInv, TypeOK
  <1>2. /\ q \in Seq(Event) /\ Len(q) \in Nat /\ DOMAIN q = 1 .. Len(q)
        /\ \A m \in DOMAIN q : q[m].issue \in Issues
    BY <1>1, EventTypes
  <1>3. \A m \in DOMAIN q :
           (\A n \in DOMAIN q : n > m => q[n].issue # q[m].issue)
              => q[m].row.ver = published[q[m].issue]
    BY <1>1, SpoiltGrows DEF LatestInv, Latest
  <1>4. \A n \in DOMAIN queue'[b] : n > k => queue'[b][n].issue # queue'[b][k].issue
    BY DEF Latest
  <1>5. CASE queue'[b] = queue[b] /\ published' = published
    BY <1>1, <1>3, <1>4, <1>5
  <1>6. ASSUME NEW r \in Requests, Publish(r)
        PROVE  queue'[b][k].row.ver = published'[queue'[b][k].issue]
    <2>0. job[r].issue \in Issues /\ copy[r] \in Issue
      BY <1>6, UnderWay DEF Publish
    <2>1. PICK i \in Issues, row \in Issue : i = job[r].issue /\ row = copy[r]
      BY <2>0
    <2>2. PICK e \in Event : e = [issue |-> i, row |-> row]
      BY <2>0, <2>1 DEF Event
    <2>3. /\ \A n \in Issues : published'[n] =
                 IF n = i /\ row.ver > published[i] THEN row.ver ELSE published[n]
          /\ \/ queue'[b] = Append(q, e) /\ row.ver >= published[i]
             \/ queue'[b] = q /\ q = << >>
      BY <1>1, <1>6, <2>1, <2>2, PublishFacts
    <2>4. CASE queue'[b] = Append(q, e) /\ row.ver >= published[i]
      <3>1. /\ DOMAIN Append(q, e) = 1 .. Len(q) + 1 /\ Append(q, e)[Len(q) + 1] = e
            /\ \A m \in 1 .. Len(q) : Append(q, e)[m] = q[m]
        BY <1>2, <2>2, AppendedEvent
      <3>2. k \in 1 .. Len(q) + 1 /\ Len(q) + 1 \in DOMAIN queue'[b]
        BY <1>2, <2>4, <3>1
      <3>3. CASE k = Len(q) + 1
        <4>1. queue'[b][k].row.ver = row.ver /\ queue'[b][k].issue = i
          BY <2>2, <2>4, <3>1, <3>3
        <4>2. i \in Issues /\ row.ver \in Nat /\ published[i] \in Nat
          BY <2>0, <2>1, TableTypes
        <4>3. published'[i] = row.ver
          BY <2>3, <2>4, <4>2
        <4>4. QED  BY <4>1, <4>3
      <3>4. CASE k \in 1 .. Len(q)
        <4>1. queue'[b][k] = q[k] /\ k \in DOMAIN q /\ k < Len(q) + 1
          BY <1>2, <2>4, <3>1, <3>4
        <4>2. q[k].issue # i
          BY <1>4, <2>2, <2>4, <3>1, <3>2, <4>1
        <4>3. ASSUME NEW n \in DOMAIN q, n > k PROVE q[n].issue # q[k].issue
          <5>1. n \in DOMAIN queue'[b] /\ queue'[b][n] = q[n]
            BY <1>2, <2>4, <3>1, <4>3
          <5>2. QED  BY <1>4, <4>1, <4>3, <5>1
        <4>4. q[k].row.ver = published[q[k].issue]
          BY <1>3, <4>1, <4>3
        <4>5. QED  BY <1>2, <2>3, <4>1, <4>2, <4>4
      <3>5. QED  BY <1>2, <3>2, <3>3, <3>4
    <2>5. CASE queue'[b] = q /\ q = << >>
      BY <2>5
    <2>6. QED  BY <2>3, <2>4, <2>5
  <1>7. CASE Receive(b)
    <2>1. q # << >> /\ queue'[b] = Tail(q) /\ published' = published
      BY <1>1, <1>7 DEF Receive, TypeInv, TypeOK, serverVars
    <2>2. /\ DOMAIN Tail(q) = 1 .. Len(q) - 1
          /\ \A n \in 1 .. Len(q) - 1 : n + 1 \in DOMAIN q /\ Tail(q)[n] = q[n + 1]
      BY <1>2, <2>1, TakenEvent
    <2>3. k \in 1 .. Len(q) - 1 /\ queue'[b][k] = q[k + 1] /\ k + 1 \in DOMAIN q
      BY <2>1, <2>2
    <2>4. ASSUME NEW n \in DOMAIN q, n > k + 1 PROVE q[n].issue # q[k + 1].issue
      <3>1. n - 1 \in 1 .. Len(q) - 1 /\ n - 1 > k /\ (n - 1) + 1 = n
        BY <1>2, <2>3, <2>4
      <3>2. queue'[b][n - 1] = q[n] /\ n - 1 \in DOMAIN queue'[b]
        BY <2>1, <2>2, <3>1
      <3>3. QED  BY <1>4, <2>3, <3>1, <3>2
    <2>5. QED  BY <1>3, <2>1, <2>3, <2>4
  <1>8. CASE queue'[b] = << >>
    BY <1>8
  <1>9. QED  BY <1>5, <1>6, <1>7, <1>8, QueueMoves

LEMMA SnapStep == TypeInv /\ TableInv /\ SnapInv /\ [Next]_vars => SnapInv'
  <1> SUFFICES ASSUME TypeInv, TableInv, SnapInv, [Next]_vars,
                      NEW b \in Boards, NEW i \in Issues, fetch'[b] = "asked"
               PROVE  NoNewer(snap[b][i], i)'
    BY DEF SnapInv
  <1> USE DEF TypeInv, TypeOK
  <1>1. CASE fetch'[b] = fetch[b] /\ snap'[b] = snap[b]
    <2>1. snap[b][i] \in Issue
      OBVIOUS
    <2>2. PICK row \in Issue : row = snap[b][i]
      BY <2>1
    <2>3. NoNewer(row, i)
      BY <1>1, <2>2 DEF SnapInv
    <2>4. NoNewer(row, i)'
      BY <2>1, <2>2, <2>3, NoNewerStays DEF TableInv
    <2>5. snap'[b][i] = row
      BY <1>1, <2>2
    <2>6. QED  BY <2>4, <2>5 DEF NoNewer
  <1>2. CASE Fetch(b)
    <2>1. issues' = issues /\ (snap'[b] = issues \/ snap'[b] = noIssues)
      BY <1>2 DEF Fetch, serverVars
    <2>2. CASE snap'[b] = issues
      BY <2>1, <2>2, TableTypes DEF NoNewer
    <2>3. CASE snap'[b] = noIssues
      BY <2>1, <2>3, TableTypes DEF NoNewer, noIssues, NoIssue, TableInv, RowsInv
    <2>4. QED  BY <2>1, <2>2, <2>3
  <1>3. ASSUME NEW c \in Boards, FetchStep(c)
        PROVE  Fetch(b) \/ (fetch'[b] = fetch[b] /\ snap'[b] = snap[b])
    BY <1>3 DEF FetchStep, Fetch, ShowFetch, FetchFails
  <1>4. ASSUME NEW c \in Boards, PageStep(c), ~FetchStep(c) PROVE UNCHANGED fetchVars
    BY <1>4 DEF PageStep, Receive, Render, Disconnect, Connect, Drop
  <1>5. ASSUME NEW r \in Requests, RequestStep(r) \/ Fail(r) \/ \E j \in Job : Ask(r, j)
        PROVE  UNCHANGED fetchVars
    BY <1>5 DEF RequestStep, Ask, Load, CommitCreate, CommitUpdate, CommitDelete, Reload, Publish,
                Answer, Fail
  <1>6. UNCHANGED vars => UNCHANGED fetchVars
    BY DEF vars
  <1>7. UNCHANGED fetchVars => fetch'[b] = fetch[b] /\ snap'[b] = snap[b]
    BY DEF fetchVars
  <1>8. QED  BY <1>1, <1>2, <1>3, <1>4, <1>5, <1>6, <1>7 DEF Next

-------------------------------------------------------------------------------
(***************************************************************************)
(* Agreement: what a page knows                                            *)
(***************************************************************************)

Coming(b, i) == \E k \in DOMAIN queue[b] : queue[b][k].issue = i

\* A drop of the page's own that has not been published, or has failed.
DropsOn(r, b, i) ==
    /\ pc[r] \in {"load", "commit", "reload", "publish"} \/ (pc[r] = "answer" /\ r \in failed)
    /\ job[r].kind = "drop" /\ job[r].issue = i /\ job[r].by = b

Dropping(b, i) == \E r \in Requests : DropsOn(r, b, i)

\* The page shows the card in the column s, or nowhere if that is no column.
Shows(b, i, s) == \A t \in STATUSES : i \in columns[b][t] <=> t = s

\* What the page saw last is no newer than the table, and is shown if as new.
ShowsNoNewer(b, i) ==
    /\ seen[b][i] <= issues[i].ver
    /\ seen[b][i] = issues[i].ver => Shows(b, i, issues[i].status)

\* A page that has its fetch, or is waiting for it, knows the last broadcast about
\* the issue or will; if nothing about it is under way it shows what it saw.
Knows(b, i) ==
    /\ fetch[b] = "asked" =>
          Coming(b, i) \/ snap[b][i].ver >= published[i] \/ seen[b][i] >= published[i]
    /\ fetch[b] = "shown" => Coming(b, i) \/ seen[b][i] >= published[i]
    /\ fetch[b] = "shown" /\ ~Coming(b, i) /\ ~Dropping(b, i) => ShowsNoNewer(b, i)

KnowsInv == \A b \in Boards : spoilt[b] = {} => \A i \in Issues : Knows(b, i)

\* What the table, the events, the fetches and the pages owe each other.
SyncInv == TableInv /\ PublishedInv /\ EventsInv /\ LatestInv /\ SnapInv /\ KnowsInv

\* A step that leaves the page and its issue alone, but for the table.
LEMMA KnowsRests ==
    ASSUME TypeInv, TableInv, [Next]_vars, NEW b \in Boards, NEW i \in Issues, Knows(b, i),
           fetch'[b] = fetch[b], snap'[b] = snap[b], Coming(b, i)' <=> Coming(b, i),
           seen'[b][i] = seen[b][i], published'[i] = published[i],
           \A t \in STATUSES : i \in columns'[b][t] <=> i \in columns[b][t],
           Dropping(b, i) => Dropping(b, i)'
    PROVE  Knows(b, i)'
  <1>1. ShowsNoNewer(b, i) => ShowsNoNewer(b, i)'
    <2>1. issues'[i] = issues[i] \/ (issues'[i].ver \in Nat /\ issues'[i].ver > issues[i].ver)
      BY TableMoves DEF TableInv
    <2>2. seen[b][i] \in Nat /\ issues[i].ver \in Nat
      BY TableTypes DEF TypeInv, TypeOK
    <2>3. Shows(b, i, issues[i].status) =>
             \A t \in STATUSES : i \in columns'[b][t] <=> t = issues[i].status
      BY DEF Shows
    <2>4. CASE issues'[i] = issues[i]
      BY <2>3, <2>4 DEF ShowsNoNewer, Shows
    <2>5. CASE issues'[i].ver \in Nat /\ issues'[i].ver > issues[i].ver
      BY <2>2, <2>5 DEF ShowsNoNewer
    <2>6. QED  BY <2>1, <2>4, <2>5
  <1>2. QED  BY <1>1 DEF Knows

\* The page's queue, columns, fetch and what it saw, all as they were.
PageRests(b) ==
    /\ fetch'[b] = fetch[b] /\ snap'[b] = snap[b] /\ queue'[b] = queue[b]
    /\ seen'[b] = seen[b] /\ columns'[b] = columns[b] /\ published' = published

LEMMA RestKnows ==
    ASSUME TypeInv, TableInv, [Next]_vars, NEW b \in Boards, NEW i \in Issues, Knows(b, i),
           PageRests(b), Dropping(b, i) => Dropping(b, i)'
    PROVE  Knows(b, i)'
  <1>1. Coming(b, i)' <=> Coming(b, i)
    BY DEF Coming, PageRests
  <1>2. QED  BY <1>1, KnowsRests DEF PageRests

\* A request that neither publishes nor answers is no page's business, and a drop
\* is under way until it does.
LEMMA RequestRests ==
    ASSUME TypeInv, NEW r \in Requests,
           \/ Load(r) \/ CommitCreate(r) \/ CommitUpdate(r) \/ CommitDelete(r) \/ Reload(r)
           \/ Fail(r) \/ \E j \in Job : Ask(r, j),
           NEW b \in Boards, NEW i \in Issues
    PROVE  PageRests(b) /\ (Dropping(b, i) => Dropping(b, i)')
  <1> USE DEF TypeInv, TypeOK, Goto
  <1>1. PageRests(b)
    BY DEF PageRests, Load, CommitCreate, CommitUpdate, CommitDelete, Reload, Fail, Ask,
           serverVars, fetchVars, socketVars, pageVars
  <1>2. ASSUME NEW q \in Requests, DropsOn(q, b, i) PROVE DropsOn(q, b, i)'
    <2>1. CASE q # r
      <3>1. pc'[q] = pc[q] /\ job'[q] = job[q] /\ (q \in failed' <=> q \in failed)
        BY <2>1 DEF Load, CommitCreate, CommitUpdate, CommitDelete, Reload, Fail, Ask
      <3>2. QED  BY <1>2, <3>1 DEF DropsOn
    <2>2. CASE q = r
      <3>1. job'[r] = job[r] /\ (pc'[r] \in {"commit", "reload", "publish"}
                                 \/ (pc'[r] = "answer" /\ r \in failed'))
        BY <1>2, <2>2 DEF DropsOn, Load, CommitCreate, CommitUpdate, CommitDelete, Reload, Fail, Ask
      <3>2. QED  BY <1>2, <2>2, <3>1 DEF DropsOn
    <2>3. QED  BY <2>1, <2>2
  <1>3. QED  BY <1>1, <1>2 DEF Dropping

\* So is what other pages do.
LEMMA OthersRest ==
    ASSUME TypeInv, NEW b \in Boards, NEW c \in Boards, c # b, PageStep(c), NEW i \in Issues
    PROVE  PageRests(b) /\ (Dropping(b, i) => Dropping(b, i)')
  <1> USE DEF TypeInv, TypeOK, Goto
  <1>1. CASE FetchStep(c) \/ Receive(c) \/ Render(c) \/ Disconnect(c)
             \/ \E p \in Pods : Connect(c, p)
    <2>1. UNCHANGED <<published, requestVars>>
      BY <1>1 DEF FetchStep, Fetch, ShowFetch, FetchFails, Receive, Render, Disconnect, Connect,
                  serverVars
    <2>2. fetch'[b] = fetch[b] /\ snap'[b] = snap[b]
      BY <1>1 DEF FetchStep, Fetch, ShowFetch, FetchFails, Receive, Render, Disconnect, Connect,
                  fetchVars
    <2>3. queue'[b] = queue[b]
      BY <1>1 DEF FetchStep, Fetch, ShowFetch, FetchFails, Receive, Render, Disconnect, Connect,
                  socketVars
    <2>4. seen'[b] = seen[b] /\ columns'[b] = columns[b]
      BY <1>1 DEF FetchStep, Fetch, ShowFetch, FetchFails, Receive, Render, Disconnect, Connect,
                  Show, pageVars
    <2>5. Dropping(b, i) => Dropping(b, i)'
      BY <2>1 DEF Dropping, DropsOn, requestVars
    <2>6. QED  BY <2>1, <2>2, <2>3, <2>4, <2>5 DEF PageRests
  <1>2. ASSUME NEW r \in Requests, NEW n \in Issues, NEW from \in STATUSES, NEW to \in STATUSES,
               Drop(c, r, n, from, to)
        PROVE  PageRests(b) /\ (Dropping(b, i) => Dropping(b, i)')
    <2>1. PageRests(b)
      BY <1>2 DEF Drop, PageRests, serverVars, fetchVars, socketVars
    <2>2. ASSUME NEW q \in Requests, DropsOn(q, b, i) PROVE DropsOn(q, b, i)'
      <3>1. q # r
        BY <1>2, <2>2 DEF Drop, DropsOn
      <3>2. pc'[q] = pc[q] /\ job'[q] = job[q] /\ failed' = failed
        BY <1>2, <3>1 DEF Drop
      <3>3. QED  BY <2>2, <3>2 DEF DropsOn
    <2>3. QED  BY <2>1, <2>2 DEF Dropping
  <1>3. QED  BY <1>1, <1>2 DEF PageStep

LEMMA PublishKnows ==
    ASSUME TypeInv, TableInv, [Next]_vars, NEW r \in Requests, Publish(r),
           NEW b \in Boards, spoilt'[b] = {}, NEW i \in Issues, Knows(b, i)
    PROVE  Knows(b, i)'
  <1>0. job[r].issue \in Issues /\ copy[r] \in Issue /\ pc[r] = "publish"
    BY UnderWay DEF Publish
  <1>1. PICK n \in Issues : n = job[r].issue
    BY <1>0
  <1>2. PICK q \in Seq(Event) : q = queue[b]
    BY DEF TypeInv, TypeOK
  <1>3. PICK e \in Event : e = [issue |-> n, row |-> copy[r]]
    BY <1>0, <1>1 DEF Event
  <1>4. /\ UNCHANGED <<job, failed, fetch, snap, columns, seen>> /\ Goto(r, "answer")
        /\ i # n => published'[i] = published[i]
        /\ \/ queue'[b] = Append(q, e)
           \/ fetch[b] = "none"
    BY <1>1, <1>2, <1>3, PublishFacts
  <1>5. CASE fetch[b] = "none"
    BY <1>4, <1>5 DEF Knows
  <1>6. CASE queue'[b] = Append(q, e)
    <2>1. /\ DOMAIN Append(q, e) = 1 .. Len(q) + 1 /\ Append(q, e)[Len(q) + 1] = e
          /\ \A k \in 1 .. Len(q) : Append(q, e)[k] = q[k]
          /\ Len(q) \in Nat /\ DOMAIN q = 1 .. Len(q)
      BY <1>2, <1>3, AppendedEvent, EventTypes
    <2>2. CASE i = n
      <3>1. Len(q) + 1 \in DOMAIN queue'[b] /\ queue'[b][Len(q) + 1].issue = i
        BY <1>3, <1>6, <2>1, <2>2
      <3>2. Coming(b, i)'
        BY <3>1 DEF Coming
      <3>3. QED  BY <3>2 DEF Knows
    <2>3. CASE i # n
      <3>1. Coming(b, i) => Coming(b, i)'
        <4>1. ASSUME NEW k \in DOMAIN q, q[k].issue = i
              PROVE  k \in DOMAIN queue'[b] /\ queue'[b][k].issue = i
          BY <1>6, <2>1, <4>1
        <4>2. QED  BY <1>2, <4>1 DEF Coming
      <3>2. Coming(b, i)' => Coming(b, i)
        <4>1. ASSUME NEW k \in DOMAIN queue'[b], queue'[b][k].issue = i
              PROVE  k \in DOMAIN q /\ q[k].issue = i
          <5>1. k \in 1 .. Len(q) + 1 /\ k # Len(q) + 1
            BY <1>3, <1>6, <2>1, <2>3, <4>1
          <5>2. k \in 1 .. Len(q)
            BY <2>1, <5>1
          <5>3. QED  BY <1>6, <2>1, <4>1, <5>2
        <4>2. QED  BY <1>2, <4>1 DEF Coming
      <3>3. ASSUME NEW p \in Requests, DropsOn(p, b, i) PROVE DropsOn(p, b, i)'
        <4>1. p # r
          BY <1>1, <2>3, <3>3 DEF DropsOn
        <4>2. pc'[p] = pc[p]
          BY <1>4, <4>1 DEF Goto, TypeInv, TypeOK
        <4>3. QED  BY <1>4, <3>3, <4>2 DEF DropsOn
      <3>4. Dropping(b, i) => Dropping(b, i)'
        BY <3>3 DEF Dropping
      <3>5. QED  BY <1>4, <2>3, <3>1, <3>2, <3>4, KnowsRests
    <2>4. QED  BY <2>2, <2>3
  <1>7. QED  BY <1>4, <1>5, <1>6

LEMMA AppliedShows ==
    ASSUME NEW cols \in Columns, NEW i \in Issues, NEW s \in STATUSES \cup {Absent}
    PROVE  /\ \A t \in STATUSES : i \in Applied(cols, i, s)[t] <=> t = s
           /\ \A n \in Issues, t \in STATUSES :
                 n # i => (n \in Applied(cols, i, s)[t] <=> n \in cols[t])
  BY StatusAssumption DEF Applied, upsertIssue, removeIssue, Columns

\* What Show does to a page: nothing to its other issues.
LEMMA ShowFacts ==
    ASSUME TypeInv, NEW b \in Boards, NEW i \in Issues, NEW row \in Issue, Show(b, i, row)
    PROVE  /\ \A t \in STATUSES : i \in columns'[b][t] <=> t = row.status
           /\ seen'[b][i] = row.ver
           /\ \A n \in Issues : n # i =>
                 /\ seen'[b][n] = seen[b][n]
                 /\ \A t \in STATUSES : n \in columns'[b][t] <=> n \in columns[b][t]
           /\ \A c \in Boards : c # b => seen'[c] = seen[c] /\ columns'[c] = columns[c]
  <1>1. row.status \in STATUSES \cup {Absent} /\ columns[b] \in Columns
    BY TableTypes DEF TypeInv, TypeOK
  <1>2. columns'[b] = Applied(columns[b], i, row.status)
    BY DEF Show, TypeInv, TypeOK
  <1>3. /\ seen'[b][i] = row.ver /\ \A n \in Issues : n # i => seen'[b][n] = seen[b][n]
        /\ \A c \in Boards : c # b => seen'[c] = seen[c] /\ columns'[c] = columns[c]
    BY DEF Show, TypeInv, TypeOK
  <1>4. QED  BY <1>1, <1>2, <1>3, AppliedShows

LEMMA AnswerKnows ==
    ASSUME TypeInv, TableInv, [Next]_vars, NEW r \in Requests, Answer(r),
           NEW b \in Boards, spoilt'[b] = {}, NEW i \in Issues, Knows(b, i)
    PROVE  Knows(b, i)'
  <1>0. job[r].issue \in Issues /\ copy[r] \in Issue /\ pc[r] = "answer"
        /\ job[r].kind \in {"create", "update", "drop", "delete"}
        /\ job[r].by \in Boards \cup {Elsewhere} /\ copy[r].ver \in Nat
    BY UnderWay DEF Answer
  <1>1. PICK n \in Issues, row \in Issue : n = job[r].issue /\ row = copy[r]
    BY <1>0
  <1>2. UNCHANGED <<issues, published, fetch, snap, queue>> /\ (Coming(b, i)' <=> Coming(b, i))
    BY DEF Answer, serverVars, fetchVars, socketVars, Coming
  <1>3. ASSUME NEW q \in Requests, q # r, DropsOn(q, b, i) PROVE DropsOn(q, b, i)'
    <2>1. pc'[q] = pc[q] /\ job'[q] = job[q] /\ (q \in failed' <=> q \in failed)
      BY <1>3 DEF Answer, Goto, TypeInv, TypeOK
    <2>2. QED  BY <1>3, <2>1 DEF DropsOn
  <1>4. ~DropsOn(r, b, i)
    <2> SUFFICES ASSUME job[r].kind = "drop", job[r].by = b, r \in failed PROVE FALSE
      BY <1>0 DEF DropsOn
    <2>1. Spoil({c \in {b} : r \in failed}, "failed")
      BY BoardAssumption DEF Answer
    <2>2. QED  BY <2>1 DEF Spoil
  <1>5. Dropping(b, i) => Dropping(b, i)'
    BY <1>3, <1>4 DEF Dropping
  <1>6. CASE seen'[b][i] = seen[b][i] /\ \A t \in STATUSES : i \in columns'[b][t] <=> i \in columns[b][t]
    BY <1>2, <1>5, <1>6, KnowsRests
  <1>7. CASE UNCHANGED pageVars
    BY <1>6, <1>7 DEF pageVars
  <1>8. CASE /\ job[r].by # Elsewhere /\ job[r].kind \in {"create", "update"} /\ r \notin failed
             /\ Show(job[r].by, n, row)
             /\ Spoil({c \in {job[r].by} : row.ver < seen[job[r].by][n]}, "late answer")
    <2>1. PICK c \in Boards : c = job[r].by
      BY <1>0, <1>8
    <2>2. Show(c, n, row) /\ Spoil({d \in {c} : row.ver < seen[c][n]}, "late answer")
      BY <1>8, <2>1
    <2> c \in Boards /\ n \in Issues /\ row \in Issue
      BY <1>1, <2>1
    <2> DEFINE Shown(m, s) == \A t \in STATUSES : m \in columns'[c][t] <=> t = s
               Kept(m) == /\ seen'[c][m] = seen[c][m]
                          /\ \A t \in STATUSES : m \in columns'[c][t] <=> m \in columns[c][t]
    <2>6. Shown(n, row.status)
      <3>1. columns[c] \in Columns /\ row.status \in STATUSES \cup {Absent}
        BY TableTypes DEF TypeInv, TypeOK
      <3>2. columns'[c] = Applied(columns[c], n, row.status)
        BY <2>2 DEF Show, TypeInv, TypeOK
      <3>3. QED  BY <3>1, <3>2, AppliedShows
    <2>7. seen'[c][n] = row.ver
      BY <2>2 DEF Show, TypeInv, TypeOK
    <2>8. \A m \in Issues : m # n => Kept(m)
      BY <2>2, ShowFacts
    <2>9. \A d \in Boards : d # c => seen'[d] = seen[d] /\ columns'[d] = columns[d]
      BY <2>2, ShowFacts
    <2>3. CASE c = b /\ n = i
      <3>1. seen'[b][i] = row.ver /\ \A t \in STATUSES : i \in columns'[b][t] <=> t = row.status
        BY <2>3, <2>6, <2>7
      <3>2. ~(row.ver < seen[b][i])
        BY <2>2, <2>3 DEF Spoil
      <3>3. row.ver \in Nat /\ seen[b][i] \in Nat /\ published[i] \in Nat
        BY <1>0, <1>1, TableTypes DEF TypeInv, TypeOK
      <3>4. NoNewer(row, i)
        BY <1>0, <1>1, <1>8, <2>3 DEF TableInv, CopyInv, CopyOK, Sent
      <3>5. ShowsNoNewer(b, i)'
        BY <1>2, <3>1, <3>4 DEF ShowsNoNewer, Shows, NoNewer
      <3>6. seen[b][i] >= published[i] => seen'[b][i] >= published'[i]
        BY <1>2, <3>1, <3>2, <3>3
      <3>7. QED  BY <1>2, <3>5, <3>6 DEF Knows
    <2>4. CASE ~(c = b /\ n = i)
      <3>1. seen'[b][i] = seen[b][i] /\ \A t \in STATUSES : i \in columns'[b][t] <=> i \in columns[b][t]
        BY <2>4, <2>8, <2>9
      <3>2. QED  BY <1>6, <3>1
    <2>5. QED  BY <2>3, <2>4
  <1>9. CASE /\ job[r].by # Elsewhere /\ job[r].kind = "delete"
             /\ columns' = [columns EXCEPT ![job[r].by] = removeIssue(@, n)]
             /\ Spoil({c \in {job[r].by} : r \in failed}, "failed")
             /\ UNCHANGED <<boardRef, seen>>
    <2>1. PICK c \in Boards : c = job[r].by
      BY <1>0, <1>9
    <2>2. c \in Boards /\ columns \in [Boards -> Columns]
      BY <2>1 DEF TypeInv, TypeOK
    <2>3. CASE c = b /\ n = i
      <3>1. r \notin failed
        BY <1>9, <2>1, <2>3 DEF Spoil
      <3>2. issues[i].status = Absent
        BY <1>0, <1>1, <1>9, <2>3, <3>1 DEF TableInv, CopyInv, CopyOK, Sent
      <3>3. \A t \in STATUSES : i \notin columns'[b][t]
        <4>1. columns'[b] = removeIssue(columns[b], i)
          BY <1>9, <2>1, <2>2, <2>3
        <4>2. QED  BY <4>1 DEF removeIssue
      <3>4. Shows(b, i, issues[i].status)'
        BY <1>2, <3>2, <3>3, StatusAssumption DEF Shows
      <3>5. seen[b][i] <= issues[i].ver => ShowsNoNewer(b, i)'
        BY <1>2, <1>9, <3>4 DEF ShowsNoNewer
      <3>6. ~Dropping(b, i)' => ~Dropping(b, i)
        BY <1>5
      <3>7. ShowsNoNewer(b, i) => ShowsNoNewer(b, i)'
        BY <3>5 DEF ShowsNoNewer
      <3>8. QED  BY <1>2, <1>9, <3>6, <3>7 DEF Knows
    <2>4. CASE ~(c = b /\ n = i)
      <3>1. \A t \in STATUSES : i \in columns'[b][t] <=> i \in columns[b][t]
        <4>1. columns'[b] = IF c = b THEN removeIssue(columns[b], n) ELSE columns[b]
          BY <1>9, <2>1, <2>2
        <4>2. QED  BY <2>4, <4>1 DEF removeIssue
      <3>2. QED  BY <1>6, <1>9, <3>1
    <2>5. QED  BY <2>3, <2>4
  <1>10. QED  BY <1>1, <1>7, <1>8, <1>9 DEF Answer

LEMMA FetchKnows ==
    ASSUME TypeInv, TableInv, PublishedInv, [Next]_vars, NEW b \in Boards, FetchStep(b),
           spoilt'[b] = {}, NEW i \in Issues, Knows(b, i), SnapInv
    PROVE  Knows(b, i)'
  <1> USE DEF TypeInv, TypeOK
  <1>0. /\ seen[b][i] \in Nat /\ snap[b][i] \in Issue /\ snap[b][i].ver \in Nat
        /\ published[i] \in Nat /\ issues[i].ver \in Nat
    BY TableTypes
  <1>1. /\ \A why : ~Spoil({b}, why)
        /\ UNCHANGED <<issues, published, queue>>
        /\ Coming(b, i)' <=> Coming(b, i)
    BY DEF FetchStep, Fetch, ShowFetch, FetchFails, serverVars, socketVars, Spoil, Coming
  <1>2. CASE Fetch(b)
    <2>1. fetch'[b] = "asked" /\ snap'[b] = issues
      BY <1>1, <1>2 DEF Fetch
    <2>2. issues[i].ver >= published[i]
      BY <1>0 DEF PublishedInv
    <2>3. snap'[b][i].ver >= published'[i]
      BY <1>1, <2>1, <2>2
    <2>4. QED  BY <2>1, <2>3 DEF Knows
  <1>3. CASE ShowFetch(b)
    <2>1. /\ fetch[b] = "asked" /\ fetch'[b] = "shown"
          /\ columns'[b] = [s \in STATUSES |-> {n \in Issues : snap[b][n].status = s}]
          /\ seen'[b] = [n \in Issues |-> snap[b][n].ver]
      BY <1>3 DEF ShowFetch
    <2>2. ~(seen[b][i] > snap[b][i].ver)
      BY <1>3 DEF ShowFetch, Spoil
    <2>3. seen'[b][i] = snap[b][i].ver
      BY <2>1
    <2>4. Coming(b, i) \/ seen'[b][i] >= published'[i]
      BY <1>0, <1>1, <2>1, <2>2, <2>3 DEF Knows
    <2>5. NoNewer(snap[b][i], i)
      BY <2>1 DEF SnapInv
    <2>6. \A t \in STATUSES : i \in columns'[b][t] <=> t = snap[b][i].status
      BY <2>1
    <2>7. ShowsNoNewer(b, i)'
      BY <1>1, <2>3, <2>5, <2>6 DEF ShowsNoNewer, Shows, NoNewer
    <2>8. QED  BY <1>1, <2>1, <2>4, <2>7 DEF Knows
  <1>4. ~FetchFails(b)
    BY <1>1 DEF FetchFails
  <1>5. QED  BY <1>2, <1>3, <1>4 DEF FetchStep

LEMMA ReceiveKnows ==
    ASSUME TypeInv, TableInv, EventsInv, LatestInv, [Next]_vars, NEW b \in Boards, Receive(b),
           spoilt[b] = {}, NEW i \in Issues, Knows(b, i)
    PROVE  Knows(b, i)'
  <1>1. PICK q \in Seq(Event) : q = queue[b]
    BY DEF TypeInv, TypeOK
  <1>2. q # << >> /\ queue'[b] = Tail(q) /\ Show(b, Head(q).issue, Head(q).row)
        /\ UNCHANGED <<issues, published, fetchVars, requestVars>>
    BY <1>1 DEF Receive, TypeInv, TypeOK, serverVars
  <1>3. /\ 1 \in DOMAIN q /\ Head(q) = q[1] /\ DOMAIN Tail(q) = 1 .. Len(q) - 1
        /\ \A k \in 1 .. Len(q) - 1 : k + 1 \in DOMAIN q /\ Tail(q)[k] = q[k + 1]
        /\ Len(q) \in Nat /\ DOMAIN q = 1 .. Len(q)
        /\ q[1].issue \in Issues /\ q[1].row \in Issue
    BY <1>1, <1>2, TakenEvent, EventTypes
  <1>4. PICK n \in Issues, row \in Issue : n = q[1].issue /\ row = q[1].row
    BY <1>3
  <1>5. n \in Issues /\ row \in Issue /\ row.status \in STATUSES \cup {Absent} /\ Show(b, n, row)
    BY <1>2, <1>3, <1>4, TableTypes
  <1>6. Dropping(b, i)' <=> Dropping(b, i)
    BY <1>2 DEF Dropping, DropsOn, requestVars
  <1>7. Coming(b, i)' => Coming(b, i)
    BY <1>1, <1>2, <1>3 DEF Coming
  <1>8. Coming(b, i) => n = i \/ Coming(b, i)'
    <2>1. ASSUME NEW k \in DOMAIN q, q[k].issue = i, n # i
          PROVE  k - 1 \in DOMAIN Tail(q) /\ Tail(q)[k - 1].issue = i
      <3>1. k \in 2 .. Len(q)
        BY <1>3, <1>4, <2>1
      <3>2. k - 1 \in 1 .. Len(q) - 1 /\ (k - 1) + 1 = k
        BY <1>3, <3>1
      <3>3. QED  BY <1>3, <2>1, <3>2
    <2>2. QED  BY <1>1, <1>2, <2>1 DEF Coming
  <1>9. CASE n # i
    <2>1. seen'[b][i] = seen[b][i] /\ \A t \in STATUSES : i \in columns'[b][t] <=> i \in columns[b][t]
      BY <1>5, <1>9, ShowFacts
    <2>2. fetch'[b] = fetch[b] /\ snap'[b] = snap[b]
      BY <1>2 DEF fetchVars
    <2>3. QED  BY <1>2, <1>6, <1>7, <1>8, <1>9, <2>1, <2>2, KnowsRests
  <1>10. CASE n = i
    <2>1. CASE Coming(b, i)'
      BY <2>1 DEF Knows
    <2>2. CASE ~Coming(b, i)'
      <3>1. seen'[b][i] = row.ver
        BY <1>5, <1>10 DEF Show, TypeInv, TypeOK
      <3>2. \A t \in STATUSES : i \in columns'[b][t] <=> t = row.status
        <4>1. columns[b] \in Columns /\ columns'[b] = Applied(columns[b], i, row.status)
          BY <1>5, <1>10 DEF Show, TypeInv, TypeOK
        <4>2. QED  BY <1>5, <4>1, AppliedShows
      <3>3. NoNewer(row, i)
        BY <1>1, <1>3, <1>4, <1>10 DEF EventsInv
      <3>4. ASSUME NEW m \in DOMAIN q, m > 1 PROVE q[m].issue # q[1].issue
        <4>1. m - 1 \in 1 .. Len(q) - 1 /\ (m - 1) + 1 = m
          BY <1>3, <3>4
        <4>2. m - 1 \in DOMAIN queue'[b] /\ queue'[b][m - 1] = q[m]
          BY <1>2, <1>3, <4>1
        <4>3. QED  BY <1>4, <1>10, <2>2, <4>2 DEF Coming
      <3>5. row.ver = published[i]
        <4>1. Latest(b, 1)
          BY <1>1, <3>4 DEF Latest
        <4>2. QED  BY <1>1, <1>3, <1>4, <1>10, <4>1 DEF LatestInv
      <3>6. published[i] \in Nat
        BY TableTypes
      <3>7. seen'[b][i] >= published'[i]
        BY <1>2, <3>1, <3>5, <3>6
      <3>8. ShowsNoNewer(b, i)'
        BY <1>2, <3>1, <3>2, <3>3 DEF ShowsNoNewer, Shows, NoNewer
      <3>9. QED  BY <3>7, <3>8 DEF Knows
    <2>3. QED  BY <2>1, <2>2
  <1>11. QED  BY <1>9, <1>10

LEMMA DropKnows ==
    ASSUME TypeInv, TableInv, [Next]_vars, NEW b \in Boards, NEW r \in Requests,
           NEW n \in Issues, NEW from \in STATUSES, NEW to \in STATUSES, Drop(b, r, n, from, to),
           spoilt'[b] = {}, NEW i \in Issues, Knows(b, i)
    PROVE  Knows(b, i)'
  <1>1. /\ boardRef[b] = columns[b] /\ UNCHANGED <<published, fetch, snap, queue, seen>>
        /\ columns'[b] = Moved(columns[b], n, from, to) /\ pc[r] = "idle"
        /\ pc'[r] = "load" /\ job'[r] = [kind |-> "drop", issue |-> n, status |-> to, by |-> b]
    BY DEF Drop, Spoil, Goto, TypeInv, TypeOK, serverVars, fetchVars, socketVars
  <1>2. ASSUME NEW p \in Requests, DropsOn(p, b, i) PROVE DropsOn(p, b, i)'
    <2>1. p # r
      BY <1>1, <1>2 DEF DropsOn
    <2>2. pc'[p] = pc[p] /\ job'[p] = job[p] /\ failed' = failed
      BY <2>1 DEF Drop, Goto, TypeInv, TypeOK
    <2>3. QED  BY <1>2, <2>2 DEF DropsOn
  <1>3. CASE i = n
    <2>1. DropsOn(r, b, i)'
      BY <1>1, <1>3 DEF DropsOn
    <2>2. Dropping(b, i)'
      BY <2>1 DEF Dropping
    <2>3. Coming(b, i)' <=> Coming(b, i)
      BY <1>1 DEF Coming
    <2>4. QED  BY <1>1, <2>2, <2>3 DEF Knows
  <1>4. CASE i # n
    <2>1. \A t \in STATUSES : i \in columns'[b][t] <=> i \in columns[b][t]
      BY <1>1, <1>4 DEF Moved
    <2>2. Dropping(b, i) => Dropping(b, i)'
      BY <1>2 DEF Dropping
    <2>3. Coming(b, i)' <=> Coming(b, i)
      BY <1>1 DEF Coming
    <2>4. QED  BY <1>1, <2>1, <2>2, <2>3, KnowsRests
  <1>5. QED  BY <1>3, <1>4

\* The connection of an unspoilt page is closed only when nothing is on the way.
LEMMA SocketKnows ==
    ASSUME TypeInv, TableInv, [Next]_vars, NEW b \in Boards,
           Render(b) \/ Disconnect(b) \/ \E p \in Pods : Connect(b, p),
           spoilt'[b] = {}, NEW i \in Issues, Knows(b, i)
    PROVE  Knows(b, i)'
  <1>1. UNCHANGED requestVars
    BY DEF Render, Disconnect, Connect
  <1>2. queue'[b] = queue[b]
    BY DEF Render, Disconnect, Connect, Spoil, socketVars, TypeInv, TypeOK
  <1>3. PageRests(b)
    BY <1>2 DEF Render, Disconnect, Connect, serverVars, fetchVars, pageVars, PageRests
  <1>4. Dropping(b, i) => Dropping(b, i)'
    BY <1>1 DEF Dropping, DropsOn, requestVars
  <1>5. QED  BY <1>3, <1>4, RestKnows

LEMMA KnowsStep == TypeInv /\ SyncInv /\ [Next]_vars => KnowsInv'
  <1> SUFFICES ASSUME TypeInv, SyncInv, [Next]_vars, NEW b \in Boards, spoilt'[b] = {},
                      NEW i \in Issues
               PROVE  Knows(b, i)'
    BY DEF KnowsInv
  <1>0. spoilt[b] = {} /\ TableInv /\ PublishedInv /\ EventsInv /\ LatestInv /\ SnapInv
    BY SpoiltGrows DEF SyncInv
  <1>1. Knows(b, i)
    BY <1>0 DEF SyncInv, KnowsInv
  <1>2. ASSUME NEW r \in Requests, Publish(r) PROVE Knows(b, i)'
    BY <1>0, <1>1, <1>2, PublishKnows
  <1>3. ASSUME NEW r \in Requests, Answer(r) PROVE Knows(b, i)'
    BY <1>0, <1>1, <1>3, AnswerKnows
  <1>4. ASSUME NEW r \in Requests,
               \/ Load(r) \/ CommitCreate(r) \/ CommitUpdate(r) \/ CommitDelete(r) \/ Reload(r)
               \/ Fail(r) \/ \E j \in Job : Ask(r, j)
        PROVE  Knows(b, i)'
    BY <1>0, <1>1, <1>4, RequestRests, RestKnows
  <1>5. ASSUME NEW c \in Boards, c # b, PageStep(c) PROVE Knows(b, i)'
    BY <1>0, <1>1, <1>5, OthersRest, RestKnows
  <1>6. CASE FetchStep(b)
    BY <1>0, <1>1, <1>6, FetchKnows
  <1>7. CASE Receive(b)
    BY <1>0, <1>1, <1>7, ReceiveKnows
  <1>8. CASE Render(b) \/ Disconnect(b) \/ \E p \in Pods : Connect(b, p)
    BY <1>0, <1>1, <1>8, SocketKnows
  <1>9. ASSUME NEW r \in Requests, NEW n \in Issues, NEW from \in STATUSES, NEW to \in STATUSES,
               Drop(b, r, n, from, to)
        PROVE  Knows(b, i)'
    BY <1>0, <1>1, <1>9, DropKnows
  <1>10. CASE UNCHANGED vars
    <2>1. PageRests(b) /\ (Dropping(b, i) => Dropping(b, i)')
      BY <1>10 DEF vars, PageRests, Dropping, DropsOn, serverVars, requestVars, fetchVars,
                   socketVars, pageVars
    <2>2. QED  BY <1>0, <1>1, <2>1, RestKnows
  <1>11. QED
    BY <1>2, <1>3, <1>4, <1>5, <1>6, <1>7, <1>8, <1>9, <1>10 DEF Next, RequestStep, PageStep

LEMMA SyncStep == TypeInv /\ SyncInv /\ [Next]_vars => SyncInv'
  <1> SUFFICES ASSUME TypeInv, SyncInv, [Next]_vars PROVE SyncInv'
    OBVIOUS
  <1>1. TableInv' /\ PublishedInv'
    BY TableStep, PublishedStep DEF SyncInv
  <1>2. EventsInv' /\ LatestInv' /\ SnapInv'
    BY EventsStep, LatestStep, SnapStep DEF SyncInv
  <1>3. KnowsInv'
    BY KnowsStep
  <1>4. QED  BY <1>1, <1>2, <1>3 DEF SyncInv

LEMMA SyncInit == Init => SyncInv
  <1> SUFFICES ASSUME Init PROVE SyncInv
    OBVIOUS
  <1>1. TableInv
    BY TableInit
  <1>2. issues \in [Issues -> Issue]
    BY TypeInit DEF TypeInv, TypeOK
  <1>3. PublishedInv
    <2>1. \A i \in Issues : published[i] = issues[i].ver
      BY DEF Init
    <2>2. \A i \in Issues : issues[i].ver \in Nat
      BY <1>2 DEF Issue
    <2>3. ASSUME NEW i \in Issues
          PROVE  published[i] <= issues[i].ver /\ published[i] = issues[i].ver
      <3>1. \A n \in Nat : n <= n
        OBVIOUS
      <3>2. QED  BY <2>1, <2>2, <3>1
    <2>4. QED  BY <2>3 DEF PublishedInv
  <1>4. \A b \in Boards : DOMAIN queue[b] = {} /\ fetch[b] = "none"
    BY DEF Init
  <1>5. EventsInv /\ LatestInv /\ SnapInv /\ KnowsInv
    BY <1>4 DEF EventsInv, LatestInv, SnapInv, KnowsInv, Knows
  <1>6. QED  BY <1>1, <1>3, <1>5 DEF SyncInv

LEMMA SyncAgrees == TypeInv /\ SyncInv => Agreement
  <1> SUFFICES ASSUME TypeInv, SyncInv, NEW b \in Boards, Settled(b), spoilt[b] = {}
               PROVE  Agrees(b)
    BY DEF Agreement
  <1>1. fetch[b] = "shown" /\ queue[b] = << >> /\ \A r \in Requests : pc[r] \in {"idle", "done"}
    BY DEF Settled
  <1>2. ASSUME NEW i \in Issues PROVE Shows(b, i, issues[i].status)
    <2>1. ~Coming(b, i) /\ ~Dropping(b, i) /\ ~Pending(i)
      BY <1>1 DEF Coming, Dropping, DropsOn, Pending
    <2>2. published[i] = issues[i].ver
      BY <2>1 DEF SyncInv, PublishedInv, AllSpoilt
    <2>3. seen[b][i] >= published[i] /\ ShowsNoNewer(b, i)
      BY <1>1, <2>1 DEF SyncInv, KnowsInv, Knows
    <2>4. seen[b][i] \in Nat /\ issues[i].ver \in Nat
      BY TableTypes DEF TypeInv, TypeOK
    <2>5. seen[b][i] = issues[i].ver
      BY <2>2, <2>3, <2>4 DEF ShowsNoNewer
    <2>6. QED  BY <2>3, <2>5 DEF ShowsNoNewer
  <1>3. \A s \in STATUSES : columns[b][s] \subseteq Issues
    BY DEF TypeInv, TypeOK, Columns
  <1>4. QED  BY <1>2, <1>3 DEF Agrees, Shows

\* A page on which nothing is pending shows what the table holds, unless one of
\* the steps that `spoilt` notes has happened to it: however fetches, events,
\* answers, drops and the requests of others interleave, nothing else leaves a
\* page wrong for good.
THEOREM PagesAgree == Spec => []Agreement
  <1>1. Spec => [](TypeInv /\ SyncInv)
    BY TypeInit, TypeStep, SyncInit, SyncStep, PTL DEF Spec
  <1>2. QED  BY <1>1, SyncAgrees, PTL
===============================================================================
