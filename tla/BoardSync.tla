------------------------------- MODULE BoardSync -------------------------------
(***************************************************************************)
(* Boards in browsers (apps/web/.../[projectId]/page.tsx and the dialogs    *)
(* it opens) that follow the issues of one project through a fetch, a      *)
(* WebSocket and the answers to their own requests.                        *)
(*                                                                         *)
(* Of the API the module keeps what the boards can tell apart: a request   *)
(* loads, commits, reloads, publishes and answers, as in IssueTracker, and *)
(* a published event reaches the open sockets of its pod in order, as Hub  *)
(* shows, unless a buffer is full.  Of an issue it keeps the status, which *)
(* is its column, and counts the commits.                                  *)
(*                                                                         *)
(* A board that is not what the tables say is no error of a single step.   *)
(* The history variable `spoilt` notes each step that may make it so for   *)
(* good; Agreement says that there are no others.                          *)
(***************************************************************************)
EXTENDS Integers, Sequences

CONSTANTS
    Issues,         \* issues of the project, created or not
    Boards,         \* browser tabs that show the board
    Requests,       \* requests to create, change or delete an issue
    Pods,           \* API pods, each with a hub of its own
    STATUSES,       \* the columns
    BufferSize,     \* events a socket's Send holds
    Absent,         \* the status of an issue that is not in the table
    Keep,           \* a body without a status
    Elsewhere,      \* a request none of the boards made
    None            \* no job, no pod

ASSUME StatusAssumption ==
    "todo" \in STATUSES /\ Absent \notin STATUSES /\ Keep \notin STATUSES
ASSUME BoardAssumption == Elsewhere \notin Boards
ASSUME BufferAssumption == BufferSize \in Nat \ {0}

VARIABLES
    issues,     \* the issues table; `ver` counts an issue's commits, for the history
    published,  \* history: the latest version of an issue that was broadcast
    pc, job,    \* where a request is, and what it asks
    copy,       \* its handler's variable `issue`, and the payload of its event
    failed,     \* it was answered with an error, or not at all
    columns,    \* the state of the page, with every queued update applied
    boardRef,   \* columns as last rendered
    fetch,      \* the fetch of GET /board
    snap,       \* its answer on the way
    socket,     \* the pod a board's socket is registered at, or None
    queue,      \* events on the way to the page
    seen,       \* history: the version of each issue the page applied last
    spoilt      \* history: why the page may differ from the table for good

serverVars == <<issues, published>>
requestVars == <<pc, job, copy, failed>>
fetchVars == <<fetch, snap>>
socketVars == <<socket, queue>>
pageVars == <<columns, boardRef, seen>>
vars == <<serverVars, requestVars, fetchVars, socketVars, pageVars, spoilt>>

NoIssue == [status |-> Absent, ver |-> 0]

Issue == [status : STATUSES \cup {Absent}, ver : Nat]

Job == [kind : {"create", "update", "drop", "delete"}, issue : Issues,
        status : STATUSES \cup {Keep}, by : Boards \cup {Elsewhere}]

ASSUME NoneAssumption == None \notin Pods /\ None \notin Job

Event == [issue : Issues, row : Issue]

Columns == [STATUSES -> SUBSET Issues]

noIssues == [i \in Issues |-> NoIssue]

emptyColumns == [s \in STATUSES |-> {}]

Init ==
    /\ issues \in [Issues -> {NoIssue, [status |-> "todo", ver |-> 1]}]
    /\ published = [i \in Issues |-> issues[i].ver]
    /\ pc = [r \in Requests |-> "idle"]
    /\ job = [r \in Requests |-> None]
    /\ copy = [r \in Requests |-> NoIssue]
    /\ failed = {}
    /\ columns = [b \in Boards |-> emptyColumns]
    /\ boardRef = [b \in Boards |-> emptyColumns]
    /\ fetch = [b \in Boards |-> "none"]
    /\ snap = [b \in Boards |-> noIssues]
    /\ socket = [b \in Boards |-> None]
    /\ queue = [b \in Boards |-> << >>]
    /\ seen = [b \in Boards |-> [i \in Issues |-> 0]]
    /\ spoilt = [b \in Boards |-> {}]

Goto(r, l) == pc' = [pc EXCEPT ![r] = l]

InTable(i) == issues[i].status # Absent

Causes == {"missed", "overtaken", "late answer", "late fetch", "stale drop", "failed"}

\* The boards in bs may be wrong from now on.
Spoil(bs, why) ==
    spoilt' = [b \in Boards |-> IF b \in bs THEN spoilt[b] \cup {why} ELSE spoilt[b]]

-------------------------------------------------------------------------------
(***************************************************************************)
(* The columns                                                             *)
(***************************************************************************)

\* The new column gets the card, the old one keeps it.
UpsertOnly(cols, i, s) == [cols EXCEPT ![s] = @ \cup {i}]

upsertIssue(cols, i, s) ==
    [t \in STATUSES |-> IF t = s THEN cols[t] \cup {i} ELSE cols[t] \ {i}]

\* The id is not where the payload has it.
RemoveNothing(cols, i) == cols

removeIssue(cols, i) == [t \in STATUSES |-> cols[t] \ {i}]

\* What an event or an answer with this row does to a page.
Applied(cols, i, s) == IF s = Absent THEN removeIssue(cols, i) ELSE upsertIssue(cols, i, s)

\* The columns with the card taken out of one and put into another.
Moved(cols, i, from, to) ==
    [s \in STATUSES |-> IF s = to THEN cols[s] \cup {i}
                        ELSE IF s = from THEN cols[s] \ {i} ELSE cols[s]]

OnBoard(b) == UNION {boardRef[b][s] : s \in STATUSES}

-------------------------------------------------------------------------------
(***************************************************************************)
(* A request at the API                                                    *)
(***************************************************************************)

\* From a dialog of the page, or from elsewhere.  The dialog to create is there
\* always, the one to change or delete opens on a card, and stays open with its
\* copy of the issue when the card goes.  (`seen` also has issues whose deletion
\* the page has read; nothing comes of asking for one of those.)
Ask(r, j) ==
    /\ pc[r] = "idle" /\ j.kind # "drop"
    /\ IF j.kind = "create"
       THEN /\ issues[j.issue].ver = 0 /\ j.status = Keep
            /\ \A q \in Requests : job[q] # None => job[q].issue # j.issue
       ELSE j.by # Elsewhere => j.issue \in OnBoard(j.by) \/ seen[j.by][j.issue] > 0
    /\ j.kind = "delete" => j.status = Keep
    /\ job' = [job EXCEPT ![r] = j]
    /\ Goto(r, IF j.kind = "create" THEN "commit" ELSE "load")
    /\ UNCHANGED <<serverVars, copy, failed, fetchVars, socketVars, pageVars, spoilt>>

\* loadIssueForMember: 404 if there is no row.
Load(r) ==
    LET i == job[r].issue IN
    /\ pc[r] = "load"
    /\ IF InTable(i)
       THEN Goto(r, "commit") /\ copy' = [copy EXCEPT ![r] = issues[i]] /\ UNCHANGED failed
       ELSE Goto(r, "answer") /\ failed' = failed \cup {r} /\ UNCHANGED copy
    /\ UNCHANGED <<serverVars, job, fetchVars, socketVars, pageVars, spoilt>>

CommitCreate(r) ==
    LET row == [status |-> "todo", ver |-> 1] IN
    /\ pc[r] = "commit" /\ job[r].kind = "create"
    /\ issues' = [issues EXCEPT ![job[r].issue] = row]
    /\ copy' = [copy EXCEPT ![r] = row]
    /\ Goto(r, "publish")
    /\ UNCHANGED <<published, job, failed, fetchVars, socketVars, pageVars, spoilt>>

\* The status is written whether or not the body has one.
AlwaysSet(row, s) == [row EXCEPT !.status = s]

Patched(row, s) == [row EXCEPT !.status = IF s = Keep THEN @ ELSE s]

\* The row if there still is one, and in any case the handler's copy.
CommitUpdate(r) ==
    LET i == job[r].issue
        newer == [issues[i] EXCEPT !.ver = @ + 1]
    IN
    /\ pc[r] = "commit" /\ job[r].kind \in {"update", "drop"}
    /\ issues' = IF InTable(i) THEN [issues EXCEPT ![i] = Patched(newer, job[r].status)]
                 ELSE issues
    /\ copy' = [copy EXCEPT ![r] = Patched(@, job[r].status)]
    /\ Goto(r, "reload")
    /\ UNCHANGED <<published, job, failed, fetchVars, socketVars, pageVars, spoilt>>

CommitDelete(r) ==
    LET i == job[r].issue
        gone == [status |-> Absent, ver |-> issues[i].ver + IF InTable(i) THEN 1 ELSE 0]
    IN
    /\ pc[r] = "commit" /\ job[r].kind = "delete"
    /\ issues' = [issues EXCEPT ![i] = gone]
    /\ copy' = [copy EXCEPT ![r] = gone]
    /\ Goto(r, "publish")
    /\ UNCHANGED <<published, job, failed, fetchVars, socketVars, pageVars, spoilt>>

\* The error of the reload is ignored: an issue deleted meanwhile stays as the
\* copy has it, and a failed SELECT leaves it too.
Reload(r) ==
    LET i == job[r].issue IN
    /\ pc[r] = "reload"
    /\ \/ InTable(i) /\ copy' = [copy EXCEPT ![r] = issues[i]] /\ UNCHANGED spoilt
       \/ ~InTable(i) /\ UNCHANGED <<copy, spoilt>>
       \/ InTable(i) /\ UNCHANGED copy /\ Spoil(Boards, "failed")
    /\ Goto(r, "publish")
    /\ UNCHANGED <<serverVars, job, failed, fetchVars, socketVars, pageVars>>

\* The sockets a broadcast of the pod finds in the room.
Audience(p) == {b \in Boards : socket[b] = p}

\* Hub.Broadcast in the pod p that serves the request, which is of importance
\* only here.  Broadcasts that overlap may reach two boards in different orders;
\* what each board sees is one of the orders of this step.  A board that does not
\* get the event misses it for good if its fetch read the table before, or if
\* older events are still to reach it.
Publish(r) ==
    LET i == job[r].issue
        event == [issue |-> i, row |-> copy[r]]
    IN
    /\ pc[r] = "publish"
    /\ \E p \in Pods : \E full \in SUBSET {b \in Audience(p) : Len(queue[b]) >= BufferSize} :
          LET gets == Audience(p) \ full
              misses == {b \in Boards \ gets : fetch[b] # "none" \/ queue[b] # << >>}
          IN
          /\ queue' = [b \in Boards |-> IF b \in gets THEN Append(queue[b], event) ELSE queue[b]]
          /\ spoilt' = [b \in Boards |-> spoilt[b]
                           \cup (IF b \in misses THEN {"missed"} ELSE {})
                           \cup (IF b \in gets /\ copy[r].ver < published[i]
                                 THEN {"overtaken"} ELSE {})]
    /\ published' = [published EXCEPT ![i] = IF copy[r].ver > @ THEN copy[r].ver ELSE @]
    /\ Goto(r, "answer")
    /\ UNCHANGED <<issues, job, copy, failed, fetchVars, socket, pageVars>>

\* A statement fails, the pod dies or the answer is lost.  A commit that was
\* made stays, its event is never sent.
Fail(r) ==
    /\ pc[r] \in {"load", "commit", "reload", "publish"} \/ (pc[r] = "answer" /\ r \notin failed)
    /\ failed' = failed \cup {r}
    /\ Goto(r, "answer")
    /\ IF pc[r] \in {"reload", "publish"}
       THEN Spoil(Boards, "missed") ELSE UNCHANGED spoilt
    /\ UNCHANGED <<serverVars, job, copy, fetchVars, socketVars, pageVars>>

-------------------------------------------------------------------------------
(***************************************************************************)
(* A page                                                                  *)
(***************************************************************************)

\* The page applies a row, from an event or an answer.
Show(b, i, row) ==
    /\ columns' = [columns EXCEPT ![b] = Applied(@, i, row.status)]
    /\ seen' = [seen EXCEPT ![b][i] = row.ver]
    /\ UNCHANGED boardRef

\* The promise of the request settles.  The dialogs to create and to change
\* apply the row of the answer; the one to delete takes the card away whether
\* or not the call failed; a drop ignores the answer and the error.
Answer(r) ==
    LET b == job[r].by
        i == job[r].issue
    IN
    /\ pc[r] = "answer"
    /\ Goto(r, "done")
    /\ job' = [job EXCEPT ![r] = None]
    /\ copy' = [copy EXCEPT ![r] = NoIssue]
    /\ failed' = failed \ {r}
    /\ \/ /\ b = Elsewhere \/ (job[r].kind \in {"create", "update"} /\ r \in failed)
          /\ UNCHANGED <<pageVars, spoilt>>
       \/ /\ b # Elsewhere /\ job[r].kind \in {"create", "update"} /\ r \notin failed
          /\ Show(b, i, copy[r])
          /\ Spoil({c \in {b} : copy[r].ver < seen[b][i]}, "late answer")
       \/ /\ b # Elsewhere /\ job[r].kind = "delete"
          /\ columns' = [columns EXCEPT ![b] = removeIssue(@, i)]
          /\ Spoil({c \in {b} : r \in failed}, "failed")
          /\ UNCHANGED <<boardRef, seen>>
       \/ /\ b # Elsewhere /\ job[r].kind = "drop"
          /\ Spoil({c \in {b} : r \in failed}, "failed")
          /\ UNCHANGED pageVars
    /\ UNCHANGED <<serverVars, fetchVars, socketVars>>

\* GetBoard reads the table; it ignores an error of the SELECT and answers with
\* empty columns.
Fetch(b) ==
    /\ fetch[b] = "none"
    /\ fetch' = [fetch EXCEPT ![b] = "asked"]
    /\ \/ snap' = [snap EXCEPT ![b] = issues] /\ UNCHANGED spoilt
       \/ snap' = [snap EXCEPT ![b] = noIssues] /\ Spoil({b}, "failed")
    /\ UNCHANGED <<serverVars, requestVars, socketVars, pageVars>>

\* setColumns with the answer, whatever the page had learnt meanwhile.
ShowFetch(b) ==
    /\ fetch[b] = "asked"
    /\ fetch' = [fetch EXCEPT ![b] = "shown"]
    /\ columns' = [columns EXCEPT ![b] = [s \in STATUSES |-> {i \in Issues : snap[b][i].status = s}]]
    /\ seen' = [seen EXCEPT ![b] = [i \in Issues |-> snap[b][i].ver]]
    /\ Spoil({c \in {b} : \E i \in Issues : seen[b][i] > snap[b][i].ver}, "late fetch")
    /\ snap' = [snap EXCEPT ![b] = noIssues]
    /\ UNCHANGED <<serverVars, requestVars, socketVars, boardRef>>

FetchFails(b) ==
    /\ fetch[b] \in {"none", "asked"}
    /\ fetch' = [fetch EXCEPT ![b] = "failed"]
    /\ Spoil({b}, "failed")
    /\ snap' = [snap EXCEPT ![b] = noIssues]
    /\ UNCHANGED <<serverVars, requestVars, socketVars, pageVars>>

\* new WebSocket, up to Register in some pod.
Connect(b, p) ==
    /\ socket[b] = None
    /\ socket' = [socket EXCEPT ![b] = p]
    /\ UNCHANGED <<serverVars, requestVars, fetchVars, queue, pageVars, spoilt>>

\* The connection breaks, or a new token closes it; with it goes what it still
\* held.  Only a new token makes the page connect again.
Disconnect(b) ==
    /\ socket[b] # None
    /\ socket' = [socket EXCEPT ![b] = None]
    /\ queue' = [queue EXCEPT ![b] = << >>]
    /\ Spoil({c \in {b} : queue[b] # << >>}, "missed")
    /\ UNCHANGED <<serverVars, requestVars, fetchVars, pageVars>>

\* onmessage.
Receive(b) ==
    /\ queue[b] # << >>
    /\ Show(b, Head(queue[b]).issue, Head(queue[b]).row)
    /\ queue' = [queue EXCEPT ![b] = Tail(@)]
    /\ UNCHANGED <<serverVars, requestVars, fetchVars, socket, spoilt>>

Render(b) ==
    /\ boardRef[b] # columns[b]
    /\ boardRef' = [boardRef EXCEPT ![b] = columns[b]]
    /\ UNCHANGED <<serverVars, requestVars, fetchVars, socketVars, columns, seen, spoilt>>

\* onDrop: new columns out of the rendered ones, and a PATCH.  What was queued
\* after that rendering is overwritten.
Drop(b, r, i, from, to) ==
    /\ fetch[b] \in {"shown", "failed"}
    /\ i \in boardRef[b][from]
    /\ columns' = [columns EXCEPT ![b] = Moved(boardRef[b], i, from, to)]
    /\ Spoil({c \in {b} : boardRef[b] # columns[b]}, "stale drop")
    /\ pc[r] = "idle"
    /\ job' = [job EXCEPT ![r] = [kind |-> "drop", issue |-> i, status |-> to, by |-> b]]
    /\ Goto(r, "load")
    /\ UNCHANGED <<serverVars, copy, failed, fetchVars, socketVars, boardRef, seen>>

-------------------------------------------------------------------------------

RequestStep(r) ==
    \/ Load(r) \/ CommitCreate(r) \/ CommitUpdate(r) \/ CommitDelete(r)
    \/ Reload(r) \/ Publish(r) \/ Answer(r)

FetchStep(b) == Fetch(b) \/ ShowFetch(b) \/ FetchFails(b)

PageStep(b) ==
    \/ FetchStep(b) \/ Receive(b) \/ Render(b) \/ Disconnect(b)
    \/ \E p \in Pods : Connect(b, p)
    \/ \E r \in Requests, i \in Issues, from \in STATUSES, to \in STATUSES :
          Drop(b, r, i, from, to)

Next ==
    \/ \E r \in Requests : RequestStep(r) \/ Fail(r) \/ \E j \in Job : Ask(r, j)
    \/ \E b \in Boards : PageStep(b)

\* Goroutines run, answers and events arrive or fail, the browser handles them.
Fairness ==
    /\ \A r \in Requests : WF_vars(RequestStep(r))
    /\ \A b \in Boards : WF_vars(FetchStep(b)) /\ WF_vars(Receive(b))

Spec == Init /\ [][Next]_vars /\ Fairness

-------------------------------------------------------------------------------
(***************************************************************************)
(* Properties                                                              *)
(***************************************************************************)

TypeOK ==
    /\ issues \in [Issues -> Issue]
    /\ published \in [Issues -> Nat]
    /\ pc \in [Requests -> {"idle", "load", "commit", "reload", "publish", "answer", "done"}]
    /\ job \in [Requests -> Job \cup {None}]
    /\ copy \in [Requests -> Issue]
    /\ failed \subseteq Requests
    /\ columns \in [Boards -> Columns]
    /\ boardRef \in [Boards -> Columns]
    /\ fetch \in [Boards -> {"none", "asked", "shown", "failed"}]
    /\ snap \in [Boards -> [Issues -> Issue]]
    /\ socket \in [Boards -> Pods \cup {None}]
    /\ queue \in [Boards -> Seq(Event)]
    /\ seen \in [Boards -> [Issues -> Nat]]
    /\ spoilt \in [Boards -> SUBSET Causes]

\* A page never shows a card twice, though moves, events, answers and the fetch
\* each rebuild the columns, and a move out of columns that are no longer current.
OneColumn ==
    \A b \in Boards, i \in Issues, s, t \in STATUSES :
        \/ s = t
        \/ i \notin columns[b][s] \cap columns[b][t] /\ i \notin boardRef[b][s] \cap boardRef[b][t]

\* Nothing is on the way to the page: no request, no event, no fetch.
Settled(b) ==
    /\ \A r \in Requests : pc[r] \in {"idle", "done"}
    /\ queue[b] = << >>
    /\ fetch[b] = "shown"

\* The page shows the issues of the table, each in the column of its status.
Agrees(b) == \A s \in STATUSES : columns[b][s] = {i \in Issues : issues[i].status = s}

\* A page on which nothing is pending shows what the table holds, unless it
\* missed an event, got one that a newer one had overtaken, applied an answer or
\* a fetch older than what it had, moved a card on stale columns, or a call
\* failed.  Nothing else leaves a page wrong for good.
Agreement == \A b \in Boards : Settled(b) /\ spoilt[b] = {} => Agrees(b)

\* A page that nothing has spoilt is right again and again, however requests
\* keep it busy.
CatchesUp == \A b \in Boards : []<>(spoilt[b] # {} \/ Agrees(b))

-------------------------------------------------------------------------------
(***************************************************************************)
(* What the documentation says, and the code does not do                   *)
(***************************************************************************)

\* "Drag a card between columns; open another browser tab to see it sync live"
\* (docs/GETTING_STARTED.md:195): a page that missed no event, and all of whose
\* calls and others' succeeded, shows what the table holds.
SyncsLive ==
    \A b \in Boards : Settled(b) /\ spoilt[b] \cap {"missed", "failed"} = {} => Agrees(b)
===============================================================================
