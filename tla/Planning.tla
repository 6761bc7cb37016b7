------------------------------- MODULE Planning -------------------------------
(***************************************************************************)
(* The backlog, the sprint and the dashboard page of a project             *)
(* (apps/web/app/(app)/projects/[projectId]) over the tables of issues and *)
(* sprints.  No page has a socket: it loads once, changes its copy along   *)
(* with what it asks of the API, and hears of nothing else.                *)
(*                                                                         *)
(* A handler is one step here, but for the completion of a sprint;         *)
(* IssueTracker takes them apart.  A page is followed from when it is      *)
(* opened until it is left.  A list is the set of its entries, without     *)
(* their order; an entry notes whether there is one for the same item      *)
(* before it.  The history variables are `stale`, what a page may show     *)
(* wrong, `since`, what has changed since the answer to a page or a        *)
(* request was read, and `crossed`, what a page created while it was       *)
(* loading and has from both its load and the answer, or from neither.     *)
(***************************************************************************)
EXTENDS Integers, FiniteSets

CONSTANTS
    Issues, Sprints,
    Statuses,           \* of an issue
    Backlogs, SprintPages, Dashboards,
    OpenSets,           \* bound: the sets of pages that are open together
    Requests,           \* what the pages ask after they are loaded, once each
    None                \* no row, no sprint, no page, no answer

ASSUME StatusAssumption == {"todo", "done"} \subseteq Statuses
ASSUME ItemAssumption == Issues \cap Sprints = {}
ASSUME PageAssumption ==
    /\ Backlogs \cap SprintPages = {}
    /\ (Backlogs \cup SprintPages) \cap Dashboards = {}
    /\ (Backlogs \cup SprintPages \cup Dashboards) \cap Requests = {}
    /\ OpenSets \subseteq SUBSET (Backlogs \cup SprintPages \cup Dashboards)

Pages == Backlogs \cup SprintPages \cup Dashboards
Items == Issues \cup Sprints
SprintStatuses == {"planned", "active", "completed"}

Row == [status : Statuses, sprint : Sprints \cup {None}]

ASSUME NoneAssumption ==
    None \notin UNION {Issues, Sprints, Statuses, SprintStatuses, Pages, Requests, Row}

VARIABLES
    issue, sprint,      \* the tables: a row, or None
    open,               \* the pages that are open
    toRead,             \* the tables a page has asked for and nobody has read
    loading,            \* a page shows its skeletons
    reply,              \* what was read for a page, entries of both tables
    list,               \* what a page shows: its copies of both tables
    pc,                 \* where a request is
    job,                \* what it asks, and the page it is of
    got,                \* the status in its answer
    back,               \* the issues fetched again after a completion
    swept,              \* the rows an open completion has cleared and keeps locked
    stale, since, crossed

tables == <<issue, sprint>>
loadVars == <<open, toRead, loading, reply>>
requestVars == <<pc, job, got, back, swept>>
vars == <<tables, loadVars, list, requestVars, stale, since, crossed>>

Entry ==
    [id : Issues, status : Statuses, sprint : Sprints \cup {None}, double : BOOLEAN]
        \cup [id : Sprints, status : SprintStatuses, sprint : {None}, double : BOOLEAN]

Job == [kind : {"", "create", "start", "complete", "assign", "status"},
        page : Pages \cup {None}, item : Items \cup {None},
        to : Sprints \cup Statuses \cup {None}]

NoJob == [kind |-> "", page |-> None, item |-> None, to |-> None]

Tables(p) == IF p \in Dashboards THEN {"issues"} ELSE {"issues", "sprints"}

ItemsOf(t) == IF t = "issues" THEN Issues ELSE Sprints

\* The pages open on any tables the API can bring about.
Init ==
    /\ sprint \in [Sprints -> SprintStatuses \cup {None}]
    /\ issue \in [Issues -> Row \cup {None}]
    /\ \A i \in Issues : issue[i] # None /\ issue[i].sprint # None => sprint[issue[i].sprint] # None
    /\ open \in OpenSets
    /\ toRead = [p \in Pages |-> IF p \in open THEN Tables(p) ELSE {}]
    /\ loading = [p \in Pages |-> p \in open]
    /\ reply = [p \in Pages |-> {}]
    /\ list = [p \in Pages |-> {}]
    /\ pc = [r \in Requests |-> "idle"]
    /\ job = [r \in Requests |-> NoJob]
    /\ got = [r \in Requests |-> None]
    /\ back = [r \in Requests |-> {}]
    /\ swept = [r \in Requests |-> {}]
    /\ stale = [p \in Pages |-> {}]
    /\ since = [x \in Pages \cup Requests |-> {}]
    /\ crossed = [p \in Pages |-> {}]

-------------------------------------------------------------------------------
(***************************************************************************)
(* The tables                                                              *)
(***************************************************************************)

NewEntry(x, status, sp, double) == [id |-> x, status |-> status, sprint |-> sp, double |-> double]

\* ListIssues and ListSprints.
ListOf(t) ==
    IF t = "issues"
    THEN {NewEntry(i, issue[i].status, issue[i].sprint, FALSE) : i \in {j \in Issues : issue[j] # None}}
    ELSE {NewEntry(s, sprint[s], None, FALSE) : s \in {z \in Sprints : sprint[z] # None}}

\* What was read for a page or a request before it was changed.
Outdated(x, items) ==
    IF x \in Pages THEN {i \in items : loading[x] /\ \E t \in Tables(x) \ toRead[x] : i \in ItemsOf(t)}
    ELSE IF pc[x] \in {"closing", "answered"} THEN items
    ELSE IF pc[x] = "fetched" THEN items \cap Issues
    ELSE {}

\* Items were changed on behalf of a page.  Every other page has old copies, and
\* a list that is on its way to one is old.
Spread(items, by) == [p \in Pages |-> IF p = by THEN stale[p] ELSE stale[p] \cup items]
Noted(items, by) ==
    [x \in Pages \cup Requests |-> IF x = by THEN since[x] ELSE since[x] \cup Outdated(x, items)]

Changed(items, by) == stale' = Spread(items, by) /\ since' = Noted(items, by)

\* The issues CompleteSprint sends back to the backlog.
Unfinished(s) ==
    {i \in Issues : issue[i] # None /\ issue[i].sprint = s /\ issue[i].status # "done"}

\* No completion has the row of issue i locked.
RowFree(i) == \A r \in Requests : i \notin swept[r]

Goto(r, l) == pc' = [pc EXCEPT ![r] = l]

\* The promise of a request settles.
Over(r) ==
    /\ Goto(r, "over")
    /\ job' = [job EXCEPT ![r] = NoJob]
    /\ got' = [got EXCEPT ![r] = None]
    /\ back' = [back EXCEPT ![r] = {}]
    /\ swept' = [swept EXCEPT ![r] = {}]

InFlight(r) == pc[r] \in {"sent", "closing", "answered", "fetching", "fetched"}

-------------------------------------------------------------------------------
(***************************************************************************)
(* Opening a page                                                          *)
(***************************************************************************)

\* Promise.all of the GETs: the tables are read one by one, in any order.
Read(p, t) ==
    /\ t \in toRead[p]
    /\ toRead' = [toRead EXCEPT ![p] = @ \ {t}]
    /\ reply' = [reply EXCEPT ![p] = @ \cup ListOf(t)]
    /\ UNCHANGED <<tables, open, loading, list, requestVars, stale, since, crossed>>

Ids(entries) == {e.id : e \in entries}

\* Creations of a page whose answers are still to come.
Awaited(p) ==
    {job[r].item : r \in {q \in Requests :
        pc[q] = "answered" /\ job[q].kind = "create" /\ job[q].page = p}}

\* setIssues and setSprints put what was read in the place of what is there:
\* what the page has created itself is gone if it was not read, and comes twice
\* if it was and its answer is still to come.
Load(p) ==
    /\ loading[p] /\ toRead[p] = {}
    /\ list' = [list EXCEPT ![p] = reply[p]]
    /\ loading' = [loading EXCEPT ![p] = FALSE]
    /\ reply' = [reply EXCEPT ![p] = {}]
    /\ stale' = [stale EXCEPT ![p] = since[p]]
    /\ since' = [since EXCEPT ![p] = {}]
    /\ crossed' = [crossed EXCEPT ![p] =
           (Ids(list[p]) \ Ids(reply[p])) \cup (Awaited(p) \cap Ids(reply[p]))]
    /\ UNCHANGED <<tables, open, toRead, requestVars>>

\* One of them fails: the page shows empty lists, and no error.
LoadFails(p) ==
    /\ loading[p]
    /\ loading' = [loading EXCEPT ![p] = FALSE]
    /\ toRead' = [toRead EXCEPT ![p] = {}]
    /\ reply' = [reply EXCEPT ![p] = {}]
    /\ stale' = [stale EXCEPT ![p] = Items]
    /\ since' = [since EXCEPT ![p] = {}]
    /\ UNCHANGED <<tables, open, list, requestVars, crossed>>

-------------------------------------------------------------------------------
(***************************************************************************)
(* What the pages offer                                                    *)
(***************************************************************************)

\* Requests of a page that are under way and about the same item.
Others(r, p, item) == {q \in Requests \ {r} : InFlight(q) /\ job[q].page = p /\ job[q].item = item}

Send(r, kind, p, item, to) ==
    /\ pc[r] = "idle"
    /\ Goto(r, "sent")
    /\ job' = [job EXCEPT ![r] = [kind |-> kind, page |-> p, item |-> item, to |-> to]]
    /\ UNCHANGED <<tables, loadVars, got, back, swept, since, crossed>>

\* The button of the form stays enabled.
NeverSaving(p) == FALSE

Saving(p) == \E r \in Requests : InFlight(r) /\ job[r].page = p /\ job[r].kind = "create"

\* "New issue" and "New sprint" are there while the page loads; the button of
\* the form is disabled while its answer is out.
Submit(r, p) ==
    /\ p \in open \ Dashboards /\ ~Saving(p)
    /\ Send(r, "create", p, None, None)
    /\ UNCHANGED <<list, stale>>

\* A sprint that is not active.
NotActive(e) == e.status # "active"

\* "Start" is offered for the sprints the page shows as planned.
Startable(e) == e.status = "planned"

\* start and complete wait for the answer; their buttons stay enabled.
AskSprint(r, p, kind, e) ==
    /\ p \in SprintPages /\ ~loading[p] /\ e \in list[p] /\ e.id \in Sprints
    /\ Send(r, kind, p, e.id, None)
    /\ stale' = [stale EXCEPT ![p] = @ \cup {s \in {e.id} : Others(r, p, s) # {}}]
    /\ UNCHANGED list

Start(r, p, e) == Startable(e) /\ AskSprint(r, p, "start", e)

Complete(r, p, e) == e.status = "active" /\ AskSprint(r, p, "complete", e)

\* Every entry of an issue or sprint is changed alike.
WithStatus(entries, i, to) == {IF e.id = i THEN [e EXCEPT !.status = to] ELSE e : e \in entries}
WithSprint(entries, i, to) == {IF e.id = i THEN [e EXCEPT !.sprint = to] ELSE e : e \in entries}

\* The list shows the issues without a sprint.
InBacklog(p, i) == \E e \in list[p] : e.id = i /\ e.sprint = None

Patch(r, p, kind, i, to) ==
    /\ p \in Backlogs /\ ~loading[p] /\ InBacklog(p, i)
    /\ Send(r, kind, p, i, to)
    /\ stale' = [stale EXCEPT ![p] =
           @ \cup {j \in {i} : \E q \in Others(r, p, j) : job[q].kind = kind}]

ChangeStatus(r, p, i, to) ==
    /\ Patch(r, p, "status", i, to)
    /\ list' = [list EXCEPT ![p] = WithStatus(@, i, to)]

\* Any sprint of the list.
AnySprint(e) == e.id \in Sprints

\* The options are the sprints that were not completed when the page was loaded.
Assignable(e) == e.id \in Sprints /\ e.status # "completed"

AssignSprint(r, p, i, s) ==
    /\ \E e \in list[p] : e.id = s /\ Assignable(e)
    /\ Patch(r, p, "assign", i, s)
    /\ list' = [list EXCEPT ![p] = WithSprint(@, i, s)]

-------------------------------------------------------------------------------
(***************************************************************************)
(* The API                                                                 *)
(***************************************************************************)

\* A request is answered with a status, after `items` were changed for it.  The
\* answer may be wrong about some.
Answered(r, status, items, wrong) ==
    /\ Goto(r, "answered")
    /\ got' = [got EXCEPT ![r] = status]
    /\ stale' = Spread(items, job[r].page)
    /\ since' = [Noted(items, job[r].page) EXCEPT ![r] = wrong]
    /\ UNCHANGED <<loadVars, list, back, crossed>>

\* CreateIssue, to the project's backlog, and CreateSprint.
InsertIssue(r, i) ==
    /\ pc[r] = "sent" /\ job[r].kind = "create" /\ job[r].page \in Backlogs
    /\ issue[i] = None
    /\ issue' = [issue EXCEPT ![i] = [status |-> "todo", sprint |-> None]]
    /\ job' = [job EXCEPT ![r].item = i]
    /\ Answered(r, "todo", {i}, {})
    /\ UNCHANGED <<sprint, swept>>

InsertSprint(r, s) ==
    /\ pc[r] = "sent" /\ job[r].kind = "create" /\ job[r].page \in SprintPages
    /\ sprint[s] = None
    /\ sprint' = [sprint EXCEPT ![s] = "planned"]
    /\ job' = [job EXCEPT ![r].item = s]
    /\ Answered(r, "planned", {s}, {})
    /\ UNCHANGED <<issue, swept>>

\* StartSprint asks neither for the status nor whether the UPDATE succeeded; the
\* answer is the row as it is then.  If the SELECT fails as well, it is the copy
\* to which gorm has assigned the new status.
StartSprint(r) ==
    LET s == job[r].item IN
    /\ pc[r] = "sent" /\ job[r].kind = "start"
    /\ \/ /\ sprint' = [sprint EXCEPT ![s] = "active"]
          /\ Answered(r, "active", {s}, {})
       \/ /\ UNCHANGED sprint
          /\ Answered(r, sprint[s], {}, {})
       \/ /\ UNCHANGED sprint
          /\ Answered(r, "active", {}, {s})
    /\ UNCHANGED <<issue, job, swept>>

\* CompleteSprint: the UPDATE that sends issues back to the backlog, which is not
\* committed yet.
Sweep(r) ==
    LET rows == Unfinished(job[r].item) IN
    /\ pc[r] = "sent" /\ job[r].kind = "complete"
    /\ \A i \in rows : RowFree(i)
    /\ swept' = [swept EXCEPT ![r] = rows]
    /\ Goto(r, "closing")
    /\ UNCHANGED <<tables, loadVars, list, job, got, back, stale, since, crossed>>

\* The UPDATE of the sprint, and the commit of both.
Close(r) ==
    LET s == job[r].item IN
    /\ pc[r] = "closing"
    /\ sprint' = [sprint EXCEPT ![s] = "completed"]
    /\ issue' = [i \in Issues |-> IF i \in swept[r] THEN [issue[i] EXCEPT !.sprint = None]
                                  ELSE issue[i]]
    /\ swept' = [swept EXCEPT ![r] = {}]
    /\ Answered(r, "completed", {s} \cup swept[r], {})
    /\ UNCHANGED job

\* UpdateIssue with one field.  Nothing asks what became of the sprint, and
\* nobody looks at the answer.
UpdateIssue(r) ==
    LET i == job[r].item IN
    /\ pc[r] = "sent" /\ RowFree(i)
    /\ \/ /\ job[r].kind = "status"
          /\ issue' = [issue EXCEPT ![i].status = job[r].to]
       \/ /\ job[r].kind = "assign"
          /\ issue' = [issue EXCEPT ![i].sprint = job[r].to]
    /\ Over(r)
    /\ Changed({i}, job[r].page)
    /\ UNCHANGED <<sprint, loadVars, list, crossed>>

\* The request is lost, or rolled back and answered with an error.  A patch was
\* shown already.
Fail(r) ==
    /\ pc[r] \in {"sent", "closing"}
    /\ Over(r)
    /\ stale' = [stale EXCEPT ![job[r].page] =
           @ \cup {i \in Issues : job[r].kind \in {"status", "assign"} /\ job[r].item = i}]
    /\ since' = [since EXCEPT ![r] = {}]
    /\ UNCHANGED <<tables, loadVars, list, crossed>>

\* A card is dragged on the board.
Drag(i, to) ==
    /\ issue[i] # None /\ issue[i].status # to /\ RowFree(i)
    /\ issue' = [issue EXCEPT ![i].status = to]
    /\ Changed({i}, None)
    /\ UNCHANGED <<sprint, loadVars, list, requestVars, crossed>>

-------------------------------------------------------------------------------
(***************************************************************************)
(* Answers                                                                 *)
(***************************************************************************)

\* What the page may show wrong once an answer about items has come: what was
\* changed since it was read, or is asked for again.
Told(r, items) ==
    LET p == job[r].page IN
    /\ stale' = [stale EXCEPT ![p] =
           (@ \ items) \cup (since[r] \cap items) \cup {i \in items : Others(r, p, i) # {}}]
    /\ since' = [since EXCEPT ![r] = {}]

\* The created issue or sprint joins the list, whatever is there.
Created(r) ==
    LET p == job[r].page
        x == job[r].item IN
    /\ pc[r] = "answered" /\ job[r].kind = "create"
    /\ list' = [list EXCEPT ![p] = @ \cup {NewEntry(x, got[r], None, \E e \in @ : e.id = x)}]
    /\ stale' = [stale EXCEPT ![p] = @ \cup since[r] \cup {i \in {x} : Others(r, p, i) # {}}]
    /\ since' = [since EXCEPT ![r] = {}]
    /\ Over(r)
    /\ UNCHANGED <<tables, loadVars, crossed>>

\* The answer is thrown away.
Ignored(entries, s, status) == entries

\* prev.map: the answer takes the place of the sprint.
Replaced(entries, s, status) == WithStatus(entries, s, status)

\* The answer to start or complete.  After a completion the issues are fetched
\* once more.
SprintTold(r) ==
    LET p == job[r].page
        s == job[r].item IN
    /\ pc[r] = "answered" /\ job[r].kind \in {"start", "complete"}
    /\ list' = [list EXCEPT ![p] = Replaced(@, s, got[r])]
    /\ Told(r, {s})
    /\ \/ job[r].kind = "start" /\ Over(r)
       \/ job[r].kind = "complete" /\ Goto(r, "fetching") /\ UNCHANGED <<job, got, back, swept>>
    /\ UNCHANGED <<tables, loadVars, crossed>>

FetchAgain(r) ==
    /\ pc[r] = "fetching"
    /\ Goto(r, "fetched")
    /\ back' = [back EXCEPT ![r] = ListOf("issues")]
    /\ UNCHANGED <<tables, loadVars, list, job, got, swept, stale, since, crossed>>

IssuesTold(r) ==
    LET p == job[r].page IN
    /\ pc[r] = "fetched"
    /\ list' = [list EXCEPT ![p] = {e \in @ : e.id \in Sprints} \cup back[r]]
    /\ Told(r, Issues)
    /\ Over(r)
    /\ UNCHANGED <<tables, loadVars, crossed>>

\* An answer is lost, or the second fetch fails: the page goes on with what it
\* has, though the API has done what it was asked.
Lost(r) ==
    /\ pc[r] \in {"answered", "fetching", "fetched"}
    /\ Over(r)
    /\ stale' = [stale EXCEPT ![job[r].page] =
           @ \cup {job[r].item} \cup (IF job[r].kind = "complete" THEN Issues ELSE {})]
    /\ since' = [since EXCEPT ![r] = {},
                             ![job[r].page] = @ \cup Outdated(job[r].page, {job[r].item})]
    /\ UNCHANGED <<tables, loadVars, list, crossed>>

-------------------------------------------------------------------------------

PageStep(p) == (\E t \in {"issues", "sprints"} : Read(p, t)) \/ Load(p) \/ LoadFails(p)

Click(r, p) ==
    \/ Submit(r, p)
    \/ \E e \in list[p] : Start(r, p, e) \/ Complete(r, p, e)
    \/ \E i \in Issues, to \in Statuses : ChangeStatus(r, p, i, to)
    \/ \E i \in Issues, s \in Sprints : AssignSprint(r, p, i, s)

Handler(r) ==
    \/ \E i \in Issues : InsertIssue(r, i)
    \/ \E s \in Sprints : InsertSprint(r, s)
    \/ StartSprint(r) \/ Sweep(r) \/ Close(r) \/ UpdateIssue(r) \/ Fail(r)

Answer(r) == Created(r) \/ SprintTold(r) \/ FetchAgain(r) \/ IssuesTold(r) \/ Lost(r)

Next ==
    \/ \E p \in Pages : PageStep(p)
    \/ \E r \in Requests, p \in Pages : Click(r, p)
    \/ \E r \in Requests : Handler(r) \/ Answer(r)
    \/ \E i \in Issues, to \in Statuses : Drag(i, to)

Spec == Init /\ [][Next]_vars

-------------------------------------------------------------------------------
(***************************************************************************)
(* Properties                                                              *)
(***************************************************************************)

\* A form is not submitted again while its answer is out.
OneSubmission ==
    \A r, q \in Requests :
        InFlight(r) /\ InFlight(q) /\ job[r].kind = "create" /\ job[q].kind = "create"
            /\ job[r].page = job[q].page => r = q

TypeOK ==
    /\ issue \in [Issues -> Row \cup {None}]
    /\ sprint \in [Sprints -> SprintStatuses \cup {None}]
    /\ open \in OpenSets
    /\ toRead \in [Pages -> SUBSET {"issues", "sprints"}]
    /\ loading \in [Pages -> BOOLEAN]
    /\ reply \in [Pages -> SUBSET Entry]
    /\ list \in [Pages -> SUBSET Entry]
    /\ pc \in [Requests -> {"idle", "sent", "closing", "answered", "fetching", "fetched", "over"}]
    /\ job \in [Requests -> Job]
    /\ got \in [Requests -> SprintStatuses \cup Statuses \cup {None}]
    /\ back \in [Requests -> SUBSET Entry]
    /\ swept \in [Requests -> SUBSET Issues]
    /\ stale \in [Pages -> SUBSET Items]
    /\ since \in [Pages \cup Requests -> SUBSET Items]
    /\ crossed \in [Pages -> SUBSET Items]
    /\ OneSubmission

\* Nothing of a page is under way.
Settled(p) == ~loading[p] /\ \A r \in Requests : InFlight(r) => job[r].page # p

\* The entries of an item.
Shown(p, x) ==
    {[status |-> e.status, sprint |-> e.sprint, double |-> e.double] :
        e \in {f \in list[p] : f.id = x}}

\* Its only entry, if it is in the tables.
Right(x) ==
    IF x \in Issues
    THEN {[status |-> r.status, sprint |-> r.sprint, double |-> FALSE] : r \in {issue[x]} \ {None}}
    ELSE {[status |-> st, sprint |-> None, double |-> FALSE] : st \in {sprint[x]} \ {None}}

\* A page without a socket lists everything once and as it is in the tables, also
\* what completing a sprint did to its issues, and when an answer overtakes the
\* load or another answer, but for what
\*   - somebody else changed after it was read for the page,
\*   - failed, or has an answer that was lost or made up after a failure,
\*   - the page asked for again before it had the first answer,
\*   - the page was told by an older of two answers after a newer one, and
\*   - the page created while it was loading, if the answer came before a list
\*     that was read too early, or after one that has it: that is missing, or
\*     listed twice, but what is listed is right.
SettledPageIsRight ==
    \A p \in open : Settled(p) =>
        \A t \in Tables(p) : \A x \in ItemsOf(t) \ stale[p] :
            IF x \in crossed[p]
            THEN \A e \in Shown(p, x) : [e EXCEPT !.double = FALSE] \in Right(x)
            ELSE Shown(p, x) = Right(x)

Stranded(i) ==
    /\ issue[i] # None /\ issue[i].sprint # None /\ issue[i].status # "done"
    /\ sprint[issue[i].sprint] = "completed"

\* Unfinished work, which the end of a sprint returns to the backlog, gets into
\* a completed sprint only from a backlog page that knows the sprint no better,
\* when finished work is taken up again, or when it was changed between the two
\* statements of the completion, the sweep and the close.
StrandedUnknowingly ==
    [][\A i \in Issues : Stranded(i)' /\ ~Stranded(i) =>
        \/ \E r \in Requests :
               /\ pc[r] = "sent" /\ pc'[r] # "sent"
               /\ job[r].kind = "assign" /\ job[r].to \in stale[job[r].page]
        \/ issue[i].status = "done" /\ issue'[i].status # "done"
        \/ \E r \in Requests :
               /\ pc[r] = "closing" /\ pc'[r] = "answered"
               /\ job[r].item = issue[i].sprint /\ i \in since[r]]_vars

\* A completed sprint is started again only from a page that was not told, or
\* that had asked to start it twice.
ReopenedUnknowingly ==
    [][\A s \in Sprints : sprint[s] = "completed" /\ sprint'[s] # "completed" =>
        \E r \in Requests :
            /\ pc[r] = "sent" /\ pc'[r] # "sent"
            /\ job[r].kind = "start" /\ job[r].item = s /\ s \in stale[job[r].page]]_vars
===============================================================================
