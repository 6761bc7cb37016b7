------------------------------ MODULE IssueDialog ------------------------------
(***************************************************************************)
(* The dialog of an issue (components/board/issue-detail.tsx), which the   *)
(* board page opens, with the handlers behind it (handlers/comments.go,    *)
(* handlers/attachments.go) and the bucket the browser sends files to.     *)
(*                                                                         *)
(* The dialog has no key of its own in the page: while some issue is       *)
(* selected it is one mounted component, whose state, fetches and requests *)
(* go on when another issue takes the place of the first; it ends when     *)
(* none is selected.  Title and description are one text; "status" is a    *)
(* patch of status or priority, which keeps the text and loads nothing.    *)
(* The activity list is left out.  The history variables are `chosen`, the *)
(* issue the user opened and did not close, `moved`, an answer has decided *)
(* otherwise, `excused`, files that a fault or a removal befell, and       *)
(* `doubt`, rows that the lists may show wrong.                            *)
(***************************************************************************)
EXTENDS Integers

CONSTANTS
    Issues, Texts,
    Comments, Files,    \* the rows of the two tables, in the order of nothing
    Requests,           \* what the dialog asks, once each
    None,               \* no issue, no row yet, no text
    Gone                \* a row that was deleted

ASSUME ItemAssumption == Comments \cap Files = {}
ASSUME NoneAssumption ==
    {None, Gone} \cap UNION {Issues, Texts, Comments, Files, [id : Issues, text : Texts]} = {}
ASSUME GoneAssumption == None # Gone

Items == Comments \cup Files

VARIABLES
    text,       \* the issues table: the text of an issue, Gone if it is deleted
    row,        \* the rows of comments and attachments: the issue they belong to
    objects,    \* the bucket: the files whose bytes it has
    selected,   \* the issue the page has selected: its id and its copy of the text
    draft,      \* newComment: the issue a comment was typed for
    shown,      \* how often a list of the dialog has a row
    loads,      \* Promise.all of the effect: on their way
    pc, job,    \* where a request is, and what it is about
    chosen, moved, excused, doubt

tables == <<text, row, objects>>
dialogVars == <<selected, draft, shown, loads>>
requestVars == <<pc, job>>
historyVars == <<chosen, moved, excused, doubt>>
vars == <<tables, dialogVars, requestVars, historyVars>>

Load == [issue : Issues, read : BOOLEAN, items : SUBSET Items, old : SUBSET Items]

Job == [kind : {"", "patch", "status", "comment", "upload", "removeFile", "removeIssue"},
        issue : Issues \cup {None}, live : BOOLEAN,
        item : Items \cup {None}, to : Texts \cup {None, Gone}]

NoJob == [kind |-> "", issue |-> None, live |-> FALSE, item |-> None, to |-> None]

Nothing == [x \in Items |-> 0]

Init ==
    /\ text \in [Issues -> Texts]
    /\ row = [x \in Items |-> None]
    /\ objects = {}
    /\ selected = None
    /\ draft = None
    /\ shown = Nothing
    /\ loads = {}
    /\ pc = [r \in Requests |-> "idle"]
    /\ job = [r \in Requests |-> NoJob]
    /\ chosen = None
    /\ moved = FALSE
    /\ excused = {}
    /\ doubt = {}

Goto(r, l) == pc' = [pc EXCEPT ![r] = l]

Over(r) ==
    /\ Goto(r, "over")
    /\ job' = [job EXCEPT ![r] = NoJob]

InFlight(r) == pc[r] \notin {"idle", "over"}

\* A request of the dialog that is there now.
Live(r) == InFlight(r) /\ job[r].live

Of(kind, r) == pc[r] = "sent" /\ job[r].kind = kind

-------------------------------------------------------------------------------
(***************************************************************************)
(* The page and the component                                              *)
(***************************************************************************)

Selection(i, t) == [id |-> i, text |-> t]

\* The effect depends on the id, the title and the description.
Asked(i) == [issue |-> i, read |-> FALSE, items |-> {}, old |-> {}]

\* The page hides the dialog and keeps the component.
Hide ==
    /\ selected' = None
    /\ UNCHANGED <<draft, shown, loads, job>>

\* selected is null: the component is gone, and with it the state it kept.
\* Whatever it awaits ends in nothing that is shown.
Unmount ==
    /\ selected' = None
    /\ draft' = None
    /\ shown' = Nothing
    /\ loads' = {}
    /\ job' = [r \in Requests |-> [job[r] EXCEPT !.live = FALSE]]

\* A card of the board is clicked; the open dialog covers them.
Open(i) ==
    /\ selected = None
    /\ text[i] # Gone
    /\ selected' = Selection(i, text[i])
    /\ loads' = loads \cup {Asked(i)}
    /\ chosen' = i
    /\ moved' = FALSE
    /\ UNCHANGED <<tables, draft, shown, requestVars, excused, doubt>>

Close ==
    /\ selected # None
    /\ Unmount
    /\ chosen' = None
    /\ moved' = FALSE
    /\ doubt' = {}
    /\ UNCHANGED <<tables, pc, excused>>

\* setSelected(updated): with the dialog closed, it opens again.
Select(i, t) ==
    /\ selected' = Selection(i, t)
    /\ loads' = IF selected = Selection(i, t) THEN loads ELSE loads \cup {Asked(i)}

\* ListComments and ListAttachments.
RowsOf(i) == {x \in Items : row[x] = i}

Read(l) ==
    /\ l \in loads /\ ~l.read
    /\ text[l.issue] # Gone
    /\ loads' = (loads \ {l}) \cup {[l EXCEPT !.read = TRUE, !.items = RowsOf(l.issue)]}
    /\ UNCHANGED <<tables, selected, draft, shown, requestVars, historyVars>>

\* The answer is not put into the list.
NotAdded(list, items) == list

\* A row joins the end of its list.
AddedTo(list, items) == [x \in Items |-> IF x \in items THEN list[x] + 1 ELSE list[x]]

\* setComments and setAttachments replace the lists.
Listed(list, items) == [x \in Items |-> IF x \in items THEN 1 ELSE 0]

\* Answers come in any order, and none is dropped because a later load began.
Loaded(l) ==
    /\ l \in loads /\ l.read
    /\ loads' = loads \ {l}
    /\ shown' = Listed(shown, l.items)
    /\ doubt' = l.old
    /\ UNCHANGED <<tables, selected, draft, requestVars, chosen, moved, excused>>

\* One of the three fails: nothing is set.
LoadFails(l) ==
    /\ l \in loads
    /\ loads' = loads \ {l}
    /\ doubt' = Items
    /\ UNCHANGED <<tables, selected, draft, shown, requestVars, chosen, moved, excused>>

-------------------------------------------------------------------------------
(***************************************************************************)
(* What the dialog asks                                                    *)
(***************************************************************************)

Busy(kind) == \E r \in Requests : Live(r) /\ job[r].kind = kind

Send(r, kind, item, to) ==
    /\ pc[r] = "idle" /\ selected # None
    /\ Goto(r, "sent")
    /\ job' = [job EXCEPT ![r] =
           [kind |-> kind, issue |-> selected.id, live |-> TRUE, item |-> item, to |-> to]]
    /\ UNCHANGED <<tables, selected, shown, loads, historyVars>>

\* saveTitle and saveDescription.
Patch(r, to) ==
    /\ to # selected.text
    /\ Send(r, "patch", None, to)
    /\ UNCHANGED draft

\* A status or a priority is selected.
SetStatus(r) ==
    /\ Send(r, "status", None, None)
    /\ UNCHANGED draft

Type ==
    /\ selected # None /\ draft = None
    /\ draft' = selected.id
    /\ UNCHANGED <<tables, selected, shown, loads, requestVars, historyVars>>

\* "Send" is disabled while a comment is posted, the input is not.
AddComment(r) ==
    /\ draft # None /\ ~Busy("comment")
    /\ Send(r, "comment", None, None)
    /\ UNCHANGED draft

Upload(r) ==
    /\ ~Busy("upload")
    /\ Send(r, "upload", None, None)
    /\ UNCHANGED draft

RemoveFile(r, f) ==
    /\ shown[f] > 0
    /\ Send(r, "removeFile", f, None)
    /\ UNCHANGED draft

RemoveIssue(r) ==
    /\ Send(r, "removeIssue", None, None)
    /\ UNCHANGED draft

-------------------------------------------------------------------------------
(***************************************************************************)
(* The API and the bucket                                                  *)
(***************************************************************************)

\* loadIssueForMember of UpdateIssue: the copy that was loaded gets what was
\* asked for.
LoadCopy(r) ==
    LET i == job[r].issue IN
    /\ Of("patch", r) \/ Of("status", r)
    /\ text[i] # Gone
    /\ job' = [job EXCEPT ![r].to = IF job[r].kind = "status" THEN text[i] ELSE @]
    /\ Goto(r, "update")
    /\ UNCHANGED <<tables, dialogVars, historyVars>>

\* The transaction (see IssueTracker).  An UPDATE of no row is no error.
UpdateIssue(r) ==
    LET i == job[r].issue IN
    /\ pc[r] = "update"
    /\ text' = [text EXCEPT ![i] = IF job[r].kind = "status" \/ @ = Gone THEN @ ELSE job[r].to]
    /\ Goto(r, "reload")
    /\ UNCHANGED <<row, objects, dialogVars, job, historyVars>>

\* The answer is the row, or the copy: the error of the reload is ignored.
Reload(r) ==
    LET i == job[r].issue IN
    /\ pc[r] = "reload"
    /\ \/ text[i] # Gone /\ job' = [job EXCEPT ![r].to = text[i]]
       \/ UNCHANGED job
    /\ Goto(r, "answered")
    /\ UNCHANGED <<tables, dialogVars, historyVars>>

\* DeleteIssue.  Comments, attachments and objects stay.
DeleteIssue(r) ==
    /\ Of("removeIssue", r)
    /\ text' = [text EXCEPT ![job[r].issue] = Gone]
    /\ Goto(r, "answered")
    /\ UNCHANGED <<row, objects, dialogVars, job, historyVars>>

\* loadIssueForMember of the two handlers that create a row.
LoadIssue(r) ==
    /\ Of("comment", r) \/ Of("upload", r)
    /\ text[job[r].issue] # Gone
    /\ Goto(r, "insert")
    /\ UNCHANGED <<tables, dialogVars, job, historyVars>>

\* A row changes: the loads that were read are old, and the dialog that is there
\* is not told of what another dialog had asked for.
Changed(r, x) ==
    /\ loads' = {IF l.read THEN [l EXCEPT !.old = @ \cup {x}] ELSE l : l \in loads}
    /\ doubt' = IF job[r].live \/ selected = None THEN doubt ELSE doubt \cup {x}

\* INSERT: of a comment, which is answered, or of an attachment, which is
\* to be signed.
Insert(r, x) ==
    /\ pc[r] = "insert"
    /\ row[x] = None
    /\ IF job[r].kind = "comment" THEN x \in Comments /\ Goto(r, "answered")
       ELSE x \in Files /\ Goto(r, "sign")
    /\ row' = [row EXCEPT ![x] = job[r].issue]
    /\ job' = [job EXCEPT ![r].item = x]
    /\ Changed(r, x)
    /\ UNCHANGED <<text, objects, selected, draft, shown, chosen, moved, excused>>

\* PresignedPutURL; the answer takes the URL to the browser, which sends the
\* bytes, even if the dialog was closed.
Sign(r) ==
    /\ pc[r] = "sign"
    /\ Goto(r, "put")
    /\ UNCHANGED <<tables, dialogVars, job, historyVars>>

\* MinIO takes the bytes, whether the row is still there or not.
Put(r) ==
    /\ pc[r] = "put"
    /\ objects' = objects \cup {job[r].item}
    /\ Goto(r, "answered")
    /\ UNCHANGED <<text, row, dialogVars, job, historyVars>>

\* MinIO refuses, and uploadFile does not look at the status.
PutRefused(r) ==
    /\ pc[r] = "put"
    /\ Goto(r, "answered")
    /\ excused' = excused \cup {job[r].item}
    /\ UNCHANGED <<tables, dialogVars, job, chosen, moved, doubt>>

\* An upload of the file that is not through with MinIO.
Uploading(f) == \E r \in Requests : pc[r] \in {"sign", "put"} /\ job[r].item = f

\* The object stays.
Kept(f) == objects

Without(f) == objects \ {f}

\* DeleteAttachment: loadAttachmentForMember, and Remove of the object, whose
\* error is ignored.
Remove(r) ==
    LET f == job[r].item IN
    /\ Of("removeFile", r)
    /\ row[f] \in Issues /\ text[row[f]] # Gone
    /\ \/ objects' = Without(f) /\ excused' = excused \cup {x \in {f} : Uploading(x)}
       \/ UNCHANGED objects /\ excused' = excused \cup {f}
    /\ Goto(r, "erase")
    /\ UNCHANGED <<text, row, dialogVars, job, chosen, moved, doubt>>

\* DELETE of the row; deleting it again is no error.
Erase(r) ==
    LET f == job[r].item IN
    /\ pc[r] = "erase"
    /\ row' = [row EXCEPT ![f] = Gone]
    /\ Goto(r, "answered")
    /\ Changed(r, f)
    /\ UNCHANGED <<text, objects, selected, draft, shown, job, chosen, moved, excused>>

\* An error of a handler or of the signer, or a lost call: what was done stays.
\* Only the two removals go on as if nothing had happened.
Fail(r) ==
    /\ pc[r] \in {"sent", "update", "reload", "insert", "sign", "put", "erase"}
    /\ \/ /\ job[r].kind \in {"patch", "status", "comment", "upload"}
          /\ Over(r)
          /\ doubt' = doubt \cup {x \in {job[r].item} \cap Items : job[r].live}
       \/ /\ job[r].kind \in {"removeFile", "removeIssue"}
          /\ Goto(r, "failed")
          /\ UNCHANGED <<job, doubt>>
    /\ excused' = IF pc[r] = "sent" THEN excused ELSE excused \cup ({job[r].item} \cap Files)
    /\ UNCHANGED <<tables, dialogVars, chosen, moved>>

-------------------------------------------------------------------------------
(***************************************************************************)
(* Answers                                                                 *)
(***************************************************************************)

\* onChange: the page selects what was answered, whoever is selected now.
Patched(r) ==
    /\ pc[r] = "answered" /\ job[r].kind \in {"patch", "status"}
    /\ Select(job[r].issue, job[r].to)
    /\ moved' = (moved \/ (~job[r].live /\ job[r].issue # chosen))
    /\ Over(r)
    /\ UNCHANGED <<tables, draft, shown, chosen, excused, doubt>>

\* onDelete: nothing is selected any more, whoever was, and whatever the API
\* has answered.
IssueRemoved(r) ==
    /\ pc[r] \in {"answered", "failed"} /\ job[r].kind = "removeIssue"
    /\ selected' = None
    /\ draft' = None
    /\ shown' = Nothing
    /\ loads' = {}
    /\ job' = [q \in Requests |-> IF q = r THEN NoJob ELSE [job[q] EXCEPT !.live = FALSE]]
    /\ Goto(r, "over")
    /\ IF job[r].live THEN chosen' = None ELSE UNCHANGED chosen
    /\ moved' = (~job[r].live /\ chosen # None)
    /\ doubt' = {}
    /\ UNCHANGED <<tables, excused>>

\* The list has the new row at its end, and the input is cleared.
Added(r) ==
    /\ pc[r] = "answered" /\ job[r].kind \in {"comment", "upload"}
    /\ shown' = IF job[r].live THEN AddedTo(shown, {job[r].item}) ELSE shown
    /\ draft' = IF job[r].live /\ job[r].kind = "comment" THEN None ELSE draft
    /\ doubt' = doubt \cup {x \in {job[r].item} : job[r].live /\ (shown[x] > 0 \/ row[x] = Gone)}
    /\ Over(r)
    /\ UNCHANGED <<tables, selected, loads, chosen, moved, excused>>

\* The file leaves the list, whatever the API has answered.
FileRemoved(r) ==
    /\ pc[r] \in {"answered", "failed"} /\ job[r].kind = "removeFile"
    /\ shown' = IF job[r].live THEN [shown EXCEPT ![job[r].item] = 0] ELSE shown
    /\ doubt' = doubt \cup {x \in {job[r].item} : job[r].live /\ pc[r] = "failed"}
    /\ Over(r)
    /\ UNCHANGED <<tables, selected, draft, loads, chosen, moved, excused>>

\* What was done is done, and the dialog takes it for a failure.  The removals
\* do not look at their answers.
AnswerLost(r) ==
    /\ pc[r] = "answered" /\ job[r].kind \in {"patch", "status", "comment", "upload"}
    /\ doubt' = doubt \cup {x \in {job[r].item} \cap Items : job[r].live}
    /\ Over(r)
    /\ UNCHANGED <<tables, dialogVars, chosen, moved, excused>>

-------------------------------------------------------------------------------

PageStep ==
    \/ \E i \in Issues : Open(i)
    \/ Close
    \/ Type
    \/ \E l \in loads : Read(l) \/ Loaded(l) \/ LoadFails(l)

Ask(r) ==
    \/ selected # None /\ \E to \in Texts : Patch(r, to)
    \/ SetStatus(r) \/ AddComment(r) \/ Upload(r) \/ RemoveIssue(r)
    \/ \E f \in Files : RemoveFile(r, f)

Handler(r) ==
    \/ LoadCopy(r) \/ UpdateIssue(r) \/ Reload(r) \/ DeleteIssue(r) \/ LoadIssue(r)
    \/ \E x \in Items : Insert(r, x)
    \/ Sign(r) \/ Put(r) \/ PutRefused(r) \/ Remove(r) \/ Erase(r) \/ Fail(r)

Answer(r) == Patched(r) \/ IssueRemoved(r) \/ Added(r) \/ FileRemoved(r) \/ AnswerLost(r)

Next == PageStep \/ \E r \in Requests : Ask(r) \/ Handler(r) \/ Answer(r)

Spec == Init /\ [][Next]_vars

-------------------------------------------------------------------------------
(***************************************************************************)
(* Properties                                                              *)
(***************************************************************************)

TypeOK ==
    /\ text \in [Issues -> Texts \cup {Gone}]
    /\ row \in [Items -> Issues \cup {None, Gone}]
    /\ objects \subseteq Files
    /\ selected \in [id : Issues, text : Texts] \cup {None}
    /\ draft \in Issues \cup {None}
    /\ shown \in [Items -> 0..2]
    /\ loads \subseteq Load
    /\ pc \in [Requests -> {"idle", "sent", "update", "reload", "insert", "sign", "put", "erase",
                            "answered", "failed", "over"}]
    /\ job \in [Requests -> Job]
    /\ chosen \in Issues \cup {None}
    /\ moved \in BOOLEAN
    /\ excused \subseteq Files
    /\ doubt \subseteq Items

\* The bucket holds the bytes of exactly the attachments that have a row, but
\* for one whose upload or removal is under way, whose removal began before its
\* upload was through, or that an error of the signer, of MinIO or of the
\* DELETE befell.
BucketMatchesRows ==
    \A f \in Files \ excused :
        \/ f \in objects <=> row[f] \in Issues
        \/ Uploading(f)
        \/ \E r \in Requests : pc[r] = "erase" /\ job[r].item = f

\* The dialog is about the issue the user has opened, and so are its lists and
\* the comment that is typed in it, unless an answer to a dialog that was
\* closed has come since and selected something else.
DialogIsChosen ==
    ~moved =>
        /\ IF selected = None THEN chosen = None ELSE selected.id = chosen
        /\ draft \in {None, chosen}
        /\ \A l \in loads : l.issue = chosen
        /\ \A x \in Items : shown[x] > 0 => row[x] \in {chosen, Gone}

\* The dialog awaits nothing that changes its lists.
Settled == loads = {} /\ \A r \in Requests : Live(r) => job[r].kind \in {"patch", "status", "removeIssue"}

\* A dialog at rest lists each row of its issue once, and no other, but for a
\* row that an answer has added after a load had it, or after it was removed;
\* that was changed after the load was read which came last; that a dialog
\* closed before had asked for; or whose request, answer or load was lost.
SettledListsAreRight ==
    selected # None /\ ~moved /\ Settled =>
        \A x \in Items \ doubt : shown[x] = IF row[x] = chosen THEN 1 ELSE 0
===============================================================================
