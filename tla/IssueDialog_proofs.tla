--------------------------- MODULE IssueDialog_proofs ---------------------------
(***************************************************************************)
(* Proofs about IssueDialog, for any issues, texts, rows and requests: the *)
(* type invariant, and that the bucket, the dialog and its lists are what  *)
(* the properties say, whatever answers cross.                             *)
(***************************************************************************)
EXTENDS IssueDialog, TLAPS

-------------------------------------------------------------------------------
(***************************************************************************)
(* The inductive invariant                                                 *)
(***************************************************************************)

Stations == {"idle", "sent", "update", "reload", "insert", "sign", "put", "erase",
             "answered", "failed", "over"}

\* A request that changes the issue itself.
Patching(r) == job[r].kind \in {"patch", "status"}

\* A request that brings a row, and one that concerns a row of the lists.
Creating(r) == job[r].kind \in {"comment", "upload"}

Concerns(r, x) == job[r].kind \in {"comment", "upload", "removeFile"} /\ job[r].item = x

\* What a request has in hand at each of its stations.
WorkingOf(r) ==
    /\ InFlight(r) => job[r].kind # "" /\ job[r].issue \in Issues
    /\ ~InFlight(r) => job[r] = NoJob
    /\ pc[r] = "insert" => Creating(r)
    /\ pc[r] \in {"sent", "insert"} /\ Creating(r) => job[r].item = None
    /\ pc[r] \in {"sign", "put"} => job[r].kind = "upload" /\ job[r].item \in Files
    /\ pc[r] = "erase" => job[r].kind = "removeFile"
    /\ pc[r] = "failed" => job[r].kind \in {"removeFile", "removeIssue"}
    /\ pc[r] = "answered" /\ Creating(r) => job[r].item \in Items
    /\ pc[r] \in {"update", "reload"} => Patching(r) /\ job[r].to \in Texts
    /\ pc[r] = "answered" /\ Patching(r) => job[r].to \in Texts
    /\ job[r].kind = "removeFile" => job[r].item \in Files
    /\ job[r].kind = "patch" => job[r].to \in Texts
    /\ job[r].live => selected # None

Working == \A r \in Requests : WorkingOf(r)

\* A row that a request has brought is the request's own, in the table since,
\* and in no list that was there before.
RowsInv ==
    /\ \A r \in Requests : Creating(r) /\ job[r].item \in Items =>
           /\ row[job[r].item] \in {job[r].issue, Gone}
           /\ shown[job[r].item] <= 1
           /\ \A q \in Requests : Creating(q) /\ job[q].item = job[r].item => q = r
    /\ \A r \in Requests : pc[r] = "answered" /\ job[r].kind = "removeFile" => row[job[r].item] = Gone
    /\ \A x \in Items : row[x] = None => shown[x] = 0 /\ x \notin objects

\* What a load has read is true but for what has changed since.
LoadsInv ==
    \A l \in loads : l.read =>
        /\ \A x \in l.items : row[x] \in {l.issue, Gone}
        /\ \A x \in Items \ l.old : x \in l.items <=> row[x] = l.issue

\* A component that is gone has no state.
GoneInv == selected = None => draft = None /\ loads = {} /\ shown = Nothing /\ doubt = {}

TypeInv == TypeOK /\ Working /\ RowsInv /\ LoadsInv /\ GoneInv

\* While bytes are on their way their row is there and nobody removes it, and
\* who erases a row has removed its object, but for those that are excused.
BucketInv ==
    /\ BucketMatchesRows
    /\ \A f \in Files \ excused : Uploading(f) =>
           row[f] \in Issues /\ ~\E r \in Requests : pc[r] = "erase" /\ job[r].item = f
    /\ \A f \in Files \ excused, r \in Requests : pc[r] = "erase" /\ job[r].item = f => f \notin objects
    /\ \A r \in Requests : pc[r] = "erase" => row[job[r].item] # None

\* So is what the dialog that is there has asked for.
ChosenInv ==
    /\ DialogIsChosen
    /\ ~moved => \A r \in Requests : job[r].live => job[r].issue = chosen

\* A list is right but for the rows in doubt, those a request will tell it of,
\* and those a load will.
ListsInv ==
    selected # None /\ ~moved /\ loads = {} =>
        \A x \in Items \ doubt :
            \/ shown[x] = IF row[x] = chosen THEN 1 ELSE 0
            \/ \E r \in Requests : job[r].live /\ Concerns(r, x)

Inv == TypeInv /\ BucketInv /\ ChosenInv /\ ListsInv

-------------------------------------------------------------------------------
(***************************************************************************)
(* Records and values                                                      *)
(***************************************************************************)

LEMMA NoneIsNothing ==
    /\ None \notin Issues /\ None \notin Texts /\ None \notin Items /\ None \notin Files
    /\ Gone \notin Issues /\ Gone \notin Texts /\ Gone \notin Items /\ None # Gone
    /\ None \notin [id : Issues, text : Texts]
  BY NoneAssumption, GoneAssumption DEF Items

LEMMA ItemsAre == Files \subseteq Items /\ Comments \subseteq Items /\ \A x \in Files : x \notin Comments
  BY ItemAssumption DEF Items

LEMMA JobFields ==
    \A j \in Job :
        /\ j.kind \in {"", "patch", "status", "comment", "upload", "removeFile", "removeIssue"}
        /\ j.issue \in Issues \cup {None} /\ j.live \in BOOLEAN
        /\ j.item \in Items \cup {None} /\ j.to \in Texts \cup {None, Gone}
  BY DEF Job

LEMMA NoJobFields ==
    /\ NoJob \in Job /\ NoJob.kind = "" /\ NoJob.issue = None /\ NoJob.live = FALSE
    /\ NoJob.item = None /\ NoJob.to = None
  BY DEF NoJob, Job

\* One field of a job is set.
LEMMA JobLive ==
    \A j \in Job : LET k == [j EXCEPT !.live = FALSE] IN
        /\ k \in Job /\ k.kind = j.kind /\ k.issue = j.issue /\ k.live = FALSE
        /\ k.item = j.item /\ k.to = j.to
  BY DEF Job

LEMMA NoJobLive == [NoJob EXCEPT !.live = FALSE] = NoJob
<1> DEFINE j == [kind |-> "", issue |-> None, live |-> FALSE, item |-> None, to |-> None]
<1>1. [j EXCEPT !.live = FALSE] = [j EXCEPT !.live = j.live]
  OBVIOUS
<1>2. [j EXCEPT !.live = j.live] = j
  OBVIOUS
<1> QED
  BY <1>1, <1>2 DEF NoJob

LEMMA JobItem ==
    \A j \in Job, x \in Items : LET k == [j EXCEPT !.item = x] IN
        /\ k \in Job /\ k.kind = j.kind /\ k.issue = j.issue /\ k.live = j.live
        /\ k.item = x /\ k.to = j.to
  BY DEF Job

LEMMA JobTo ==
    \A j \in Job, t \in Texts : LET k == [j EXCEPT !.to = t] IN
        /\ k \in Job /\ k.kind = j.kind /\ k.issue = j.issue /\ k.live = j.live
        /\ k.item = j.item /\ k.to = t
  BY DEF Job

LEMMA NothingFields == Nothing \in [Items -> 0..2] /\ \A x \in Items : Nothing[x] = 0
  BY DEF Nothing

LEMMA LoadFields ==
    \A l \in Load : /\ l.issue \in Issues /\ l.read \in BOOLEAN
                    /\ l.items \subseteq Items /\ l.old \subseteq Items
  BY DEF Load

LEMMA AskedFields ==
    \A i \in Issues : /\ Asked(i) \in Load /\ Asked(i).issue = i /\ ~Asked(i).read
  BY DEF Asked, Load

LEMMA SelectionFields ==
    \A i \in Issues, t \in Texts :
        /\ Selection(i, t) \in [id : Issues, text : Texts] /\ Selection(i, t) # None
        /\ Selection(i, t).id = i /\ Selection(i, t).text = t
  BY NoneIsNothing DEF Selection

\* All but one request stand still.
LEMMA OthersWork ==
    ASSUME Working, NEW r \in Requests, WorkingOf(r)',
           \A q \in Requests : q # r => pc'[q] = pc[q] /\ job'[q] = job[q],
           selected # None => selected' # None
    PROVE  Working'
  BY DEF Working, WorkingOf, InFlight, Creating, Patching

\* Rows stand still, and lists do not grow.
LEMMA RowsRest ==
    ASSUME TypeOK, TypeOK', RowsInv, row' = row, objects' = objects,
           \A x \in Items : shown'[x] = shown[x] \/ shown'[x] = 0,
           \A r \in Requests :
              /\ Creating(r)' /\ job'[r].item \in Items =>
                     Creating(r) /\ job'[r].item = job[r].item /\ job'[r].issue = job[r].issue
              /\ pc'[r] = "answered" /\ job'[r].kind = "removeFile" =>
                     pc[r] = "answered" /\ job[r].kind = "removeFile" /\ job'[r].item = job[r].item
    PROVE  RowsInv'
<1>1. \A x \in Items : shown[x] \in 0..2 /\ shown'[x] \in 0..2
  BY DEF TypeOK
<1>2. ASSUME NEW r \in Requests, Creating(r)', job'[r].item \in Items
      PROVE  /\ row'[job'[r].item] \in {job'[r].issue, Gone} /\ shown'[job'[r].item] <= 1
             /\ \A q \in Requests : Creating(q)' /\ job'[q].item = job'[r].item => q = r
  BY <1>1, <1>2 DEF RowsInv
<1>3. \A x \in Items : row'[x] = None => shown'[x] = 0 /\ x \notin objects'
  BY DEF RowsInv
<1>4. \A r \in Requests : pc'[r] = "answered" /\ job'[r].kind = "removeFile" =>
          row'[job'[r].item] = Gone
  BY DEF RowsInv
<1> QED
  BY <1>2, <1>3, <1>4 DEF RowsInv

\* Nobody begins or ends an upload or a removal.
LEMMA BucketRests ==
    ASSUME BucketInv, row' = row, objects' = objects, excused' = excused,
           \A r \in Requests :
              /\ pc'[r] \in {"sign", "put"} <=> pc[r] \in {"sign", "put"}
              /\ pc'[r] = "erase" <=> pc[r] = "erase"
              /\ pc[r] \in {"sign", "put", "erase"} => job'[r].item = job[r].item
    PROVE  BucketInv'
<1>1. \A f : Uploading(f)' <=> Uploading(f)
  BY DEF Uploading
<1>2. \A f : (\E r \in Requests : pc'[r] = "erase" /\ job'[r].item = f)
             <=> \E r \in Requests : pc[r] = "erase" /\ job[r].item = f
  OBVIOUS
<1> QED
  BY <1>1, <1>2 DEF BucketInv, BucketMatchesRows

\* The dialog stays what it was.
LEMMA ChosenRests ==
    ASSUME ChosenInv, row' = row, selected' = selected, draft' = draft, chosen' = chosen,
           moved' = moved,
           \A x \in Items : shown'[x] > 0 => shown[x] > 0,
           \A l \in loads' : \E k \in loads : l.issue = k.issue,
           \A r \in Requests : job'[r].live => job[r].live /\ job'[r].issue = job[r].issue
    PROVE  ChosenInv'
  BY DEF ChosenInv, DialogIsChosen

\* Its lists stay what they were.
LEMMA ListsRest ==
    ASSUME ListsInv, row' = row, shown' = shown, chosen' = chosen, moved' = moved,
           doubt \subseteq doubt', selected' = selected, loads' = {} => loads = {},
           \A r \in Requests, x \in Items :
               x \notin doubt' /\ job[r].live /\ Concerns(r, x) => job'[r].live /\ Concerns(r, x)'
    PROVE  ListsInv'
  BY DEF ListsInv

-------------------------------------------------------------------------------
(***************************************************************************)
(* The initial states                                                      *)
(***************************************************************************)

LEMMA InvInit == Init => Inv
<1> SUFFICES ASSUME Init PROVE Inv
  OBVIOUS
<1> USE NoJobFields, NoneIsNothing DEF Init
<1>1. TypeOK
  BY NothingFields DEF TypeOK
<1>2. Working /\ RowsInv /\ LoadsInv /\ GoneInv
  BY DEF Working, WorkingOf, InFlight, RowsInv, Creating, Patching, LoadsInv, GoneInv, Nothing
<1>3. BucketInv
  BY DEF BucketInv, BucketMatchesRows, Uploading, Items
<1>4. ChosenInv /\ ListsInv
  BY DEF ChosenInv, DialogIsChosen, ListsInv, Nothing
<1> QED
  BY <1>1, <1>2, <1>3, <1>4 DEF Inv, TypeInv

-------------------------------------------------------------------------------
(***************************************************************************)
(* Opening and closing                                                     *)
(***************************************************************************)

LEMMA OpenStep == ASSUME Inv, NEW i \in Issues, Open(i) PROVE Inv'
<1> USE NoneIsNothing DEF Inv, TypeInv
<1>1. text[i] \in Texts /\ selected' = Selection(i, text[i]) /\ selected' # None /\ selected'.id = i
  BY SelectionFields DEF Open, TypeOK
<1>2. /\ selected = None /\ draft = None /\ loads = {} /\ shown = Nothing /\ doubt = {}
      /\ loads' = {Asked(i)} /\ chosen' = i /\ moved' = FALSE
      /\ Asked(i) \in Load /\ Asked(i).issue = i /\ ~Asked(i).read
      /\ UNCHANGED <<text, row, objects, draft, shown, pc, job, excused, doubt>>
  BY AskedFields DEF Open, GoneInv, tables, requestVars
<1>3. TypeOK'
  BY <1>1, <1>2, SelectionFields DEF TypeOK
<1>4. Working' /\ RowsInv' /\ LoadsInv' /\ GoneInv'
  BY <1>1, <1>2 DEF Working, WorkingOf, InFlight, RowsInv, Creating, Patching, LoadsInv, GoneInv
<1>5. BucketInv'
  BY <1>2 DEF BucketInv, BucketMatchesRows, Uploading
<1>6. \A r \in Requests : ~job[r].live
  BY <1>2 DEF Working, WorkingOf
<1>7. ChosenInv' /\ ListsInv'
  BY <1>1, <1>2, <1>6 DEF ChosenInv, DialogIsChosen, ListsInv, Nothing
<1> QED
  BY <1>3, <1>4, <1>5, <1>7

LEMMA CloseStep == ASSUME Inv, Close PROVE Inv'
<1> USE NoneIsNothing DEF Inv, TypeInv
<1>1. /\ selected' = None /\ draft' = None /\ shown' = Nothing /\ loads' = {}
      /\ chosen' = None /\ moved' = FALSE /\ doubt' = {}
      /\ UNCHANGED <<text, row, objects, pc, excused>>
      /\ job' = [r \in Requests |-> [job[r] EXCEPT !.live = FALSE]]
  BY DEF Close, Unmount, tables
<1>2. job \in [Requests -> Job]
  BY DEF TypeOK
<1>3. \A r \in Requests :
          /\ job'[r] \in Job /\ job'[r].kind = job[r].kind /\ job'[r].issue = job[r].issue
          /\ job'[r].live = FALSE /\ job'[r].item = job[r].item /\ job'[r].to = job[r].to
  BY <1>1, <1>2, JobLive
<1>4. \A r \in Requests : job[r] = NoJob => job'[r] = NoJob
  BY <1>1, <1>2, NoJobLive
<1>5. job' \in [Requests -> Job]
  BY <1>1, <1>3
<1>6. TypeOK'
  BY <1>1, <1>5, NothingFields DEF TypeOK
<1>7. Working'
  <2> SUFFICES ASSUME NEW r \in Requests PROVE WorkingOf(r)'
    BY DEF Working
  <2>1. WorkingOf(r)
    BY DEF Working
  <2>2. /\ pc'[r] = pc[r] /\ job'[r].kind = job[r].kind /\ job'[r].issue = job[r].issue
        /\ ~job'[r].live /\ job'[r].item = job[r].item /\ job'[r].to = job[r].to
        /\ job[r] = NoJob => job'[r] = NoJob
    BY <1>1, <1>3, <1>4
  <2> QED
    BY <2>1, <2>2 DEF WorkingOf, InFlight, Creating, Patching
<1>8. RowsInv' /\ LoadsInv' /\ GoneInv'
  <2>1. RowsInv'
    BY <1>1, <1>3, <1>6, NothingFields, RowsRest DEF Creating
  <2> QED
    BY <1>1, <2>1 DEF LoadsInv, GoneInv
<1>9. BucketInv'
  BY <1>1, <1>3, BucketRests
<1>10. ChosenInv'
  <2>1. DialogIsChosen'
    BY <1>1, NothingFields DEF DialogIsChosen
  <2>2. \A r \in Requests : ~job'[r].live
    BY <1>3
  <2> QED
    BY <2>1, <2>2 DEF ChosenInv
<1>11. ListsInv'
  BY <1>1 DEF ListsInv
<1> QED
  BY <1>6, <1>7, <1>8, <1>9, <1>10, <1>11

LEMMA TypeStep == ASSUME Inv, Type PROVE Inv'
<1> USE DEF Inv, TypeInv
<1>1. /\ selected # None /\ draft' = selected.id
      /\ UNCHANGED <<text, row, objects, selected, shown, loads, pc, job, chosen, moved, excused, doubt>>
  BY DEF Type, tables, requestVars, historyVars
<1>2. selected.id \in Issues
  BY <1>1 DEF TypeOK
<1>3. TypeOK'
  BY <1>1, <1>2 DEF TypeOK
<1>4. Working' /\ RowsInv' /\ LoadsInv' /\ GoneInv'
  BY <1>1 DEF Working, WorkingOf, InFlight, RowsInv, Creating, Patching, LoadsInv, GoneInv
<1>5. BucketInv'
  BY <1>1, BucketRests
<1>6. ChosenInv'
  BY <1>1 DEF ChosenInv, DialogIsChosen
<1>7. ListsInv'
  BY <1>1, ListsRest DEF Concerns
<1> QED
  BY <1>3, <1>4, <1>5, <1>6, <1>7

-------------------------------------------------------------------------------
(***************************************************************************)
(* Loads                                                                   *)
(***************************************************************************)

\* What a step of the loads leaves alone.
LEMMA LoadsOnly ==
    ASSUME Inv, selected # None,
           UNCHANGED <<text, row, objects, selected, draft, pc, job, chosen, moved, excused>>,
           \A x \in Items : shown'[x] \in 0..1 \/ shown'[x] = shown[x],
           \A x \in Items : row[x] = None => shown'[x] = 0
    PROVE  Working' /\ RowsInv' /\ GoneInv' /\ BucketInv'
<1> USE DEF Inv, TypeInv
<1>1. Working'
  BY DEF Working, WorkingOf, InFlight, Creating, Patching
<1>2. RowsInv'
  <2>1. \A x \in Items : shown'[x] \in 0..1 => shown'[x] <= 1
    OBVIOUS
  <2> QED
    BY <2>1 DEF RowsInv, Creating
<1>3. GoneInv'
  BY DEF GoneInv
<1>4. BucketInv'
  BY BucketRests
<1> QED
  BY <1>1, <1>2, <1>3, <1>4

LEMMA ReadStep == ASSUME Inv, NEW l \in loads, Read(l) PROVE Inv'
<1> DEFINE m == [l EXCEPT !.read = TRUE, !.items = RowsOf(l.issue)]
<1>1. l \in Load
  BY DEF Inv, TypeInv, TypeOK
<1>2. /\ m \in Load /\ m.issue = l.issue /\ m.items = RowsOf(l.issue) /\ m.old = l.old
  BY <1>1 DEF Load, RowsOf
<1>3. /\ loads' = (loads \ {l}) \cup {m}
      /\ UNCHANGED <<text, row, objects, selected, draft, shown, pc, job, chosen, moved, excused, doubt>>
  BY DEF Read, tables, requestVars, historyVars
<1> HIDE DEF m
<1> USE DEF Inv, TypeInv
<1>4. selected # None
  BY DEF GoneInv
<1>5. TypeOK'
  BY <1>2, <1>3 DEF TypeOK
<1>6. Working' /\ RowsInv' /\ GoneInv' /\ BucketInv'
  BY <1>3, <1>4, LoadsOnly DEF RowsInv
<1>7. LoadsInv'
  BY <1>2, <1>3 DEF LoadsInv, RowsOf
<1>8. ChosenInv'
  BY <1>2, <1>3, ChosenRests
<1>9. ListsInv'
  BY <1>3 DEF ListsInv
<1> QED
  BY <1>5, <1>6, <1>7, <1>8, <1>9

LEMMA LoadedStep == ASSUME Inv, NEW l \in loads, Loaded(l) PROVE Inv'
<1> USE DEF Inv, TypeInv
<1>1. l \in Load /\ l.read
  BY DEF TypeOK, Loaded
<1>2. /\ loads' = loads \ {l} /\ doubt' = l.old
      /\ shown' = [x \in Items |-> IF x \in l.items THEN 1 ELSE 0]
      /\ UNCHANGED <<text, row, objects, selected, draft, pc, job, chosen, moved, excused>>
  BY DEF Loaded, Listed, tables, requestVars
<1>3. /\ \A x \in l.items : row[x] \in {l.issue, Gone}
      /\ \A x \in Items \ l.old : x \in l.items <=> row[x] = l.issue
  BY <1>1 DEF LoadsInv
<1>4. l.issue \in Issues /\ l.old \subseteq Items
  BY <1>1, LoadFields
<1>5. \A x \in Items : /\ shown'[x] = IF x \in l.items THEN 1 ELSE 0
                       /\ shown'[x] \in 0..1
  BY <1>2
<1>6. selected # None
  BY DEF GoneInv
<1>7. TypeOK'
  BY <1>2, <1>4, <1>5 DEF TypeOK
<1>8. Working' /\ RowsInv' /\ GoneInv' /\ BucketInv'
  BY <1>2, <1>3, <1>4, <1>5, <1>6, LoadsOnly, NoneIsNothing
<1>9. LoadsInv'
  BY <1>2 DEF LoadsInv
<1>10. ~moved => l.issue = chosen
  BY DEF ChosenInv, DialogIsChosen
<1>11. ChosenInv'
  BY <1>2, <1>3, <1>5, <1>10 DEF ChosenInv, DialogIsChosen
<1>12. ListsInv'
  BY <1>2, <1>3, <1>5, <1>10 DEF ListsInv
<1> QED
  BY <1>7, <1>8, <1>9, <1>11, <1>12

LEMMA LoadFailsStep == ASSUME Inv, NEW l \in loads, LoadFails(l) PROVE Inv'
<1> USE DEF Inv, TypeInv
<1>1. /\ loads' = loads \ {l} /\ doubt' = Items
      /\ UNCHANGED <<text, row, objects, selected, draft, shown, pc, job, chosen, moved, excused>>
  BY DEF LoadFails, tables, requestVars
<1>2. selected # None
  BY DEF GoneInv
<1>3. TypeOK'
  BY <1>1 DEF TypeOK
<1>4. Working' /\ RowsInv' /\ GoneInv' /\ BucketInv'
  BY <1>1, <1>2, LoadsOnly DEF RowsInv
<1>5. LoadsInv'
  BY <1>1 DEF LoadsInv
<1>6. ChosenInv'
  BY <1>1, ChosenRests
<1>7. ListsInv'
  BY <1>1 DEF ListsInv
<1> QED
  BY <1>3, <1>4, <1>5, <1>6, <1>7

-------------------------------------------------------------------------------
(***************************************************************************)
(* What the dialog asks                                                    *)
(***************************************************************************)

LEMMA SendStep ==
    ASSUME Inv, NEW r \in Requests,
           NEW kind \in {"patch", "status", "comment", "upload", "removeFile", "removeIssue"},
           NEW item \in Items \cup {None}, NEW to \in Texts \cup {None},
           Send(r, kind, item, to), draft' = draft,
           kind \in {"comment", "upload"} => item = None,
           kind = "removeFile" => item \in Files,
           kind = "patch" => to \in Texts
    PROVE  Inv'
<1> USE DEF Inv, TypeInv
<1> DEFINE j == [kind |-> kind, issue |-> selected.id, live |-> TRUE, item |-> item, to |-> to]
<1>1. /\ pc[r] = "idle" /\ selected # None
      /\ pc' = [pc EXCEPT ![r] = "sent"] /\ job' = [job EXCEPT ![r] = j]
      /\ UNCHANGED <<text, row, objects, selected, draft, shown, loads, chosen, moved, excused, doubt>>
  BY DEF Send, Goto, tables, historyVars
<1>2. selected.id \in Issues
  BY <1>1 DEF TypeOK
<1>3. /\ j \in Job /\ j.kind = kind /\ j.issue = selected.id /\ j.live /\ j.item = item /\ j.to = to
  BY <1>2 DEF Job
<1> HIDE DEF j
<1>4. /\ pc'[r] = "sent" /\ job'[r] = j
      /\ \A q \in Requests : q # r => pc'[q] = pc[q] /\ job'[q] = job[q]
  BY <1>1 DEF TypeOK
<1>5. TypeOK'
  BY <1>1, <1>3 DEF TypeOK
<1>6. Working'
  <2>1. WorkingOf(r)'
    BY <1>1, <1>2, <1>3, <1>4 DEF WorkingOf, InFlight, Creating, Patching
  <2> QED
    BY <1>1, <1>4, <2>1, OthersWork
<1>7. job[r] = NoJob /\ ~job[r].live /\ job[r].kind = ""
  BY <1>1, NoJobFields DEF Working, WorkingOf, InFlight
<1>8. RowsInv'
  BY <1>1, <1>3, <1>4, <1>5, NoneIsNothing, RowsRest DEF Creating
<1>9. LoadsInv' /\ GoneInv'
  BY <1>1 DEF LoadsInv, GoneInv
<1>10. BucketInv'
  BY <1>1, <1>4, BucketRests
<1>11. ChosenInv'
  <2>1. DialogIsChosen'
    BY <1>1 DEF ChosenInv, DialogIsChosen
  <2>2. ~moved => selected.id = chosen
    BY <1>1 DEF ChosenInv, DialogIsChosen
  <2> QED
    BY <1>1, <1>3, <1>4, <2>1, <2>2 DEF ChosenInv
<1>12. ListsInv'
  BY <1>1, <1>4, <1>7, ListsRest DEF Concerns
<1> QED
  BY <1>5, <1>6, <1>8, <1>9, <1>10, <1>11, <1>12

LEMMA AskStep == ASSUME Inv, NEW r \in Requests, Ask(r) PROVE Inv'
<1>1. ASSUME selected # None, NEW to \in Texts, Patch(r, to) PROVE Inv'
  BY <1>1, SendStep DEF Patch
<1>6. CASE SetStatus(r)
  BY <1>6, SendStep DEF SetStatus
<1>2. CASE AddComment(r)
  BY <1>2, SendStep DEF AddComment
<1>3. CASE Upload(r)
  BY <1>3, SendStep DEF Upload
<1>4. CASE RemoveIssue(r)
  BY <1>4, SendStep DEF RemoveIssue
<1>5. ASSUME NEW f \in Files, RemoveFile(r, f) PROVE Inv'
  BY <1>5, SendStep, ItemsAre DEF RemoveFile
<1> QED
  BY <1>1, <1>2, <1>3, <1>4, <1>5, <1>6 DEF Ask

-------------------------------------------------------------------------------
(***************************************************************************)
(* The API and the bucket                                                  *)
(***************************************************************************)

\* What the dialog does not see.
LEMMA Unseen ==
    ASSUME Inv, UNCHANGED <<row, selected, draft, shown, loads, chosen, moved, doubt>>,
           \A q \in Requests :
               /\ job'[q].kind = job[q].kind /\ job'[q].issue = job[q].issue
               /\ job'[q].live = job[q].live /\ job'[q].item = job[q].item
    PROVE  LoadsInv' /\ GoneInv' /\ ChosenInv' /\ ListsInv'
<1> USE DEF Inv, TypeInv
<1>1. LoadsInv' /\ GoneInv'
  BY DEF LoadsInv, GoneInv
<1>2. ChosenInv'
  BY ChosenRests
<1>3. ListsInv'
  BY ListsRest DEF Concerns
<1> QED
  BY <1>1, <1>2, <1>3

\* A request to change the issue takes a text along.
LEMMA Filled ==
    ASSUME Inv, NEW r \in Requests, NEW l \in {"update", "answered"}, NEW to \in Texts,
           pc[r] \in {"sent", "reload"}, Patching(r),
           pc' = [pc EXCEPT ![r] = l], job' = [job EXCEPT ![r].to = to],
           UNCHANGED <<text, row, objects, selected, draft, shown, loads, chosen, moved,
                       excused, doubt>>
    PROVE  Inv'
<1> USE DEF Inv, TypeInv
<1>1. /\ job[r] \in Job /\ job[r].kind # "removeFile" /\ ~Creating(r)
      /\ job[r].issue \in Issues /\ (job[r].live => selected # None)
  BY DEF TypeOK, Working, WorkingOf, InFlight, Patching, Creating
<1>2. /\ job' \in [Requests -> Job]
      /\ job'[r].kind = job[r].kind /\ job'[r].issue = job[r].issue /\ job'[r].live = job[r].live
      /\ job'[r].item = job[r].item /\ job'[r].to = to
      /\ \A q \in Requests : q # r => pc'[q] = pc[q] /\ job'[q] = job[q]
      /\ pc'[r] = l
  <2>1. [job[r] EXCEPT !.to = to] \in Job
    BY <1>1, JobTo
  <2>2. job' = [job EXCEPT ![r] = [job[r] EXCEPT !.to = to]]
    OBVIOUS
  <2>3. job'[r] = [job[r] EXCEPT !.to = to] /\ job' \in [Requests -> Job]
    BY <2>1, <2>2 DEF TypeOK
  <2> QED
    BY <1>1, <2>2, <2>3, JobTo DEF TypeOK
<1>3. TypeOK'
  BY <1>2 DEF TypeOK
<1>4. Working'
  <2>1. WorkingOf(r)'
    BY <1>1, <1>2 DEF WorkingOf, InFlight, Creating, Patching
  <2> QED
    BY <1>2, <2>1, OthersWork
<1>5. RowsInv'
  BY <1>1, <1>2, <1>3, RowsRest DEF Creating
<1>6. BucketInv'
  BY <1>2, BucketRests
<1>7. LoadsInv' /\ GoneInv' /\ ChosenInv' /\ ListsInv'
  BY <1>2, Unseen
<1> QED
  BY <1>3, <1>4, <1>5, <1>6, <1>7

LEMMA LoadCopyStep == ASSUME Inv, NEW r \in Requests, LoadCopy(r) PROVE Inv'
<1> DEFINE i == job[r].issue
           to == IF job[r].kind = "status" THEN text[i] ELSE job[r].to
<1>1. /\ pc[r] = "sent" /\ Patching(r) /\ text[i] # Gone
      /\ pc' = [pc EXCEPT ![r] = "update"] /\ job' = [job EXCEPT ![r].to = to]
      /\ UNCHANGED <<text, row, objects, selected, draft, shown, loads, chosen, moved,
                     excused, doubt>>
  BY DEF LoadCopy, Of, Patching, Goto, tables, dialogVars, historyVars
<1>2. to \in Texts
  BY <1>1 DEF Patching, Inv, TypeInv, TypeOK, Working, WorkingOf, InFlight
<1> HIDE DEF to
<1> QED
  BY <1>1, <1>2, Filled

\* A request goes on, or is answered, and no row has changed.
LEMMA GoesOn ==
    ASSUME Inv, NEW r \in Requests, NEW l \in {"insert", "put", "answered", "failed", "erase", "reload"},
           pc' = [pc EXCEPT ![r] = l],
           UNCHANGED <<row, selected, draft, shown, loads, job, chosen, moved, doubt>>,
           text' \in [Issues -> Texts \cup {Gone}],
           objects' \subseteq Files, excused' \subseteq Files,
           \A x \in Items : row[x] = None => x \notin objects',
           l = "answered" => pc[r] # "erase" /\ job[r].kind # "removeFile",
           WorkingOf(r)'
    PROVE  TypeInv' /\ ChosenInv' /\ ListsInv'
<1> USE DEF Inv, TypeInv
<1>1. pc'[r] = l /\ \A q \in Requests : q # r => pc'[q] = pc[q]
  BY DEF TypeOK
<1>2. TypeOK'
  BY DEF TypeOK
<1>3. Working'
  BY <1>1, OthersWork
<1>4. RowsInv'
  BY <1>1 DEF RowsInv, Creating
<1>5. LoadsInv' /\ GoneInv' /\ ChosenInv' /\ ListsInv'
  BY Unseen
<1> QED
  BY <1>2, <1>3, <1>4, <1>5

LEMMA UpdateIssueStep == ASSUME Inv, NEW r \in Requests, UpdateIssue(r) PROVE Inv'
<1> USE DEF Inv, TypeInv
<1>1. PICK i \in Issues, t \in Texts : i = job[r].issue /\ t = job[r].to
  BY DEF UpdateIssue, Working, WorkingOf, InFlight
<1>2. /\ pc[r] = "update" /\ Patching(r) /\ pc' = [pc EXCEPT ![r] = "reload"]
      /\ \/ text' = [text EXCEPT ![i] = t]
         \/ text' = [text EXCEPT ![i] = text[i]]
      /\ UNCHANGED <<row, objects, selected, draft, shown, loads, job, chosen, moved, excused, doubt>>
  BY <1>1 DEF UpdateIssue, Goto, dialogVars, historyVars, Working, WorkingOf
<1>3. /\ text' \in [Issues -> Texts \cup {Gone}] /\ objects \subseteq Files /\ excused \subseteq Files
      /\ pc'[r] = "reload" /\ \A q \in Requests : q # r => pc'[q] = pc[q]
      /\ \A x \in Items : row[x] = None => x \notin objects
  BY <1>2 DEF TypeOK, RowsInv
<1>4. WorkingOf(r)'
  BY <1>1, <1>2, <1>3 DEF WorkingOf, Working, InFlight, Creating, Patching
<1>5. TypeInv' /\ ChosenInv' /\ ListsInv'
  BY <1>2, <1>3, <1>4, GoesOn
<1>6. BucketInv'
  BY <1>2, <1>3, BucketRests
<1> QED
  BY <1>5, <1>6

\* The answer is the row that is there, or the copy that was loaded.
LEMMA ReloadStep == ASSUME Inv, NEW r \in Requests, Reload(r) PROVE Inv'
<1> USE DEF Inv, TypeInv
<1>1. PICK i \in Issues : i = job[r].issue
  BY DEF Reload, Working, WorkingOf, InFlight
<1>2. /\ pc[r] = "reload" /\ Patching(r) /\ pc' = [pc EXCEPT ![r] = "answered"]
      /\ UNCHANGED <<text, row, objects, selected, draft, shown, loads, chosen, moved,
                     excused, doubt>>
      /\ \/ text[i] # Gone /\ job' = [job EXCEPT ![r].to = text[i]]
         \/ job' = job
  BY <1>1 DEF Reload, Goto, tables, dialogVars, historyVars, Working, WorkingOf
<1>3. CASE text[i] # Gone /\ job' = [job EXCEPT ![r].to = text[i]]
  <2>1. text[i] \in Texts
    BY <1>3 DEF TypeOK
  <2> QED
    BY <1>2, <1>3, <2>1, Filled
<1>4. CASE job' = job
  <2>1. /\ text \in [Issues -> Texts \cup {Gone}] /\ objects \subseteq Files /\ excused \subseteq Files
        /\ pc'[r] = "answered" /\ \A q \in Requests : q # r => pc'[q] = pc[q]
        /\ \A x \in Items : row[x] = None => x \notin objects
    BY <1>2 DEF TypeOK, RowsInv
  <2>2. WorkingOf(r)'
    BY <1>2, <1>4, <2>1 DEF WorkingOf, Working, InFlight, Creating, Patching
  <2>3. TypeInv' /\ ChosenInv' /\ ListsInv'
    BY <1>2, <1>4, <2>1, <2>2, GoesOn DEF Patching
  <2>4. BucketInv'
    BY <1>2, <1>4, <2>1, BucketRests
  <2> QED
    BY <2>3, <2>4
<1> QED
  BY <1>2, <1>3, <1>4

LEMMA DeleteIssueStep == ASSUME Inv, NEW r \in Requests, DeleteIssue(r) PROVE Inv'
<1> USE DEF Inv, TypeInv
<1>1. /\ pc[r] = "sent" /\ job[r].kind = "removeIssue"
      /\ pc' = [pc EXCEPT ![r] = "answered"] /\ text' = [text EXCEPT ![job[r].issue] = Gone]
      /\ UNCHANGED <<row, objects, selected, draft, shown, loads, job, chosen, moved, excused, doubt>>
  BY DEF DeleteIssue, Of, Goto, dialogVars, historyVars
<1>2. /\ text' \in [Issues -> Texts \cup {Gone}] /\ objects \subseteq Files /\ excused \subseteq Files
      /\ pc'[r] = "answered" /\ \A q \in Requests : q # r => pc'[q] = pc[q]
      /\ \A x \in Items : row[x] = None => x \notin objects
  BY <1>1 DEF TypeOK, RowsInv
<1>3. WorkingOf(r)'
  BY <1>1, <1>2 DEF WorkingOf, Working, InFlight, Creating, Patching
<1>4. TypeInv' /\ ChosenInv' /\ ListsInv'
  BY <1>1, <1>2, <1>3, GoesOn
<1>5. BucketInv'
  BY <1>1, <1>2, BucketRests
<1> QED
  BY <1>4, <1>5

LEMMA LoadIssueStep == ASSUME Inv, NEW r \in Requests, LoadIssue(r) PROVE Inv'
<1> USE DEF Inv, TypeInv
<1>1. /\ pc[r] = "sent" /\ Creating(r) /\ pc' = [pc EXCEPT ![r] = "insert"]
      /\ UNCHANGED <<text, row, objects, selected, draft, shown, loads, job, chosen, moved, excused, doubt>>
  BY DEF LoadIssue, Of, Goto, dialogVars, historyVars, tables, Creating
<1>2. /\ text \in [Issues -> Texts \cup {Gone}] /\ objects \subseteq Files /\ excused \subseteq Files
      /\ pc'[r] = "insert" /\ \A q \in Requests : q # r => pc'[q] = pc[q]
      /\ \A x \in Items : row[x] = None => x \notin objects
  BY <1>1 DEF TypeOK, RowsInv
<1>3. WorkingOf(r)'
  BY <1>1, <1>2 DEF WorkingOf, Working, InFlight, Creating, Patching
<1>4. TypeInv' /\ ChosenInv' /\ ListsInv'
  BY <1>1, <1>2, <1>3, GoesOn
<1>5. BucketInv'
  BY <1>1, <1>2, BucketRests
<1> QED
  BY <1>4, <1>5

LEMMA SignStep == ASSUME Inv, NEW r \in Requests, Sign(r) PROVE Inv'
<1> USE DEF Inv, TypeInv
<1>1. /\ pc[r] = "sign" /\ pc' = [pc EXCEPT ![r] = "put"]
      /\ UNCHANGED <<text, row, objects, selected, draft, shown, loads, job, chosen, moved, excused, doubt>>
  BY DEF Sign, Goto, dialogVars, historyVars, tables
<1>2. /\ text \in [Issues -> Texts \cup {Gone}] /\ objects \subseteq Files /\ excused \subseteq Files
      /\ pc'[r] = "put" /\ \A q \in Requests : q # r => pc'[q] = pc[q]
      /\ \A x \in Items : row[x] = None => x \notin objects
  BY <1>1 DEF TypeOK, RowsInv
<1>3. WorkingOf(r)'
  BY <1>1, <1>2 DEF WorkingOf, Working, InFlight, Creating, Patching
<1>4. TypeInv' /\ ChosenInv' /\ ListsInv'
  BY <1>1, <1>2, <1>3, GoesOn
<1>5. BucketInv'
  BY <1>1, <1>2, BucketRests
<1> QED
  BY <1>4, <1>5

\* The bytes arrive: the row is there, or the file is excused.
LEMMA PutStep == ASSUME Inv, NEW r \in Requests, Put(r) \/ PutRefused(r) PROVE Inv'
<1> USE DEF Inv, TypeInv
<1>1. PICK f \in Files : f = job[r].item
  BY DEF Put, PutRefused, Working, WorkingOf
<1>2. /\ pc[r] = "put" /\ job[r].kind = "upload" /\ pc' = [pc EXCEPT ![r] = "answered"]
      /\ UNCHANGED <<text, row, selected, draft, shown, loads, job, chosen, moved, doubt>>
      /\ \/ objects' = objects \cup {f} /\ excused' = excused
         \/ objects' = objects /\ excused' = excused \cup {f}
  BY <1>1 DEF Put, PutRefused, Goto, dialogVars, historyVars, tables, Working, WorkingOf
<1>3. row[f] # None /\ f \in Items
  <2>1. f \in Items
    BY ItemsAre
  <2>2. job[r].issue \in Issues /\ Creating(r)
    BY <1>2 DEF Creating, Working, WorkingOf, InFlight
  <2>3. row[f] \in {job[r].issue, Gone}
    BY <1>1, <2>1, <2>2 DEF RowsInv
  <2> QED
    BY <2>1, <2>2, <2>3, NoneIsNothing
<1>4. /\ text \in [Issues -> Texts \cup {Gone}] /\ objects' \subseteq Files /\ excused' \subseteq Files
      /\ pc'[r] = "answered" /\ \A q \in Requests : q # r => pc'[q] = pc[q]
      /\ \A x \in Items : row[x] = None => x \notin objects'
  BY <1>1, <1>2, <1>3 DEF TypeOK, RowsInv
<1>5. WorkingOf(r)'
  BY <1>1, <1>2, <1>3, <1>4 DEF WorkingOf, Working, InFlight, Creating, Patching
<1>6. TypeInv' /\ ChosenInv' /\ ListsInv'
  BY <1>2, <1>4, <1>5, GoesOn
<1>7. BucketInv'
  <2>1. /\ \A x : x # f => (Uploading(x)' <=> Uploading(x))
        /\ \A x : Uploading(x)' => Uploading(x)
        /\ Uploading(f)
    BY <1>1, <1>2, <1>4 DEF Uploading
  <2>2. \A q \in Requests : pc'[q] = "erase" <=> pc[q] = "erase"
    BY <1>2, <1>4
  <2>3. f \notin excused => row[f] \in Issues /\ ~\E q \in Requests : pc[q] = "erase" /\ job[q].item = f
    BY <1>1, <2>1 DEF BucketInv
  <2>4. BucketMatchesRows'
    <3> SUFFICES ASSUME NEW x \in Files \ excused'
                 PROVE  \/ x \in objects' <=> row'[x] \in Issues
                        \/ Uploading(x)'
                        \/ \E q \in Requests : pc'[q] = "erase" /\ job'[q].item = x
      BY DEF BucketMatchesRows
    <3>1. CASE x = f
      BY <1>2, <2>3, <3>1
    <3>2. CASE x # f
      BY <1>2, <2>1, <2>2, <3>2 DEF BucketInv, BucketMatchesRows
    <3> QED
      BY <3>1, <3>2
  <2>5. \A x \in Files \ excused' : Uploading(x)' =>
            row'[x] \in Issues /\ ~\E q \in Requests : pc'[q] = "erase" /\ job'[q].item = x
    BY <1>2, <2>1, <2>2 DEF BucketInv
  <2>6. \A x \in Files \ excused', q \in Requests :
            pc'[q] = "erase" /\ job'[q].item = x => x \notin objects'
    BY <1>2, <2>2, <2>3 DEF BucketInv
  <2>7. \A q \in Requests : pc'[q] = "erase" => row'[job'[q].item] # None
    BY <1>2, <2>2 DEF BucketInv
  <2> QED
    BY <2>4, <2>5, <2>6, <2>7 DEF BucketInv
<1> QED
  BY <1>6, <1>7

\* The object goes first, and the row in a later step.
LEMMA RemoveStep == ASSUME Inv, NEW r \in Requests, Remove(r) PROVE Inv'
<1> USE DEF Inv, TypeInv
<1>1. PICK f \in Files : f = job[r].item
  BY DEF Remove, Of, Working, WorkingOf
<1>2. /\ pc[r] = "sent" /\ job[r].kind = "removeFile" /\ pc' = [pc EXCEPT ![r] = "erase"]
      /\ row[f] \in Issues
      /\ UNCHANGED <<text, row, selected, draft, shown, loads, job, chosen, moved, doubt>>
      /\ \/ /\ objects' = objects \ {f}
            /\ excused' = excused \cup {x \in {f} : Uploading(x)}
         \/ objects' = objects /\ excused' = excused \cup {f}
  BY <1>1 DEF Remove, Of, Without, Goto, dialogVars, historyVars, tables
<1>3. f \in Items /\ row[f] # None
  BY <1>2, NoneIsNothing, ItemsAre
<1>4. /\ text \in [Issues -> Texts \cup {Gone}] /\ objects' \subseteq Files /\ excused' \subseteq Files
      /\ pc'[r] = "erase" /\ \A q \in Requests : q # r => pc'[q] = pc[q]
      /\ \A x \in Items : row[x] = None => x \notin objects'
  BY <1>1, <1>2, <1>3 DEF TypeOK, RowsInv
<1>5. WorkingOf(r)'
  BY <1>1, <1>2, <1>3, <1>4 DEF WorkingOf, Working, InFlight, Creating, Patching
<1>6. TypeInv' /\ ChosenInv' /\ ListsInv'
  BY <1>2, <1>4, <1>5, GoesOn
<1>7. BucketInv'
  <2>1. \A x : Uploading(x)' <=> Uploading(x)
    BY <1>2, <1>4 DEF Uploading
  <2>2. \A q \in Requests : pc'[q] = "erase" <=> (pc[q] = "erase" \/ q = r)
    BY <1>2, <1>4
  <2>3. f \notin excused' => ~Uploading(f) /\ f \notin objects'
    BY <1>2
  <2>4. excused \subseteq excused' /\ objects' \subseteq objects /\ objects \subseteq objects' \cup {f}
    BY <1>2
  <2>5. BucketMatchesRows'
    <3> SUFFICES ASSUME NEW x \in Files \ excused'
                 PROVE  \/ x \in objects' <=> row'[x] \in Issues
                        \/ Uploading(x)'
                        \/ \E q \in Requests : pc'[q] = "erase" /\ job'[q].item = x
      BY DEF BucketMatchesRows
    <3>1. CASE x = f
      BY <1>1, <1>2, <1>4, <3>1
    <3>2. CASE x # f
      BY <1>2, <2>1, <2>2, <2>4, <3>2 DEF BucketInv, BucketMatchesRows
    <3> QED
      BY <3>1, <3>2
  <2>6. \A x \in Files \ excused' : Uploading(x)' =>
            row'[x] \in Issues /\ ~\E q \in Requests : pc'[q] = "erase" /\ job'[q].item = x
    BY <1>1, <1>2, <2>1, <2>2, <2>3, <2>4 DEF BucketInv
  <2>7. \A x \in Files \ excused', q \in Requests :
            pc'[q] = "erase" /\ job'[q].item = x => x \notin objects'
    BY <1>1, <1>2, <2>2, <2>3, <2>4 DEF BucketInv
  <2>8. \A q \in Requests : pc'[q] = "erase" => row'[job'[q].item] # None
    BY <1>1, <1>2, <1>3, <2>2 DEF BucketInv
  <2> QED
    BY <2>5, <2>6, <2>7, <2>8 DEF BucketInv
<1> QED
  BY <1>6, <1>7

\* The loads that were read no longer know of the row.
LEMMA ChangedLoads ==
    ASSUME NEW x \in Items, loads \subseteq Load,
           loads' = {IF l.read THEN [l EXCEPT !.old = @ \cup {x}] ELSE l : l \in loads}
    PROVE  /\ loads' \subseteq Load
           /\ loads' = {} <=> loads = {}
           /\ \A l \in loads' : \E k \in loads :
                  /\ l.issue = k.issue /\ l.read = k.read /\ l.items = k.items
                  /\ l.read => l.old = k.old \cup {x}
<1>1. \A k \in Load : LET l == [k EXCEPT !.old = @ \cup {x}] IN
          /\ l \in Load /\ l.issue = k.issue /\ l.read = k.read /\ l.items = k.items
          /\ l.old = k.old \cup {x}
  BY DEF Load
<1>2. ASSUME NEW l \in loads'
      PROVE  l \in Load /\ \E k \in loads :
                 /\ l.issue = k.issue /\ l.read = k.read /\ l.items = k.items
                 /\ l.read => l.old = k.old \cup {x}
  <2>1. PICK k \in loads : l = IF k.read THEN [k EXCEPT !.old = @ \cup {x}] ELSE k
    OBVIOUS
  <2>2. k \in Load
    OBVIOUS
  <2>3. CASE k.read
    BY <1>1, <2>1, <2>2, <2>3
  <2>4. CASE ~k.read
    BY <2>1, <2>2, <2>4
  <2> QED
    BY <2>3, <2>4
<1>3. loads' = {} <=> loads = {}
  OBVIOUS
<1> QED
  BY <1>2, <1>3

\* A row comes that was in no list, and that no request was about.
LEMMA InsertStep == ASSUME Inv, NEW r \in Requests, NEW x \in Items, Insert(r, x) PROVE Inv'
<1> USE DEF Inv, TypeInv
<1>1. PICK i \in Issues : i = job[r].issue
  BY DEF Insert, Working, WorkingOf, InFlight
<1>2. /\ pc[r] = "insert" /\ Creating(r) /\ job[r].item = None /\ row[x] = None
      /\ row' = [row EXCEPT ![x] = i] /\ job' = [job EXCEPT ![r].item = x]
      /\ loads' = {IF l.read THEN [l EXCEPT !.old = @ \cup {x}] ELSE l : l \in loads}
      /\ doubt' = IF job[r].live \/ selected = None THEN doubt ELSE doubt \cup {x}
      /\ UNCHANGED <<text, objects, selected, draft, shown, chosen, moved, excused>>
      /\ \/ job[r].kind = "comment" /\ x \in Comments /\ pc' = [pc EXCEPT ![r] = "answered"]
         \/ job[r].kind = "upload" /\ x \in Files /\ pc' = [pc EXCEPT ![r] = "sign"]
  BY <1>1 DEF Insert, Goto, Changed, Working, WorkingOf, Creating
<1>3. row'[x] = i /\ \A y \in Items : y # x => row'[y] = row[y]
  BY <1>2 DEF TypeOK
<1>4. /\ job' \in [Requests -> Job]
      /\ job'[r].kind = job[r].kind /\ job'[r].issue = i /\ job'[r].live = job[r].live
      /\ job'[r].item = x /\ job'[r].to = job[r].to
      /\ \A q \in Requests : q # r => pc'[q] = pc[q] /\ job'[q] = job[q]
  <2>1. job \in [Requests -> Job]
    BY DEF TypeOK
  <2>2. job' = [job EXCEPT ![r] = [job[r] EXCEPT !.item = x]]
    BY <1>2
  <2>3. [job[r] EXCEPT !.item = x] \in Job
    BY <2>1, JobItem
  <2>4. job'[r] = [job[r] EXCEPT !.item = x] /\ job' \in [Requests -> Job]
    BY <2>1, <2>2, <2>3
  <2>5. \A q \in Requests : q # r => pc'[q] = pc[q] /\ job'[q] = job[q]
    BY <1>2, <2>1, <2>2 DEF TypeOK
  <2> QED
    BY <1>1, <2>1, <2>4, <2>5, JobItem
<1>5. \/ job[r].kind = "comment" /\ x \notin Files /\ pc'[r] = "answered"
      \/ job[r].kind = "upload" /\ x \in Files /\ pc'[r] = "sign"
  BY <1>2, ItemsAre DEF TypeOK
<1>6. /\ loads' \subseteq Load
      /\ loads' = {} <=> loads = {}
      /\ \A l \in loads' : \E k \in loads :
             /\ l.issue = k.issue /\ l.read = k.read /\ l.items = k.items
             /\ l.read => l.old = k.old \cup {x}
  BY <1>2, ChangedLoads DEF TypeOK
<1>7. doubt \subseteq doubt' /\ doubt' \subseteq doubt \cup {x}
  BY <1>2
<1>8. \A q \in Requests : Creating(q) => job[q].item # x /\ job[q].issue \in Issues
  <2> SUFFICES ASSUME NEW q \in Requests, Creating(q)
               PROVE  job[q].item # x /\ job[q].issue \in Issues
    OBVIOUS
  <2>1. job[q].issue \in Issues
    BY NoJobFields DEF Creating, Working, WorkingOf
  <2>2. job[q].item = x => row[x] \in {job[q].issue, Gone}
    BY DEF RowsInv
  <2> QED
    BY <1>2, <2>1, <2>2, NoneIsNothing
<1>9. shown[x] = 0 /\ x \notin objects
  BY <1>2 DEF RowsInv
<1>10. TypeOK'
  <2>1. pc' \in [Requests -> Stations]
    BY <1>2 DEF TypeOK, Stations
  <2>2. row' \in [Items -> Issues \cup {None, Gone}]
    BY <1>2 DEF TypeOK
  <2> QED
    BY <1>2, <1>4, <1>6, <1>7, <2>1, <2>2 DEF TypeOK
<1>11. Working'
  <2>1. WorkingOf(r)'
    BY <1>2, <1>4, <1>5 DEF WorkingOf, Working, InFlight, Creating, Patching
  <2> QED
    BY <1>2, <1>4, <2>1, OthersWork
<1>12. RowsInv'
  <2>1. ASSUME NEW q \in Requests, Creating(q)', job'[q].item \in Items
        PROVE  /\ row'[job'[q].item] \in {job'[q].issue, Gone} /\ shown'[job'[q].item] <= 1
               /\ \A p \in Requests : Creating(p)' /\ job'[p].item = job'[q].item => p = q
    <3>1. CASE q = r
      BY <1>2, <1>3, <1>4, <1>8, <1>9, <3>1 DEF Creating
    <3>2. CASE q # r
      <4>1. Creating(q) /\ job'[q] = job[q] /\ job[q].item # x
        BY <1>4, <1>8, <2>1, <3>2 DEF Creating
      <4> QED
        BY <1>2, <1>3, <1>4, <2>1, <4>1 DEF RowsInv, Creating
    <3> QED
      BY <3>1, <3>2
  <2>2. \A q \in Requests : pc'[q] = "answered" /\ job'[q].kind = "removeFile" =>
            row'[job'[q].item] = Gone
    <3> SUFFICES ASSUME NEW q \in Requests, pc'[q] = "answered", job'[q].kind = "removeFile"
                 PROVE  row'[job'[q].item] = Gone
      OBVIOUS
    <3>1. q # r
      BY <1>2, <1>4 DEF Creating
    <3>2. row[job[q].item] = Gone /\ job[q].item \in Items /\ job'[q] = job[q]
      BY <1>4, <3>1, ItemsAre DEF RowsInv, Working, WorkingOf
    <3> QED
      BY <1>2, <1>3, <3>2, NoneIsNothing
  <2>3. \A y \in Items : row'[y] = None => shown'[y] = 0 /\ y \notin objects'
    BY <1>2, <1>3, NoneIsNothing DEF RowsInv
  <2> QED
    BY <2>1, <2>2, <2>3 DEF RowsInv
<1>13. LoadsInv'
  <2> SUFFICES ASSUME NEW l \in loads', l.read
               PROVE  /\ \A y \in l.items : row'[y] \in {l.issue, Gone}
                      /\ \A y \in Items \ l.old : y \in l.items <=> row'[y] = l.issue
    BY DEF LoadsInv
  <2>1. PICK k \in loads : /\ l.issue = k.issue /\ k.read /\ l.items = k.items
                           /\ l.old = k.old \cup {x}
    BY <1>6
  <2>2. k.issue \in Issues /\ k.items \subseteq Items
    BY LoadFields DEF TypeOK
  <2>3. /\ \A y \in k.items : row[y] \in {k.issue, Gone}
        /\ \A y \in Items \ k.old : y \in k.items <=> row[y] = k.issue
    BY <2>1 DEF LoadsInv
  <2>4. x \notin k.items
    BY <1>2, <2>2, <2>3, NoneIsNothing
  <2> QED
    BY <1>3, <2>1, <2>2, <2>3, <2>4
<1>14. GoneInv'
  BY <1>2, <1>6 DEF GoneInv
<1>15. BucketInv'
  <2>1. \A f \in Files : f # x => (Uploading(f)' <=> Uploading(f))
    BY <1>2, <1>4, <1>5, NoneIsNothing DEF Uploading
  <2>2. \A q \in Requests : /\ pc'[q] = "erase" <=> pc[q] = "erase"
                            /\ pc[q] = "erase" => job'[q] = job[q] /\ job[q].item # x
    BY <1>2, <1>4, <1>5 DEF BucketInv
  <2>3. x \in Files => Uploading(x)'
    BY <1>4, <1>5 DEF Uploading
  <2>4. \A f \in Files : f \in Items
    BY ItemsAre
  <2>5. BucketMatchesRows'
    <3> SUFFICES ASSUME NEW f \in Files \ excused'
                 PROVE  \/ f \in objects' <=> row'[f] \in Issues
                        \/ Uploading(f)'
                        \/ \E q \in Requests : pc'[q] = "erase" /\ job'[q].item = f
      BY DEF BucketMatchesRows
    <3>1. CASE f = x
      BY <2>3, <3>1
    <3>2. CASE f # x
      BY <1>2, <1>3, <2>1, <2>2, <2>4, <3>2 DEF BucketInv, BucketMatchesRows
    <3> QED
      BY <3>1, <3>2
  <2>6. \A f \in Files \ excused' : Uploading(f)' =>
            row'[f] \in Issues /\ ~\E q \in Requests : pc'[q] = "erase" /\ job'[q].item = f
    <3> SUFFICES ASSUME NEW f \in Files \ excused', Uploading(f)'
                 PROVE  row'[f] \in Issues /\ ~\E q \in Requests : pc'[q] = "erase" /\ job'[q].item = f
      OBVIOUS
    <3>1. CASE f = x
      BY <1>3, <2>2, <3>1
    <3>2. CASE f # x
      BY <1>2, <1>3, <2>1, <2>2, <2>4, <3>2 DEF BucketInv
    <3> QED
      BY <3>1, <3>2
  <2>7. \A f \in Files \ excused', q \in Requests :
            pc'[q] = "erase" /\ job'[q].item = f => f \notin objects'
    BY <1>2, <2>2 DEF BucketInv
  <2>8. \A q \in Requests : pc'[q] = "erase" => row'[job'[q].item] # None
    <3> SUFFICES ASSUME NEW q \in Requests, pc'[q] = "erase" PROVE row'[job'[q].item] # None
      OBVIOUS
    <3>1. pc[q] = "erase" /\ job'[q] = job[q] /\ job[q].item # x
      BY <2>2
    <3>2. job[q].item \in Items /\ row[job[q].item] # None
      BY <3>1, ItemsAre DEF BucketInv, Working, WorkingOf
    <3> QED
      BY <1>3, <3>1, <3>2
  <2> QED
    BY <2>5, <2>6, <2>7, <2>8 DEF BucketInv
<1>16. ChosenInv'
  <2>1. DialogIsChosen'
    <3> SUFFICES ASSUME ~moved PROVE DialogIsChosen'
      BY <1>2 DEF DialogIsChosen
    <3>1. \A l \in loads' : l.issue = chosen
      BY <1>6 DEF ChosenInv, DialogIsChosen
    <3>2. \A y \in Items : shown[y] > 0 => row'[y] \in {chosen, Gone}
      BY <1>3, <1>9 DEF ChosenInv, DialogIsChosen
    <3> QED
      BY <1>2, <3>1, <3>2 DEF ChosenInv, DialogIsChosen
  <2> QED
    BY <1>1, <1>2, <1>4, <2>1 DEF ChosenInv
<1>17. ListsInv'
  <2> SUFFICES ASSUME selected # None, ~moved, loads = {}, NEW y \in Items, y \notin doubt'
               PROVE  \/ shown[y] = IF row'[y] = chosen THEN 1 ELSE 0
                      \/ \E q \in Requests : job'[q].live /\ Concerns(q, y)'
    BY <1>2, <1>6 DEF ListsInv
  <2>1. CASE y = x
    BY <1>2, <1>4, <2>1 DEF Concerns, Creating
  <2>2. CASE y # x
    <3>1. \A q \in Requests : Concerns(q, y) => q # r
      BY <1>2, NoneIsNothing DEF Concerns
    <3>2. \A q \in Requests : job[q].live /\ Concerns(q, y) => job'[q].live /\ Concerns(q, y)'
      BY <1>4, <3>1 DEF Concerns
    <3>3. y \notin doubt
      BY <1>7
    <3> QED
      BY <1>3, <2>2, <3>2, <3>3 DEF ListsInv
  <2> QED
    BY <2>1, <2>2
<1> QED
  BY <1>10, <1>11, <1>12, <1>13, <1>14, <1>15, <1>16, <1>17

\* A row goes whose object has gone before.
LEMMA EraseStep == ASSUME Inv, NEW r \in Requests, Erase(r) PROVE Inv'
<1> USE DEF Inv, TypeInv
<1>1. PICK f \in Files : f = job[r].item
  BY DEF Erase, Working, WorkingOf
<1>2. /\ pc[r] = "erase" /\ job[r].kind = "removeFile"
      /\ row' = [row EXCEPT ![f] = Gone] /\ pc' = [pc EXCEPT ![r] = "answered"]
      /\ loads' = {IF l.read THEN [l EXCEPT !.old = @ \cup {f}] ELSE l : l \in loads}
      /\ doubt' = IF job[r].live \/ selected = None THEN doubt ELSE doubt \cup {f}
      /\ UNCHANGED <<text, objects, selected, draft, shown, job, chosen, moved, excused>>
  BY <1>1 DEF Erase, Goto, Changed, Working, WorkingOf
<1>3. f \in Items /\ row'[f] = Gone /\ \A y \in Items : y # f => row'[y] = row[y]
  BY <1>2, ItemsAre DEF TypeOK
<1>4. pc'[r] = "answered" /\ \A q \in Requests : q # r => pc'[q] = pc[q]
  BY <1>2 DEF TypeOK
<1>5. /\ loads' \subseteq Load
      /\ loads' = {} <=> loads = {}
      /\ \A l \in loads' : \E k \in loads :
             /\ l.issue = k.issue /\ l.read = k.read /\ l.items = k.items
             /\ l.read => l.old = k.old \cup {f}
  BY <1>2, <1>3, ChangedLoads DEF TypeOK
<1>6. doubt \subseteq doubt' /\ doubt' \subseteq doubt \cup {f}
  BY <1>2
<1>7. TypeOK'
  <2>1. pc' \in [Requests -> Stations]
    BY <1>2 DEF TypeOK, Stations
  <2>2. row' \in [Items -> Issues \cup {None, Gone}]
    BY <1>2 DEF TypeOK
  <2> QED
    BY <1>2, <1>3, <1>5, <1>6, <2>1, <2>2 DEF TypeOK
<1>8. Working'
  <2>1. WorkingOf(r)'
    BY <1>2, <1>4 DEF WorkingOf, Working, InFlight, Creating, Patching
  <2> QED
    BY <1>2, <1>4, <2>1, OthersWork
<1>9. RowsInv'
  <2>1. \A q \in Requests : Creating(q)' /\ job'[q].item \in Items =>
            /\ row'[job'[q].item] \in {job'[q].issue, Gone} /\ shown'[job'[q].item] <= 1
            /\ \A p \in Requests : Creating(p)' /\ job'[p].item = job'[q].item => p = q
    BY <1>2, <1>3 DEF RowsInv, Creating
  <2>2. \A q \in Requests : pc'[q] = "answered" /\ job'[q].kind = "removeFile" =>
            row'[job'[q].item] = Gone
    BY <1>1, <1>2, <1>3, <1>4, ItemsAre DEF RowsInv, Working, WorkingOf
  <2>3. \A y \in Items : row'[y] = None => shown'[y] = 0 /\ y \notin objects'
    BY <1>2, <1>3, NoneIsNothing DEF RowsInv
  <2> QED
    BY <2>1, <2>2, <2>3 DEF RowsInv
<1>10. LoadsInv'
  <2> SUFFICES ASSUME NEW l \in loads', l.read
               PROVE  /\ \A y \in l.items : row'[y] \in {l.issue, Gone}
                      /\ \A y \in Items \ l.old : y \in l.items <=> row'[y] = l.issue
    BY DEF LoadsInv
  <2>1. PICK k \in loads : /\ l.issue = k.issue /\ k.read /\ l.items = k.items
                           /\ l.old = k.old \cup {f}
    BY <1>5
  <2>2. k.items \subseteq Items
    BY LoadFields DEF TypeOK
  <2>3. /\ \A y \in k.items : row[y] \in {k.issue, Gone}
        /\ \A y \in Items \ k.old : y \in k.items <=> row[y] = k.issue
    BY <2>1 DEF LoadsInv
  <2> QED
    BY <1>3, <2>1, <2>2, <2>3
<1>11. GoneInv'
  BY <1>2, <1>5 DEF GoneInv
<1>12. BucketInv'
  <2>1. \A x : Uploading(x)' <=> Uploading(x)
    BY <1>2, <1>4 DEF Uploading
  <2>2. \A q \in Requests : pc'[q] = "erase" <=> (pc[q] = "erase" /\ q # r)
    BY <1>2, <1>4
  <2>3. f \notin excused => f \notin objects /\ ~Uploading(f)
    BY <1>1, <1>2 DEF BucketInv
  <2>4. \A x \in Files : x \in Items
    BY ItemsAre
  <2>5. BucketMatchesRows'
    <3> SUFFICES ASSUME NEW x \in Files \ excused'
                 PROVE  \/ x \in objects' <=> row'[x] \in Issues
                        \/ Uploading(x)'
                        \/ \E q \in Requests : pc'[q] = "erase" /\ job'[q].item = x
      BY DEF BucketMatchesRows
    <3>1. CASE x = f
      BY <1>2, <1>3, <2>3, <3>1, NoneIsNothing
    <3>2. CASE x # f
      BY <1>1, <1>2, <1>3, <2>1, <2>2, <2>4, <3>2 DEF BucketInv, BucketMatchesRows
    <3> QED
      BY <3>1, <3>2
  <2>6. \A x \in Files \ excused' : Uploading(x)' =>
            row'[x] \in Issues /\ ~\E q \in Requests : pc'[q] = "erase" /\ job'[q].item = x
    BY <1>2, <1>3, <2>1, <2>2, <2>3, <2>4 DEF BucketInv
  <2>7. \A x \in Files \ excused', q \in Requests :
            pc'[q] = "erase" /\ job'[q].item = x => x \notin objects'
    BY <1>2, <2>2 DEF BucketInv
  <2>8. \A q \in Requests : pc'[q] = "erase" => row'[job'[q].item] # None
    <3> SUFFICES ASSUME NEW q \in Requests, pc'[q] = "erase" PROVE row'[job'[q].item] # None
      OBVIOUS
    <3>1. job[q].item \in Items /\ row[job[q].item] # None /\ job'[q] = job[q]
      BY <1>2, <2>2, ItemsAre DEF BucketInv, Working, WorkingOf
    <3> QED
      BY <1>3, <3>1, NoneIsNothing
  <2> QED
    BY <2>5, <2>6, <2>7, <2>8 DEF BucketInv
<1>13. ChosenInv'
  <2>1. DialogIsChosen'
    <3> SUFFICES ASSUME ~moved PROVE DialogIsChosen'
      BY <1>2 DEF DialogIsChosen
    <3>1. \A l \in loads' : l.issue = chosen
      BY <1>5 DEF ChosenInv, DialogIsChosen
    <3>2. \A y \in Items : shown[y] > 0 => row'[y] \in {chosen, Gone}
      BY <1>3 DEF ChosenInv, DialogIsChosen
    <3> QED
      BY <1>2, <3>1, <3>2 DEF ChosenInv, DialogIsChosen
  <2> QED
    BY <1>2, <2>1 DEF ChosenInv
<1>14. ListsInv'
  <2> SUFFICES ASSUME selected # None, ~moved, loads = {}, NEW y \in Items, y \notin doubt'
               PROVE  \/ shown[y] = IF row'[y] = chosen THEN 1 ELSE 0
                      \/ \E q \in Requests : job[q].live /\ Concerns(q, y)
    BY <1>2, <1>5 DEF ListsInv, Concerns
  <2>1. CASE y = f
    BY <1>1, <1>2, <2>1 DEF Concerns
  <2>2. CASE y # f
    BY <1>3, <1>6, <2>2 DEF ListsInv
  <2> QED
    BY <2>1, <2>2
<1> QED
  BY <1>7, <1>8, <1>9, <1>10, <1>11, <1>12, <1>13, <1>14

\* A request is over.
LEMMA OverStep ==
    ASSUME TypeOK, NEW r \in Requests, Over(r)
    PROVE  /\ pc' \in [Requests -> Stations]
           /\ job' \in [Requests -> Job]
           /\ pc'[r] = "over" /\ job'[r] = NoJob
           /\ \A q \in Requests : q # r => pc'[q] = pc[q] /\ job'[q] = job[q]
           /\ WorkingOf(r)'
<1>1. pc' = [pc EXCEPT ![r] = "over"] /\ job' = [job EXCEPT ![r] = NoJob]
  BY DEF Over, Goto
<1>2. pc'[r] = "over" /\ job'[r] = NoJob
  BY <1>1 DEF TypeOK
<1>3. WorkingOf(r)'
  BY <1>2, NoJobFields DEF WorkingOf, InFlight, Creating, Patching
<1> QED
  BY <1>1, <1>2, <1>3, NoJobFields DEF TypeOK, Stations

\* What failed is excused, and in doubt where the dialog is told nothing.
LEMMA FailStep == ASSUME Inv, NEW r \in Requests, Fail(r) PROVE Inv'
<1> USE DEF Inv, TypeInv
<1>1. /\ pc[r] \in {"sent", "update", "reload", "insert", "sign", "put", "erase"}
      /\ UNCHANGED <<text, row, objects, selected, draft, shown, loads, chosen, moved>>
      /\ \/ /\ Creating(r) \/ Patching(r)
            /\ Over(r)
            /\ doubt' = doubt \cup {x \in {job[r].item} \cap Items : job[r].live}
         \/ /\ job[r].kind \in {"removeFile", "removeIssue"}
            /\ pc' = [pc EXCEPT ![r] = "failed"] /\ UNCHANGED <<job, doubt>>
      /\ excused' = IF pc[r] = "sent" THEN excused ELSE excused \cup ({job[r].item} \cap Files)
  BY DEF Fail, Goto, Creating, Patching, tables, dialogVars
<1>2. /\ pc' \in [Requests -> Stations]
      /\ job' \in [Requests -> Job]
      /\ pc'[r] \in {"over", "failed"}
      /\ pc'[r] = "over" => job'[r] = NoJob /\ (Creating(r) \/ Patching(r))
      /\ pc'[r] = "failed" => job'[r] = job[r] /\ job[r].kind \in {"removeFile", "removeIssue"}
      /\ \A q \in Requests : q # r => pc'[q] = pc[q] /\ job'[q] = job[q]
  <2>1. CASE Over(r) /\ (Creating(r) \/ Patching(r))
    BY <2>1, OverStep
  <2>2. CASE pc' = [pc EXCEPT ![r] = "failed"] /\ job' = job /\ job[r].kind \in {"removeFile", "removeIssue"}
    BY <2>2 DEF TypeOK, Stations
  <2> QED
    BY <1>1, <2>1, <2>2
<1>3. doubt \subseteq doubt' /\ doubt' \subseteq Items /\ excused \subseteq excused' /\ excused' \subseteq Files
  BY <1>1 DEF TypeOK
<1>4. TypeOK'
  BY <1>1, <1>2, <1>3 DEF TypeOK
<1>5. Working'
  <2>1. WorkingOf(r)'
    <3>1. CASE pc'[r] = "over"
      BY <1>2, <3>1, NoJobFields DEF WorkingOf, InFlight, Creating, Patching
    <3>2. CASE pc'[r] = "failed"
      BY <1>1, <1>2, <3>2 DEF WorkingOf, InFlight, Working, Creating, Patching
    <3> QED
      BY <1>2, <3>1, <3>2
  <2> QED
    BY <1>1, <1>2, <2>1, OthersWork
<1>6. RowsInv'
  <2>1. \A q \in Requests :
            /\ Creating(q)' /\ job'[q].item \in Items =>
                   Creating(q) /\ job'[q].item = job[q].item /\ job'[q].issue = job[q].issue
            /\ pc'[q] = "answered" /\ job'[q].kind = "removeFile" =>
                   pc[q] = "answered" /\ job[q].kind = "removeFile" /\ job'[q].item = job[q].item
    BY <1>2, NoJobFields DEF Creating
  <2> QED
    BY <1>1, <1>4, <2>1, RowsRest
<1>7. LoadsInv'
  BY <1>1 DEF LoadsInv
<1>8. GoneInv'
  <2>1. selected = None => ~job[r].live
    BY DEF Working, WorkingOf
  <2> QED
    BY <1>1, <2>1 DEF GoneInv
<1>9. BucketInv'
  <2>1. \A f \in Files \ excused' : Uploading(f)' <=> Uploading(f)
    <3> SUFFICES ASSUME NEW f \in Files \ excused' PROVE Uploading(f)' <=> Uploading(f)
      OBVIOUS
    <3>1. pc[r] \in {"sign", "put"} => job[r].item # f
      BY <1>1
    <3> QED
      BY <1>2, <3>1 DEF Uploading
  <2>2. \A f \in Files \ excused', q \in Requests :
            (pc'[q] = "erase" /\ job'[q].item = f) <=> (pc[q] = "erase" /\ job[q].item = f)
    BY <1>1, <1>2
  <2>3. \A q \in Requests : pc'[q] = "erase" => row'[job'[q].item] # None
    BY <1>1, <1>2 DEF BucketInv
  <2> QED
    BY <1>1, <1>3, <2>1, <2>2, <2>3 DEF BucketInv, BucketMatchesRows
<1>10. ChosenInv'
  <2>1. \A q \in Requests : job'[q].live => job[q].live /\ job'[q].issue = job[q].issue
    BY <1>2, NoJobFields
  <2> QED
    BY <1>1, <2>1, ChosenRests
<1>11. ListsInv'
  <2>1. \A q \in Requests, x \in Items :
            x \notin doubt' /\ job[q].live /\ Concerns(q, x) => job'[q].live /\ Concerns(q, x)'
    <3> SUFFICES ASSUME NEW q \in Requests, NEW x \in Items,
                        x \notin doubt', job[q].live, Concerns(q, x)
                 PROVE  job'[q].live /\ Concerns(q, x)'
      OBVIOUS
    <3>1. q # r \/ pc'[r] = "failed"
      <4>1. CASE /\ Creating(r) \/ Patching(r)
                 /\ doubt' = doubt \cup {y \in {job[r].item} \cap Items : job[r].live}
        BY <4>1 DEF Concerns, Creating
      <4>2. CASE job[r].kind \in {"removeFile", "removeIssue"}
        BY <1>2, <4>2 DEF Creating, Patching
      <4> QED
        BY <1>1, <4>1, <4>2
    <3> QED
      BY <1>2, <3>1 DEF Concerns
  <2> QED
    BY <1>1, <1>3, <2>1, ListsRest
<1> QED
  BY <1>4, <1>5, <1>6, <1>7, <1>8, <1>9, <1>10, <1>11

-------------------------------------------------------------------------------
(***************************************************************************)
(* Answers                                                                 *)
(***************************************************************************)

\* A request is over that has no object in hand.
LEMMA Ended ==
    ASSUME Inv, NEW r \in Requests, Over(r), pc[r] \in {"answered", "failed"},
           UNCHANGED <<row, objects, excused>>, selected # None => selected' # None
    PROVE  Working' /\ BucketInv'
<1> USE DEF Inv, TypeInv
<1>1. /\ pc'[r] = "over" /\ job'[r] = NoJob /\ WorkingOf(r)'
      /\ \A q \in Requests : q # r => pc'[q] = pc[q] /\ job'[q] = job[q]
  BY OverStep
<1>2. Working'
  BY <1>1, OthersWork
<1>3. \A q \in Requests : /\ pc'[q] \in {"sign", "put"} <=> pc[q] \in {"sign", "put"}
                          /\ pc'[q] = "erase" <=> pc[q] = "erase"
                          /\ pc[q] \in {"sign", "put", "erase"} => job'[q].item = job[q].item
  BY <1>1
<1>4. BucketInv'
  BY <1>3, BucketRests
<1> QED
  BY <1>2, <1>4

\* The answer selects its issue, and if that is not the chosen one, `moved` says so.
LEMMA PatchedStep == ASSUME Inv, NEW r \in Requests, Patched(r) PROVE Inv'
<1> USE NoneIsNothing DEF Inv, TypeInv
<1>1. PICK i \in Issues, t \in Texts : i = job[r].issue /\ t = job[r].to
  BY DEF Patched, Working, WorkingOf, InFlight, Patching
<1>2. /\ pc[r] = "answered" /\ Patching(r) /\ Over(r)
      /\ selected' = Selection(i, t)
      /\ loads' = IF selected = Selection(i, t) THEN loads ELSE loads \cup {Asked(i)}
      /\ moved' = (moved \/ (~job[r].live /\ i # chosen))
      /\ UNCHANGED <<text, row, objects, draft, shown, chosen, excused, doubt>>
  BY <1>1 DEF Patched, Patching, Select, tables
<1>3. /\ pc' \in [Requests -> Stations]
      /\ job' \in [Requests -> Job] /\ job'[r] = NoJob /\ pc'[r] = "over"
      /\ \A q \in Requests : q # r => pc'[q] = pc[q] /\ job'[q] = job[q]
  BY <1>2, OverStep
<1>4. /\ Selection(i, t) \in [id : Issues, text : Texts] /\ selected' # None /\ selected'.id = i
      /\ Asked(i) \in Load /\ Asked(i).issue = i /\ ~Asked(i).read
  BY <1>2, SelectionFields, AskedFields
<1>5. TypeOK'
  BY <1>2, <1>3, <1>4 DEF TypeOK
<1>6. Working' /\ BucketInv'
  BY <1>2, <1>4, Ended
<1>7. RowsInv'
  <2>1. \A q \in Requests :
            /\ Creating(q)' /\ job'[q].item \in Items =>
                   Creating(q) /\ job'[q].item = job[q].item /\ job'[q].issue = job[q].issue
            /\ pc'[q] = "answered" /\ job'[q].kind = "removeFile" =>
                   pc[q] = "answered" /\ job[q].kind = "removeFile" /\ job'[q].item = job[q].item
    BY <1>3, NoJobFields DEF Creating
  <2> QED
    BY <1>2, <1>5, <2>1, RowsRest
<1>8. LoadsInv' /\ GoneInv'
  BY <1>2, <1>4 DEF LoadsInv, GoneInv
<1>9. ChosenInv'
  <2> SUFFICES ASSUME ~moved, job[r].live \/ i = chosen PROVE ChosenInv'
    BY <1>2 DEF ChosenInv, DialogIsChosen
  <2>1. i = chosen
    BY <1>1 DEF ChosenInv
  <2>2. \A q \in Requests : job'[q].live => job'[q].issue = chosen
    BY <1>3, NoJobFields DEF ChosenInv
  <2> QED
    BY <1>2, <1>4, <2>1, <2>2 DEF ChosenInv, DialogIsChosen
<1>10. ListsInv'
  <2> SUFFICES ASSUME ~moved', loads' = {} PROVE ListsInv'
    BY DEF ListsInv
  <2>1. ~moved /\ loads = {} /\ selected # None
    BY <1>2, <1>4
  <2>2. \A q \in Requests, x \in Items :
            job[q].live /\ Concerns(q, x) => job'[q].live /\ Concerns(q, x)'
    BY <1>2, <1>3 DEF Concerns, Patching
  <2> QED
    BY <1>2, <2>1, <2>2 DEF ListsInv
<1> QED
  BY <1>5, <1>6, <1>7, <1>8, <1>9, <1>10

LEMMA IssueRemovedStep == ASSUME Inv, NEW r \in Requests, IssueRemoved(r) PROVE Inv'
<1> USE NoneIsNothing DEF Inv, TypeInv
<1>1. /\ pc[r] \in {"answered", "failed"} /\ job[r].kind = "removeIssue"
      /\ selected' = None /\ draft' = None /\ shown' = Nothing /\ loads' = {} /\ doubt' = {}
      /\ job' = [q \in Requests |-> IF q = r THEN NoJob ELSE [job[q] EXCEPT !.live = FALSE]]
      /\ pc' = [pc EXCEPT ![r] = "over"]
      /\ chosen' = IF job[r].live THEN None ELSE chosen
      /\ moved' = (~job[r].live /\ chosen # None)
      /\ UNCHANGED <<text, row, objects, excused>>
  BY DEF IssueRemoved, Goto, tables
<1>2. job \in [Requests -> Job]
  BY DEF TypeOK
<1>3. /\ job'[r] = NoJob /\ pc'[r] = "over"
      /\ \A q \in Requests : q # r =>
            /\ pc'[q] = pc[q]
            /\ job'[q] \in Job /\ job'[q].kind = job[q].kind /\ job'[q].issue = job[q].issue
            /\ job'[q].live = FALSE /\ job'[q].item = job[q].item /\ job'[q].to = job[q].to
            /\ job[q] = NoJob => job'[q] = NoJob
  <2>1. job'[r] = NoJob /\ \A q \in Requests : q # r => job'[q] = [job[q] EXCEPT !.live = FALSE]
    BY <1>1
  <2>2. pc'[r] = "over" /\ \A q \in Requests : q # r => pc'[q] = pc[q]
    BY <1>1 DEF TypeOK
  <2>3. ASSUME NEW q \in Requests, q # r
        PROVE  /\ job'[q] \in Job /\ job'[q].kind = job[q].kind /\ job'[q].issue = job[q].issue
               /\ job'[q].live = FALSE /\ job'[q].item = job[q].item /\ job'[q].to = job[q].to
               /\ job[q] = NoJob => job'[q] = NoJob
    <3>1. job[q] \in Job /\ job'[q] = [job[q] EXCEPT !.live = FALSE]
      BY <1>2, <2>1, <2>3
    <3>2. job[q] = NoJob => job'[q] = NoJob
      BY <3>1, NoJobLive
    <3> QED
      BY <3>1, <3>2, JobLive
  <2> QED
    BY <2>1, <2>2, <2>3
<1>4. job' \in [Requests -> Job]
  BY <1>1, <1>3, NoJobFields
<1>5. TypeOK'
  <2>1. pc' \in [Requests -> Stations]
    BY <1>1 DEF TypeOK, Stations
  <2>2. chosen' \in Issues \cup {None} /\ moved' \in BOOLEAN
    BY <1>1 DEF TypeOK
  <2> QED
    BY <1>1, <1>4, <2>1, <2>2, NothingFields DEF TypeOK
<1>6. Working'
  <2>1. WorkingOf(r)'
    BY <1>3, NoJobFields DEF WorkingOf, InFlight, Creating, Patching
  <2>2. ASSUME NEW q \in Requests, q # r PROVE WorkingOf(q)'
    <3>1. WorkingOf(q)
      BY DEF Working
    <3>2. /\ pc'[q] = pc[q] /\ job'[q].kind = job[q].kind /\ job'[q].issue = job[q].issue
          /\ ~job'[q].live /\ job'[q].item = job[q].item /\ job'[q].to = job[q].to
          /\ job[q] = NoJob => job'[q] = NoJob
      BY <1>3, <2>2
    <3> QED
      BY <3>1, <3>2 DEF WorkingOf, InFlight, Creating, Patching
  <2> QED
    BY <2>1, <2>2 DEF Working
<1>7. RowsInv'
  <2>1. \A q \in Requests :
            /\ Creating(q)' /\ job'[q].item \in Items =>
                   Creating(q) /\ job'[q].item = job[q].item /\ job'[q].issue = job[q].issue
            /\ pc'[q] = "answered" /\ job'[q].kind = "removeFile" =>
                   pc[q] = "answered" /\ job[q].kind = "removeFile" /\ job'[q].item = job[q].item
    BY <1>3, NoJobFields DEF Creating
  <2>2. \A x \in Items : shown'[x] = shown[x] \/ shown'[x] = 0
    BY <1>1, NothingFields
  <2> QED
    BY <1>1, <1>5, <2>1, <2>2, RowsRest
<1>8. LoadsInv' /\ GoneInv'
  BY <1>1 DEF LoadsInv, GoneInv
<1>9. BucketInv'
  <2>1. \A q \in Requests : /\ pc'[q] \in {"sign", "put"} <=> pc[q] \in {"sign", "put"}
                            /\ pc'[q] = "erase" <=> pc[q] = "erase"
                            /\ pc[q] \in {"sign", "put", "erase"} => job'[q].item = job[q].item
    BY <1>1, <1>3
  <2> QED
    BY <1>1, <2>1, BucketRests
<1>10. ChosenInv'
  <2>1. ~moved' => chosen' = None
    BY <1>1
  <2>2. \A q \in Requests : ~job'[q].live
    BY <1>3, NoJobFields
  <2> QED
    BY <1>1, <2>1, <2>2, NothingFields DEF ChosenInv, DialogIsChosen
<1>11. ListsInv'
  BY <1>1 DEF ListsInv
<1> QED
  BY <1>5, <1>6, <1>7, <1>8, <1>9, <1>10, <1>11

\* The row an answer brings is that of its own request alone.
LEMMA AddedStep == ASSUME Inv, NEW r \in Requests, Added(r) PROVE Inv'
<1> USE NoneIsNothing DEF Inv, TypeInv
<1>1. PICK x \in Items : x = job[r].item
  BY DEF Added, Working, WorkingOf, Creating
<1>2. /\ pc[r] = "answered" /\ Creating(r) /\ Over(r)
      /\ shown' = IF job[r].live THEN [y \in Items |-> IF y \in {x} THEN shown[y] + 1 ELSE shown[y]]
                  ELSE shown
      /\ draft' = IF job[r].live /\ job[r].kind = "comment" THEN None ELSE draft
      /\ doubt' = doubt \cup {y \in {x} : job[r].live /\ (shown[y] > 0 \/ row[y] = Gone)}
      /\ UNCHANGED <<text, row, objects, selected, loads, chosen, moved, excused>>
  BY <1>1 DEF Added, AddedTo, Creating, tables
<1>3. /\ pc' \in [Requests -> Stations]
      /\ job' \in [Requests -> Job] /\ job'[r] = NoJob /\ pc'[r] = "over"
      /\ \A q \in Requests : q # r => pc'[q] = pc[q] /\ job'[q] = job[q]
  BY <1>2, OverStep
<1>4. /\ job[r].issue \in Issues /\ row[x] \in {job[r].issue, Gone} /\ shown[x] <= 1
      /\ \A q \in Requests : Creating(q) /\ job[q].item = x => q = r
  BY <1>1, <1>2 DEF RowsInv, Working, WorkingOf, InFlight
<1>5. \A y \in Items : shown[y] \in 0..2
  BY DEF TypeOK
<1>6. /\ \A y \in Items : y # x => shown'[y] = shown[y]
      /\ job[r].live => shown'[x] = shown[x] + 1
      /\ ~job[r].live => shown' = shown
  BY <1>2
<1>7. \A y \in Items : shown'[y] \in 0..2
  <2>1. job[r].live => shown'[x] \in 0..2
    BY <1>4, <1>5, <1>6
  <2> QED
    BY <1>5, <1>6, <2>1
<1>8. TypeOK'
  <2>1. shown' \in [Items -> 0..2]
    <3>1. CASE job[r].live
      BY <1>2, <1>7, <3>1
    <3>2. CASE ~job[r].live
      BY <1>6, <3>2 DEF TypeOK
    <3> QED
      BY <3>1, <3>2
  <2>2. draft' \in Issues \cup {None} /\ doubt' \subseteq Items
    BY <1>2 DEF TypeOK
  <2> QED
    BY <1>2, <1>3, <2>1, <2>2 DEF TypeOK
<1>9. Working' /\ BucketInv'
  BY <1>2, Ended
<1>10. RowsInv'
  <2>1. ASSUME NEW q \in Requests, Creating(q)', job'[q].item \in Items
        PROVE  /\ row'[job'[q].item] \in {job'[q].issue, Gone} /\ shown'[job'[q].item] <= 1
               /\ \A p \in Requests : Creating(p)' /\ job'[p].item = job'[q].item => p = q
    <3>1. q # r /\ job'[q] = job[q] /\ Creating(q)
      BY <1>3, <2>1, NoJobFields DEF Creating
    <3>2. job[q].item # x
      BY <1>4, <3>1
    <3>3. \A p \in Requests : Creating(p)' => p # r /\ Creating(p) /\ job'[p] = job[p]
      BY <1>3, NoJobFields DEF Creating
    <3> QED
      BY <1>2, <1>6, <2>1, <3>1, <3>2, <3>3 DEF RowsInv
  <2>2. \A q \in Requests : pc'[q] = "answered" /\ job'[q].kind = "removeFile" =>
            row'[job'[q].item] = Gone
    BY <1>2, <1>3 DEF RowsInv
  <2>3. \A y \in Items : row'[y] = None => shown'[y] = 0 /\ y \notin objects'
    BY <1>2, <1>4, <1>6 DEF RowsInv
  <2> QED
    BY <2>1, <2>2, <2>3 DEF RowsInv
<1>11. LoadsInv'
  BY <1>2 DEF LoadsInv
<1>12. selected = None => ~job[r].live
  BY DEF Working, WorkingOf
<1>13. GoneInv'
  BY <1>2, <1>12 DEF GoneInv
<1>14. \A q \in Requests : job'[q].live => q # r /\ job[q].live /\ job'[q].issue = job[q].issue
  BY <1>3, NoJobFields
<1>15. ChosenInv'
  <2> SUFFICES ASSUME ~moved PROVE ChosenInv'
    BY <1>2 DEF ChosenInv, DialogIsChosen
  <2>1. job[r].live => job[r].issue = chosen
    BY DEF ChosenInv
  <2>2. \A y \in Items : shown'[y] > 0 => row[y] \in {chosen, Gone}
    <3> SUFFICES ASSUME NEW y \in Items, shown'[y] > 0 PROVE row[y] \in {chosen, Gone}
      OBVIOUS
    <3>1. CASE y = x /\ job[r].live
      BY <1>4, <2>1, <3>1
    <3>2. CASE ~(y = x /\ job[r].live)
      BY <1>6, <3>2 DEF ChosenInv, DialogIsChosen
    <3> QED
      BY <3>1, <3>2
  <2> QED
    BY <1>2, <1>14, <2>2 DEF ChosenInv, DialogIsChosen
<1>16. ListsInv'
  <2> SUFFICES ASSUME selected # None, ~moved, loads = {}, NEW y \in Items, y \notin doubt'
               PROVE  \/ shown'[y] = IF row[y] = chosen THEN 1 ELSE 0
                      \/ \E q \in Requests : job'[q].live /\ Concerns(q, y)'
    BY <1>2 DEF ListsInv
  <2>1. CASE y = x /\ job[r].live
    <3>1. ~(shown[x] > 0) /\ row[x] # Gone
      BY <1>2, <2>1
    <3>2. shown[x] = 0 /\ row[x] = chosen
      BY <1>4, <1>5, <2>1, <3>1 DEF ChosenInv
    <3> QED
      BY <1>6, <2>1, <3>2
  <2>2. CASE ~(y = x /\ job[r].live)
    <3>1. \A q \in Requests : job[q].live /\ Concerns(q, y) => q # r
      BY <1>1, <2>2 DEF Concerns
    <3>2. \A q \in Requests : job[q].live /\ Concerns(q, y) => job'[q].live /\ Concerns(q, y)'
      BY <1>3, <3>1 DEF Concerns
    <3>3. y \notin doubt /\ shown'[y] = shown[y]
      BY <1>2, <1>6, <2>2
    <3> QED
      BY <3>2, <3>3 DEF ListsInv
  <2> QED
    BY <2>1, <2>2
<1> QED
  BY <1>8, <1>9, <1>10, <1>11, <1>13, <1>15, <1>16

LEMMA FileRemovedStep == ASSUME Inv, NEW r \in Requests, FileRemoved(r) PROVE Inv'
<1> USE NoneIsNothing DEF Inv, TypeInv
<1>1. PICK f \in Files : f = job[r].item
  BY DEF FileRemoved, Working, WorkingOf
<1>2. /\ pc[r] \in {"answered", "failed"} /\ job[r].kind = "removeFile" /\ Over(r) /\ f \in Items
      /\ shown' = IF job[r].live THEN [shown EXCEPT ![f] = 0] ELSE shown
      /\ doubt' = doubt \cup {y \in {f} : job[r].live /\ pc[r] = "failed"}
      /\ UNCHANGED <<text, row, objects, selected, draft, loads, chosen, moved, excused>>
  BY <1>1, ItemsAre DEF FileRemoved, tables
<1>3. /\ pc' \in [Requests -> Stations]
      /\ job' \in [Requests -> Job] /\ job'[r] = NoJob /\ pc'[r] = "over"
      /\ \A q \in Requests : q # r => pc'[q] = pc[q] /\ job'[q] = job[q]
  BY <1>2, OverStep
<1>4. /\ \A y \in Items : y # f => shown'[y] = shown[y]
      /\ job[r].live => shown'[f] = 0
      /\ ~job[r].live => shown' = shown
      /\ shown' \in [Items -> 0..2]
  BY <1>2 DEF TypeOK
<1>5. TypeOK'
  BY <1>2, <1>3, <1>4 DEF TypeOK
<1>6. Working' /\ BucketInv'
  BY <1>2, Ended
<1>7. RowsInv'
  <2>1. \A q \in Requests :
            /\ Creating(q)' /\ job'[q].item \in Items =>
                   Creating(q) /\ job'[q].item = job[q].item /\ job'[q].issue = job[q].issue
            /\ pc'[q] = "answered" /\ job'[q].kind = "removeFile" =>
                   pc[q] = "answered" /\ job[q].kind = "removeFile" /\ job'[q].item = job[q].item
    BY <1>3, NoJobFields DEF Creating
  <2>2. \A x \in Items : shown'[x] = shown[x] \/ shown'[x] = 0
    BY <1>4
  <2> QED
    BY <1>2, <1>5, <2>1, <2>2, RowsRest
<1>8. LoadsInv'
  BY <1>2 DEF LoadsInv
<1>9. selected = None => ~job[r].live
  BY DEF Working, WorkingOf
<1>10. GoneInv'
  BY <1>2, <1>9 DEF GoneInv
<1>11. ChosenInv'
  <2>1. \A q \in Requests : job'[q].live => job[q].live /\ job'[q].issue = job[q].issue
    BY <1>3, NoJobFields
  <2>2. \A x \in Items : shown'[x] > 0 => shown[x] > 0
    BY <1>4
  <2> QED
    BY <1>2, <2>1, <2>2, ChosenRests
<1>12. ListsInv'
  <2> SUFFICES ASSUME selected # None, ~moved, loads = {}, NEW y \in Items, y \notin doubt'
               PROVE  \/ shown'[y] = IF row[y] = chosen THEN 1 ELSE 0
                      \/ \E q \in Requests : job'[q].live /\ Concerns(q, y)'
    BY <1>2 DEF ListsInv
  <2>1. CASE y = f /\ job[r].live
    <3>1. row[f] = Gone
      BY <1>1, <1>2, <2>1 DEF RowsInv
    <3>2. chosen # Gone
      BY DEF TypeOK
    <3> QED
      BY <1>4, <2>1, <3>1, <3>2
  <2>2. CASE ~(y = f /\ job[r].live)
    <3>1. \A q \in Requests : job[q].live /\ Concerns(q, y) => q # r
      BY <1>1, <2>2 DEF Concerns
    <3>2. \A q \in Requests : job[q].live /\ Concerns(q, y) => job'[q].live /\ Concerns(q, y)'
      BY <1>3, <3>1 DEF Concerns
    <3>3. y \notin doubt /\ shown'[y] = shown[y]
      BY <1>2, <1>4, <2>2
    <3> QED
      BY <3>2, <3>3 DEF ListsInv
  <2> QED
    BY <2>1, <2>2
<1> QED
  BY <1>5, <1>6, <1>7, <1>8, <1>10, <1>11, <1>12

\* What was done is in doubt if the dialog still awaits it.
LEMMA AnswerLostStep == ASSUME Inv, NEW r \in Requests, AnswerLost(r) PROVE Inv'
<1> USE NoneIsNothing DEF Inv, TypeInv
<1>1. /\ pc[r] = "answered" /\ (Creating(r) \/ Patching(r))
      /\ Over(r) /\ doubt' = doubt \cup {x \in {job[r].item} \cap Items : job[r].live}
      /\ UNCHANGED <<text, row, objects, selected, draft, shown, loads, chosen, moved, excused>>
  BY DEF AnswerLost, Creating, Patching, tables, dialogVars
<1>2. /\ pc' \in [Requests -> Stations]
      /\ job' \in [Requests -> Job] /\ job'[r] = NoJob /\ pc'[r] = "over"
      /\ \A q \in Requests : q # r => pc'[q] = pc[q] /\ job'[q] = job[q]
  BY <1>1, OverStep
<1>3. doubt \subseteq doubt' /\ doubt' \subseteq Items
  BY <1>1 DEF TypeOK
<1>4. TypeOK'
  BY <1>1, <1>2, <1>3 DEF TypeOK, Stations
<1>5. Working' /\ BucketInv'
  BY <1>1, Ended
<1>6. RowsInv'
  <2>1. \A q \in Requests :
            /\ Creating(q)' /\ job'[q].item \in Items =>
                   Creating(q) /\ job'[q].item = job[q].item /\ job'[q].issue = job[q].issue
            /\ pc'[q] = "answered" /\ job'[q].kind = "removeFile" =>
                   pc[q] = "answered" /\ job[q].kind = "removeFile" /\ job'[q].item = job[q].item
    BY <1>2, NoJobFields DEF Creating
  <2> QED
    BY <1>1, <1>4, <2>1, RowsRest
<1>7. LoadsInv'
  BY <1>1 DEF LoadsInv
<1>8. GoneInv'
  <2>1. selected = None => ~job[r].live
    BY DEF Working, WorkingOf
  <2> QED
    BY <1>1, <2>1 DEF GoneInv
<1>9. ChosenInv'
  <2>1. \A q \in Requests : job'[q].live => job[q].live /\ job'[q].issue = job[q].issue
    BY <1>2, NoJobFields
  <2> QED
    BY <1>1, <2>1, ChosenRests
<1>10. ListsInv'
  <2>1. ASSUME NEW q \in Requests, NEW x \in Items, x \notin doubt', job[q].live, Concerns(q, x)
        PROVE  job'[q].live /\ Concerns(q, x)'
    <3>1. q # r
      BY <1>1, <2>1 DEF Concerns
    <3> QED
      BY <1>2, <2>1, <3>1 DEF Concerns
  <2> QED
    BY <1>1, <1>3, <2>1, ListsRest
<1> QED
  BY <1>4, <1>5, <1>6, <1>7, <1>8, <1>9, <1>10

-------------------------------------------------------------------------------
(***************************************************************************)
(* Theorems                                                                *)
(***************************************************************************)

LEMMA InvStep == Inv /\ [Next]_vars => Inv'
<1> SUFFICES ASSUME Inv, [Next]_vars PROVE Inv'
  OBVIOUS
<1>1. CASE UNCHANGED vars
  <2>1. UNCHANGED <<text, row, objects, selected, draft, shown, loads, pc, job, chosen, moved, excused, doubt>>
    BY <1>1 DEF vars, tables, dialogVars, requestVars, historyVars
  <2>2. TypeOK' /\ Working' /\ RowsInv' /\ LoadsInv' /\ GoneInv'
    BY <2>1 DEF Inv, TypeInv, TypeOK, Working, WorkingOf, InFlight, RowsInv, Creating, Patching, LoadsInv, GoneInv
  <2>3. BucketInv' /\ ChosenInv' /\ ListsInv'
    BY <2>1, BucketRests, ChosenRests, ListsRest DEF Inv, Concerns
  <2> QED
    BY <2>2, <2>3 DEF Inv, TypeInv
<1>2. CASE PageStep
  BY <1>2, OpenStep, CloseStep, TypeStep, ReadStep, LoadedStep, LoadFailsStep DEF PageStep
<1>3. ASSUME NEW r \in Requests, Handler(r) PROVE Inv'
  BY <1>3, LoadCopyStep, UpdateIssueStep, ReloadStep, DeleteIssueStep, LoadIssueStep, InsertStep, SignStep, PutStep,
     RemoveStep, EraseStep, FailStep DEF Handler
<1>4. ASSUME NEW r \in Requests, Answer(r) PROVE Inv'
  BY <1>4, PatchedStep, IssueRemovedStep, AddedStep, FileRemovedStep,
     AnswerLostStep DEF Answer
<1> QED
  BY <1>1, <1>2, <1>3, <1>4, AskStep DEF Next

LEMMA Invariance == Spec => []Inv
  BY InvInit, InvStep, PTL DEF Spec

\* Every variable keeps its type, whatever requests, answers and faults cross.
THEOREM TypeCorrect == Spec => []TypeOK
<1>1. Inv => TypeOK
  BY DEF Inv, TypeInv
<1> QED
  BY <1>1, Invariance, PTL

\* The bucket holds the bytes of the attachments that have a row and of no
\* other, but for those the property names: attachments.go writes the two in
\* two steps, in the one order and in the other.
THEOREM BucketMatches == Spec => []BucketMatchesRows
<1>1. Inv => BucketMatchesRows
  BY DEF Inv, BucketInv
<1> QED
  BY <1>1, Invariance, PTL

\* The dialog, its draft, its loads and its lists are those of the issue the
\* user has opened, unless an answer to a dialog that was closed decided
\* otherwise: nothing in issue-detail.tsx drops such an answer.
THEOREM DialogStands == Spec => []DialogIsChosen
<1>1. Inv => DialogIsChosen
  BY DEF Inv, ChosenInv
<1> QED
  BY <1>1, Invariance, PTL

\* A dialog that awaits nothing lists the rows of its issue, each once, but for
\* those in doubt.
THEOREM ListsSettle == Spec => []SettledListsAreRight
<1>1. Inv => SettledListsAreRight
  <2> SUFFICES ASSUME Inv, selected # None, ~moved, Settled, NEW x \in Items \ doubt
               PROVE  shown[x] = IF row[x] = chosen THEN 1 ELSE 0
    BY DEF SettledListsAreRight
  <2>1. \A r \in Requests : job[r].live => Live(r)
    BY NoJobFields DEF Inv, TypeInv, Working, WorkingOf, Live
  <2>2. \A r \in Requests : ~(job[r].live /\ Concerns(r, x))
    BY <2>1 DEF Settled, Concerns
  <2> QED
    BY <2>2 DEF Inv, ListsInv, Settled
<1> QED
  BY <1>1, Invariance, PTL

===============================================================================
