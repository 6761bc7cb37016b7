---------------------------- MODULE Planning_proofs ----------------------------
(***************************************************************************)
(* Proofs about Planning, for any issues, sprints, pages and requests: the *)
(* type invariant, that a page at rest is right about all that it cannot   *)
(* know to be wrong, and who strands issues and reopens sprints.           *)
(***************************************************************************)
EXTENDS Planning, TLAPS

-------------------------------------------------------------------------------
(***************************************************************************)
(* The inductive invariant                                                 *)
(***************************************************************************)

Exists(x) == IF x \in Issues THEN issue[x] # None ELSE sprint[x] # None

\* What a request has in hand at each of its stations.
WorkingOf(r) ==
    LET k == job[r].kind
        p == job[r].page
        x == job[r].item IN
    /\ ~InFlight(r) => job[r] = NoJob
    /\ InFlight(r) => k # "" /\ p \in open
    /\ k = "create" =>
           /\ p \in Backlogs \cup SprintPages /\ pc[r] \in {"sent", "answered"}
           /\ pc[r] = "sent" => x = None
           /\ pc[r] = "answered" =>
                  \/ p \in Backlogs /\ x \in Issues /\ got[r] \in Statuses
                  \/ p \in SprintPages /\ x \in Sprints /\ got[r] \in SprintStatuses
    /\ k \in {"start", "complete"} =>
           /\ p \in SprintPages /\ ~loading[p] /\ x \in Sprints
           /\ \E e \in list[p] : e.id = x
           /\ pc[r] = "answered" => got[r] \in SprintStatuses
    /\ k \in {"assign", "status"} =>
           /\ p \in Backlogs /\ ~loading[p] /\ x \in Issues /\ pc[r] = "sent"
           /\ \E e \in list[p] : e.id = x
           /\ IF k = "assign" THEN job[r].to \in Sprints ELSE job[r].to \in Statuses
    /\ pc[r] \in {"closing", "fetching", "fetched"} => k = "complete"

Working == \A r \in Requests : WorkingOf(r)

PagesInv ==
    /\ \A p \in Pages : loading[p] \/ list[p] # {} => p \in open
    /\ \A p \in Pages : toRead[p] \subseteq Tables(p)

\* No row is ever deleted.
RowsInv ==
    /\ \A p \in Pages : \A e \in list[p] \cup reply[p] : Exists(e.id)
    /\ \A r \in Requests : \A e \in back[r] : e.id \in Issues /\ Exists(e.id)
    /\ \A r \in Requests : job[r].item # None => Exists(job[r].item)
    /\ \A r \in Requests : \A i \in swept[r] : Exists(i)

TypeInv == TypeOK /\ Working /\ PagesInv /\ RowsInv

\* Entries that have an item if and only if it is in the table, and as it is there.
Holds(e) ==
    IF e.id \in Issues THEN e.status = issue[e.id].status /\ e.sprint = issue[e.id].sprint
    ELSE e.status = sprint[e.id]

Has(entries, x) == \E e \in entries : e.id = x

True(entries, x) == \A e \in entries : e.id = x => Exists(x) /\ Holds(e)

Exact(entries, x) == (Exists(x) => Has(entries, x)) /\ True(entries, x)

\* The answer to a creation is still to come.
NotYet(p, x) ==
    \E r \in Requests :
        pc[r] = "answered" /\ job[r].kind = "create" /\ job[r].page = p /\ job[r].item = x

OnItsWay(p, x) == NotYet(p, x) \/ Has(list[p], x)

\* So are the answers that are on their way, but for what was changed since: only
\* what the page creates while it is loading need not be in its reply.
AnswersInv ==
    /\ \A p \in Pages : loading[p] => \A t \in Tables(p) :
           IF t \in toRead[p] THEN \A e \in reply[p] : e.id \notin ItemsOf(t)
           ELSE \A x \in ItemsOf(t) \ since[p] :
                    /\ True(reply[p], x)
                    /\ Exists(x) => Has(reply[p], x) \/ OnItsWay(p, x)
    /\ \A r \in Requests : pc[r] = "answered" /\ job[r].item \notin since[r] =>
           IF job[r].item \in Issues
           THEN issue[job[r].item].status = got[r] /\ issue[job[r].item].sprint = None
           ELSE sprint[job[r].item] = got[r]
    /\ \A r \in Requests : pc[r] = "fetched" => \A x \in Issues \ since[r] : Exact(back[r], x)

\* An answer will tell a page of an item, or add it.
Coming(p, x) ==
    \E r \in Requests :
        /\ job[r].page = p
        /\ \/ pc[r] = "answered" /\ job[r].kind \in {"start", "complete"} /\ job[r].item = x
           \/ x \in Issues /\ job[r].kind = "complete" /\ pc[r] \in {"answered", "fetching", "fetched"}

\* A patch that was shown and not yet made.
Patching(r, p, i, kind) ==
    pc[r] = "sent" /\ job[r].kind = kind /\ job[r].page = p /\ job[r].item = i

\* An entry is as in the table, but for the patches.
AsAsked(p, e) ==
    IF e.id \in Issues
    THEN /\ \/ /\ \E r \in Requests : Patching(r, p, e.id, "status")
               /\ \A r \in Requests : Patching(r, p, e.id, "status") => e.status = job[r].to
            \/ /\ ~\E r \in Requests : Patching(r, p, e.id, "status")
               /\ e.status = issue[e.id].status
         /\ \/ /\ \E r \in Requests : Patching(r, p, e.id, "assign")
               /\ \A r \in Requests : Patching(r, p, e.id, "assign") => e.sprint = job[r].to
            \/ /\ ~\E r \in Requests : Patching(r, p, e.id, "assign")
               /\ e.sprint = issue[e.id].sprint
    ELSE e.status = sprint[e.id]

RightAbout(p, x) ==
    \/ Coming(p, x)
    \/ /\ Exists(x) /\ x \notin crossed[p] => OnItsWay(p, x)
       /\ \A e \in list[p] : e.id = x => AsAsked(p, e)

\* An item of its tables that the page shows, and has no reason to show wrong.
Believed(p, x) ==
    ~loading[p] /\ x \notin stale[p] /\ \E t \in Tables(p) : x \in ItemsOf(t)

ListInv == \A p \in open, x \in Items : Believed(p, x) => RightAbout(p, x)

\* Two requests of a page about one sprint are in flight only if it is stale.
TwiceInv ==
    \A r, q \in Requests :
        /\ r # q /\ InFlight(r) /\ InFlight(q) /\ job[r].page = job[q].page
        /\ job[r].item = job[q].item /\ job[r].item \in Sprints
        => job[r].item \in stale[job[r].page]

\* What a page asks of a completed sprint, it asks because it does not know.
AskedInv ==
    \A r \in Requests : pc[r] = "sent" =>
        /\ job[r].kind = "assign" =>
               job[r].to \in stale[job[r].page] \/ sprint[job[r].to] # "completed"
        /\ job[r].kind = "start" =>
               job[r].item \in stale[job[r].page] \/ sprint[job[r].item] # "completed"

Inv == TypeInv /\ AnswersInv /\ ListInv /\ TwiceInv /\ AskedInv

\* The answer or patch of a request regards an item of a page.
Regards(r, p, x) ==
    /\ job[r].page = p
    /\ \/ pc[r] = "answered" /\ job[r].item = x
       \/ pc[r] = "sent" /\ job[r].item = x /\ job[r].kind \in {"status", "assign"}
       \/ x \in Issues /\ job[r].kind = "complete" /\ pc[r] \in {"answered", "fetching", "fetched"}

-------------------------------------------------------------------------------
(***************************************************************************)
(* Values and records                                                      *)
(***************************************************************************)

LEMMA Apart ==
    /\ \A p \in Backlogs : p \in Pages /\ p \notin SprintPages /\ p \notin Dashboards
    /\ \A p \in SprintPages : p \in Pages /\ p \notin Backlogs /\ p \notin Dashboards
    /\ \A p \in Pages : p \notin Requests /\ p # None
    /\ \A x \in Issues : x \in Items /\ x \notin Sprints /\ x # None
    /\ \A x \in Sprints : x \in Items /\ x \notin Issues /\ x # None
    /\ \A x \in Items : x \in Issues \/ x \in Sprints
    /\ None \notin Statuses /\ None \notin Row /\ None \notin SprintStatuses
    /\ "todo" \in Statuses
  BY NoneAssumption, PageAssumption, ItemAssumption, StatusAssumption DEF Pages, Items

LEMMA OpenPages == TypeOK => \A p \in open : p \in Pages
  BY PageAssumption DEF TypeOK, Pages

LEMMA TablesAre ==
    /\ \A p : Tables(p) \subseteq {"issues", "sprints"}
    /\ \A p \in Backlogs \cup SprintPages : Tables(p) = {"issues", "sprints"}
    /\ ItemsOf("issues") = Issues /\ ItemsOf("sprints") = Sprints
  BY Apart DEF Tables, ItemsOf

LEMMA NoJobFields ==
    NoJob \in Job /\ NoJob.kind = "" /\ NoJob.page = None /\ NoJob.item = None /\ NoJob.to = None
  BY DEF NoJob, Job

LEMMA JobFields ==
    \A j \in Job :
        /\ j.kind \in {"", "create", "start", "complete", "assign", "status"}
        /\ j.page \in Pages \cup {None} /\ j.item \in Items \cup {None}
        /\ j.to \in Sprints \cup Statuses \cup {None}
  BY DEF Job

LEMMA JobItem ==
    \A j \in Job, x \in Items : LET k == [j EXCEPT !.item = x] IN
        k \in Job /\ k.kind = j.kind /\ k.page = j.page /\ k.item = x /\ k.to = j.to
  BY DEF Job

LEMMA EntryFields ==
    \A e \in Entry :
        \/ e.id \in Issues /\ e.status \in Statuses /\ e.sprint \in Sprints \cup {None}
        \/ e.id \in Sprints /\ e.status \in SprintStatuses /\ e.sprint = None
  BY DEF Entry

LEMMA Doubles == \A e \in Entry : e.double \in BOOLEAN
  BY DEF Entry

LEMMA NewEntryFields ==
    ASSUME NEW x, NEW st, NEW sp, NEW d \in BOOLEAN,
           \/ x \in Issues /\ st \in Statuses /\ sp \in Sprints \cup {None}
           \/ x \in Sprints /\ st \in SprintStatuses /\ sp = None
    PROVE  LET e == NewEntry(x, st, sp, d) IN
               e \in Entry /\ e.id = x /\ e.status = st /\ e.sprint = sp /\ e.double = d
  BY DEF NewEntry, Entry

\* One field of an entry is set.
LEMMA EntryStatus ==
    ASSUME NEW e \in Entry, NEW st,
           \/ e.id \in Issues /\ st \in Statuses
           \/ e.id \in Sprints /\ st \in SprintStatuses
    PROVE  LET f == [e EXCEPT !.status = st] IN
               f \in Entry /\ f.id = e.id /\ f.status = st /\ f.sprint = e.sprint /\ f.double = e.double
<1>1. CASE e \in [id : Issues, status : Statuses, sprint : Sprints \cup {None}, double : BOOLEAN]
  BY <1>1, Apart DEF Entry
<1>2. CASE e \in [id : Sprints, status : SprintStatuses, sprint : {None}, double : BOOLEAN]
  BY <1>2, Apart DEF Entry
<1> QED
  BY <1>1, <1>2 DEF Entry

LEMMA EntrySprint ==
    ASSUME NEW e \in Entry, e.id \in Issues, NEW sp \in Sprints
    PROVE  LET f == [e EXCEPT !.sprint = sp] IN
               f \in Entry /\ f.id = e.id /\ f.status = e.status /\ f.sprint = sp /\ f.double = e.double
<1>1. e \in [id : Issues, status : Statuses, sprint : Sprints \cup {None}, double : BOOLEAN]
  BY Apart DEF Entry
<1> QED
  BY <1>1 DEF Entry

LEMMA StatusSet ==
    ASSUME NEW entries \in SUBSET Entry, NEW x, NEW st,
           \/ x \in Issues /\ st \in Statuses
           \/ x \in Sprints /\ st \in SprintStatuses
    PROVE  LET M == WithStatus(entries, x, st) IN
           /\ M \subseteq Entry
           /\ \A f \in M : \E e \in entries :
                  /\ f.id = e.id /\ f.sprint = e.sprint /\ f.double = e.double
                  /\ IF e.id = x THEN f.status = st ELSE f = e
           /\ \A e \in entries : \E f \in M : f.id = e.id /\ (e.id # x => f = e)
<1> DEFINE M == WithStatus(entries, x, st)
<1>1. \A e \in entries : e.id = x => LET f == [e EXCEPT !.status = st] IN
          f \in Entry /\ f.id = e.id /\ f.status = st /\ f.sprint = e.sprint /\ f.double = e.double
  BY EntryStatus
<1>2. ASSUME NEW f \in M
      PROVE  f \in Entry /\ \E e \in entries :
                 /\ f.id = e.id /\ f.sprint = e.sprint /\ f.double = e.double
                 /\ IF e.id = x THEN f.status = st ELSE f = e
  <2>1. PICK e \in entries : f = IF e.id = x THEN [e EXCEPT !.status = st] ELSE e
    BY DEF WithStatus
  <2>2. CASE e.id = x
    BY <1>1, <2>1, <2>2
  <2>3. CASE e.id # x
    BY <2>1, <2>3
  <2> QED
    BY <2>2, <2>3
<1>3. ASSUME NEW e \in entries PROVE \E f \in M : f.id = e.id /\ (e.id # x => f = e)
  <2>1. CASE e.id = x
    <3>1. [e EXCEPT !.status = st] \in M
      BY <2>1 DEF WithStatus
    <3> QED
      BY <1>1, <2>1, <3>1
  <2>2. CASE e.id # x
    BY <2>2 DEF WithStatus
  <2> QED
    BY <2>1, <2>2
<1> QED
  BY <1>2, <1>3

LEMMA SprintSet ==
    ASSUME NEW entries \in SUBSET Entry, NEW x \in Issues, NEW sp \in Sprints
    PROVE  LET M == WithSprint(entries, x, sp) IN
           /\ M \subseteq Entry
           /\ \A f \in M : \E e \in entries :
                  /\ f.id = e.id /\ f.status = e.status /\ f.double = e.double
                  /\ IF e.id = x THEN f.sprint = sp ELSE f = e
           /\ \A e \in entries : \E f \in M : f.id = e.id /\ (e.id # x => f = e)
<1> DEFINE M == WithSprint(entries, x, sp)
<1>1. \A e \in entries : e.id = x => LET f == [e EXCEPT !.sprint = sp] IN
          f \in Entry /\ f.id = e.id /\ f.status = e.status /\ f.sprint = sp /\ f.double = e.double
  BY EntrySprint
<1>2. ASSUME NEW f \in M
      PROVE  f \in Entry /\ \E e \in entries :
                 /\ f.id = e.id /\ f.status = e.status /\ f.double = e.double
                 /\ IF e.id = x THEN f.sprint = sp ELSE f = e
  <2>1. PICK e \in entries : f = IF e.id = x THEN [e EXCEPT !.sprint = sp] ELSE e
    BY DEF WithSprint
  <2>2. CASE e.id = x
    BY <1>1, <2>1, <2>2
  <2>3. CASE e.id # x
    BY <2>1, <2>3
  <2> QED
    BY <2>2, <2>3
<1>3. ASSUME NEW e \in entries PROVE \E f \in M : f.id = e.id /\ (e.id # x => f = e)
  <2>1. CASE e.id = x
    <3>1. [e EXCEPT !.sprint = sp] \in M
      BY <2>1 DEF WithSprint
    <3> QED
      BY <1>1, <2>1, <3>1
  <2>2. CASE e.id # x
    BY <2>2 DEF WithSprint
  <2> QED
    BY <2>1, <2>2
<1> QED
  BY <1>2, <1>3

\* A list the API answers is the table.
LEMMA ListIsTable ==
    ASSUME TypeOK, NEW t \in {"issues", "sprints"}
    PROVE  /\ ListOf(t) \subseteq Entry
           /\ \A e \in ListOf(t) : e.id \in ItemsOf(t) /\ Exists(e.id) /\ e.double = FALSE
           /\ \A x \in ItemsOf(t) : Exact(ListOf(t), x)
<1>1. CASE t = "issues"
  <2> DEFINE N(i) == NewEntry(i, issue[i].status, issue[i].sprint, FALSE)
  <2>1. ASSUME NEW i \in Issues, issue[i] # None
        PROVE  /\ N(i) \in Entry /\ N(i).id = i /\ N(i).status = issue[i].status
               /\ N(i).sprint = issue[i].sprint /\ N(i).double = FALSE
    <3>1. issue[i].status \in Statuses /\ issue[i].sprint \in Sprints \cup {None}
      BY <2>1 DEF TypeOK, Row
    <3> QED
      BY <3>1 DEF NewEntry, Entry
  <2>2. ListOf(t) = {N(i) : i \in {j \in Issues : issue[j] # None}}
    BY <1>1 DEF ListOf
  <2>3. ItemsOf(t) = Issues
    BY <1>1, TablesAre
  <2> HIDE DEF N
  <2>4. \A e \in ListOf(t) :
            /\ e \in Entry /\ e.id \in Issues /\ issue[e.id] # None
            /\ e.status = issue[e.id].status /\ e.sprint = issue[e.id].sprint /\ e.double = FALSE
    <3> SUFFICES ASSUME NEW e \in ListOf(t)
                 PROVE  /\ e \in Entry /\ e.id \in Issues /\ issue[e.id] # None
                        /\ e.status = issue[e.id].status /\ e.sprint = issue[e.id].sprint
                        /\ e.double = FALSE
      OBVIOUS
    <3>1. PICK i \in Issues : issue[i] # None /\ e = N(i)
      BY <2>2
    <3> QED
      BY <2>1, <3>1
  <2>5. \A i \in Issues : issue[i] # None => \E e \in ListOf(t) : e.id = i
    BY <2>1, <2>2
  <2> QED
    BY <2>3, <2>4, <2>5 DEF Exact, Has, True, Exists, Holds
<1>2. CASE t = "sprints"
  <2> DEFINE N(s) == NewEntry(s, sprint[s], None, FALSE)
  <2>1. ASSUME NEW s \in Sprints, sprint[s] # None
        PROVE  N(s) \in Entry /\ N(s).id = s /\ N(s).status = sprint[s] /\ N(s).double = FALSE
    <3>1. sprint[s] \in SprintStatuses
      BY <2>1 DEF TypeOK
    <3> QED
      BY <3>1 DEF NewEntry, Entry
  <2>2. ListOf(t) = {N(s) : s \in {z \in Sprints : sprint[z] # None}}
    BY <1>2 DEF ListOf
  <2>3. ItemsOf(t) = Sprints
    BY <1>2, TablesAre
  <2> HIDE DEF N
  <2>4. \A e \in ListOf(t) :
            /\ e \in Entry /\ e.id \in Sprints /\ sprint[e.id] # None
            /\ e.status = sprint[e.id] /\ e.double = FALSE
    <3> SUFFICES ASSUME NEW e \in ListOf(t)
                 PROVE  /\ e \in Entry /\ e.id \in Sprints /\ sprint[e.id] # None
                        /\ e.status = sprint[e.id] /\ e.double = FALSE
      OBVIOUS
    <3>1. PICK z \in Sprints : sprint[z] # None /\ e = N(z)
      BY <2>2
    <3> QED
      BY <2>1, <3>1
  <2>5. \A s \in Sprints : sprint[s] # None => \E e \in ListOf(t) : e.id = s
    BY <2>1, <2>2
  <2> QED
    BY <2>3, <2>4, <2>5, Apart DEF Exact, Has, True, Exists, Holds
<1> QED
  BY <1>1, <1>2

LEMMA ItemsListed ==
    /\ \A p \in Backlogs \cup SprintPages : \A x \in Items : \E t \in Tables(p) : x \in ItemsOf(t)
    /\ \A p : \A t \in Tables(p) : \A x \in ItemsOf(t) : x \in Items
<1>1. \A p : \A t \in Tables(p) : \A x \in ItemsOf(t) : x \in Items
  BY TablesAre, Apart
<1>2. ASSUME NEW p \in Backlogs \cup SprintPages, NEW x \in Items
      PROVE  \E t \in Tables(p) : x \in ItemsOf(t)
  <2>1. Tables(p) = {"issues", "sprints"}
    BY TablesAre
  <2>2. CASE x \in Issues
    BY <2>1, <2>2, TablesAre
  <2>3. CASE x \in Sprints
    BY <2>1, <2>3, TablesAre
  <2> QED
    BY <2>2, <2>3, Apart
<1> QED
  BY <1>1, <1>2

-------------------------------------------------------------------------------
(***************************************************************************)
(* What a step leaves alone                                                *)
(***************************************************************************)

LEMMA PageOf ==
    ASSUME TypeInv, NEW r \in Requests
    PROVE  /\ job[r] \in Job
           /\ InFlight(r) => job[r].page \in open /\ job[r].page \in Pages
           /\ job[r].kind # "" => InFlight(r)
           /\ pc[r] \in {"sent", "closing", "answered", "fetching", "fetched"} <=> InFlight(r)
<1>1. WorkingOf(r) /\ job[r] \in Job
  BY DEF TypeInv, Working, TypeOK
<1>2. TypeOK
  BY DEF TypeInv
<1> QED
  BY <1>1, <1>2, OpenPages, NoJobFields DEF WorkingOf, InFlight

LEMMA OthersWork ==
    ASSUME TypeInv, UNCHANGED open,
           \A q \in Requests :
               \/ pc'[q] = pc[q] /\ job'[q] = job[q] /\ got'[q] = got[q]
               \/ WorkingOf(q)',
           \A p \in Pages : ~loading[p] => ~loading'[p],
           \A p \in Pages : ~loading[p] => \A e \in list[p] :
               e.id \in Sprints \/ p \in Backlogs => \E f \in list'[p] : f.id = e.id
    PROVE  Working'
<1> SUFFICES ASSUME NEW q \in Requests, pc'[q] = pc[q] /\ job'[q] = job[q] /\ got'[q] = got[q]
             PROVE  WorkingOf(q)'
  BY DEF Working
<1>1. WorkingOf(q)
  BY DEF TypeInv, Working
<1>2. job[q].kind \in {"start", "complete", "assign", "status"} =>
          /\ job[q].page \in Pages /\ ~loading[job[q].page]
          /\ job[q].page \in Backlogs \/ job[q].item \in Sprints
          /\ \E e \in list[job[q].page] : e.id = job[q].item
  BY <1>1, Apart DEF WorkingOf
<1>3. job[q].kind \in {"start", "complete", "assign", "status"} =>
          /\ ~loading'[job[q].page]
          /\ \E f \in list'[job[q].page] : f.id = job[q].item
  BY <1>2
<1> QED
  BY <1>1, <1>3 DEF WorkingOf, InFlight

\* The tables stand still, and nothing new is answered.
LEMMA AnswersRest ==
    ASSUME AnswersInv, UNCHANGED <<issue, sprint>>,
           \A p \in Pages : loading'[p] =>
               /\ loading[p] /\ toRead'[p] = toRead[p] /\ reply'[p] = reply[p]
               /\ since[p] \subseteq since'[p],
           \A p \in Pages : loading'[p] =>
               \A t \in Tables(p) \ toRead'[p] : \A x \in ItemsOf(t) \ since'[p] :
                   OnItsWay(p, x) => OnItsWay(p, x)',
           \A q \in Requests : pc'[q] = "answered" =>
               /\ pc[q] = "answered" /\ job'[q] = job[q] /\ got'[q] = got[q]
               /\ since[q] \subseteq since'[q],
           \A q \in Requests : pc'[q] = "fetched" =>
               pc[q] = "fetched" /\ back'[q] = back[q] /\ since[q] \subseteq since'[q]
    PROVE  AnswersInv'
<1>1. ASSUME NEW p \in Pages, loading'[p], NEW t \in Tables(p), t \in toRead'[p]
      PROVE  \A e \in reply'[p] : e.id \notin ItemsOf(t)
  BY <1>1 DEF AnswersInv
<1>2. ASSUME NEW p \in Pages, loading'[p], NEW t \in Tables(p), t \notin toRead'[p],
             NEW x \in ItemsOf(t), x \notin since'[p]
      PROVE  True(reply[p], x)' /\ (Exists(x)' => Has(reply[p], x)' \/ OnItsWay(p, x)')
  <2>1. /\ True(reply[p], x) /\ reply'[p] = reply[p]
        /\ Exists(x) => Has(reply[p], x) \/ OnItsWay(p, x)
    BY <1>2 DEF AnswersInv
  <2>2. OnItsWay(p, x) => OnItsWay(p, x)'
    BY <1>2
  <2> QED
    BY <2>1, <2>2 DEF True, Has, Exists, Holds
<1>3. \A r \in Requests : pc'[r] = "answered" /\ job'[r].item \notin since'[r] =>
          IF job'[r].item \in Issues
          THEN issue'[job'[r].item].status = got'[r] /\ issue'[job'[r].item].sprint = None
          ELSE sprint'[job'[r].item] = got'[r]
  BY DEF AnswersInv
<1>4. ASSUME NEW r \in Requests, pc'[r] = "fetched", NEW x \in Issues, x \notin since'[r]
      PROVE  Exact(back[r], x)'
  <2>1. Exact(back[r], x) /\ back'[r] = back[r]
    BY <1>4 DEF AnswersInv
  <2> QED
    BY <2>1 DEF Exact, Has, True, Exists, Holds
<1> QED
  BY <1>1, <1>2, <1>3, <1>4 DEF AnswersInv

\* What a page created is still on its way, or listed.
LEMMA WayRests ==
    ASSUME NEW p, NEW x, OnItsWay(p, x), \A e \in list[p] : \E f \in list'[p] : f.id = e.id,
           \A q \in Requests :
               \/ pc'[q] = pc[q] /\ job'[q] = job[q]
               \/ ~(pc[q] = "answered" /\ job[q].kind = "create" /\ job[q].page = p /\ job[q].item = x)
    PROVE  OnItsWay(p, x)'
<1>1. NotYet(p, x) => NotYet(p, x)'
  BY DEF NotYet
<1>2. Has(list[p], x) => Has(list[p], x)'
  BY DEF Has
<1> QED
  BY <1>1, <1>2 DEF OnItsWay

LEMMA SprintsRest ==
    ASSUME TypeInv, TwiceInv, AskedInv, UNCHANGED sprint,
           \A q \in Requests :
               /\ InFlight(q)' => InFlight(q) /\ job'[q] = job[q]
               /\ pc'[q] = "sent" => pc[q] = "sent",
           \A p \in Pages : \A s \in Sprints : s \in stale[p] => s \in stale'[p]
    PROVE  TwiceInv' /\ AskedInv'
<1>1. TwiceInv'
  <2> SUFFICES ASSUME NEW r \in Requests, NEW q \in Requests, r # q, InFlight(r)', InFlight(q)',
                      job'[r].page = job'[q].page, job'[r].item = job'[q].item,
                      job'[r].item \in Sprints
               PROVE  job'[r].item \in stale'[job'[r].page]
    BY DEF TwiceInv
  <2>1. InFlight(r) /\ InFlight(q) /\ job'[r] = job[r] /\ job'[q] = job[q] /\ job[r].page \in Pages
    BY PageOf
  <2> QED
    BY <2>1 DEF TwiceInv
<1>2. AskedInv'
  <2> SUFFICES ASSUME NEW r \in Requests, pc'[r] = "sent"
               PROVE  /\ job'[r].kind = "assign" =>
                             job'[r].to \in stale'[job'[r].page] \/ sprint'[job'[r].to] # "completed"
                      /\ job'[r].kind = "start" =>
                             job'[r].item \in stale'[job'[r].page] \/ sprint'[job'[r].item] # "completed"
    BY DEF AskedInv
  <2>1. pc[r] = "sent" /\ job'[r] = job[r] /\ job[r].page \in Pages
    BY PageOf DEF InFlight
  <2>2. WorkingOf(r)
    BY DEF TypeInv, Working
  <2> QED
    BY <2>1, <2>2 DEF AskedInv, WorkingOf
<1> QED
  BY <1>1, <1>2

\* A page stays right about an item that nothing of the step regards.
LEMMA RightRests ==
    ASSUME NEW p, NEW x, RightAbout(p, x), crossed'[p] = crossed[p],
           x \in Issues => issue'[x] = issue[x],
           x \notin Issues => sprint'[x] = sprint[x],
           \A e \in list[p] \cup list'[p] : e.id = x => (e \in list'[p] <=> e \in list[p]),
           \A q \in Requests : \/ pc'[q] = pc[q] /\ job'[q] = job[q]
                               \/ ~Regards(q, p, x) /\ ~Regards(q, p, x)'
    PROVE  RightAbout(p, x)'
<1>1. Coming(p, x) => Coming(p, x)'
  BY DEF Coming, Regards
<1>2. NotYet(p, x) => NotYet(p, x)'
  BY DEF NotYet, Regards
<1>3. \A q \in Requests, k \in {"status", "assign"} :
          /\ Patching(q, p, x, k)' <=> Patching(q, p, x, k)
          /\ Patching(q, p, x, k) => job'[q].to = job[q].to
  BY DEF Patching, Regards
<1>4. Exists(x)' <=> Exists(x)
  BY DEF Exists
<1>5. \A e \in list[p] : e.id = x /\ AsAsked(p, e) => AsAsked(p, e)'
  <2> SUFFICES ASSUME NEW e \in list[p], e.id = x, AsAsked(p, e) PROVE AsAsked(p, e)'
    OBVIOUS
  <2>1. CASE x \in Issues
    BY <1>3, <2>1 DEF AsAsked
  <2>2. CASE x \notin Issues
    BY <2>2 DEF AsAsked
  <2> QED
    BY <2>1, <2>2
<1>6. OnItsWay(p, x) => OnItsWay(p, x)'
  BY <1>2 DEF OnItsWay, Has
<1> QED
  BY <1>1, <1>4, <1>5, <1>6 DEF RightAbout

-------------------------------------------------------------------------------
(***************************************************************************)
(* The initial states                                                      *)
(***************************************************************************)

LEMMA InvInit == Init => Inv
<1> SUFFICES ASSUME Init PROVE Inv
  OBVIOUS
<1>1. \A r \in Requests : pc[r] = "idle" /\ job[r] = NoJob /\ ~InFlight(r)
  BY DEF Init, InFlight
<1>2. TypeOK
  <2>1. OneSubmission
    BY <1>1 DEF OneSubmission
  <2>2. toRead \in [Pages -> SUBSET {"issues", "sprints"}] /\ loading \in [Pages -> BOOLEAN]
    BY TablesAre DEF Init
  <2>3. job \in [Requests -> Job]
    BY NoJobFields DEF Init
  <2> QED
    BY <2>1, <2>2, <2>3 DEF Init, TypeOK
<1>3. Working
  BY <1>1, NoJobFields DEF Working, WorkingOf
<1>4. PagesInv /\ RowsInv
  BY <1>1, NoJobFields DEF Init, PagesInv, RowsInv
<1>5. AnswersInv
  BY <1>1 DEF Init, AnswersInv, PagesInv
<1>6. ListInv
  BY <1>2, OpenPages DEF Init, ListInv, Believed
<1>7. TwiceInv /\ AskedInv
  BY <1>1 DEF TwiceInv, AskedInv
<1> QED
  BY <1>2, <1>3, <1>4, <1>5, <1>6, <1>7 DEF Inv, TypeInv

-------------------------------------------------------------------------------
(***************************************************************************)
(* Opening a page                                                          *)
(***************************************************************************)

LEMMA ReadStep == ASSUME Inv, NEW p \in Pages, NEW t \in {"issues", "sprints"}, Read(p, t) PROVE Inv'
<1> USE DEF Inv, TypeInv
<1>1. /\ t \in toRead[p]
      /\ toRead' = [toRead EXCEPT ![p] = @ \ {t}] /\ reply' = [reply EXCEPT ![p] = @ \cup ListOf(t)]
      /\ UNCHANGED <<issue, sprint, open, loading, list, pc, job, got, back, stale, since, swept, crossed>>
  BY DEF Read, tables, requestVars
<1>2. /\ ListOf(t) \subseteq Entry
      /\ \A e \in ListOf(t) : e.id \in ItemsOf(t) /\ Exists(e.id)
      /\ \A x \in ItemsOf(t) : Exact(ListOf(t), x)
  BY ListIsTable
<1>3. /\ toRead'[p] = toRead[p] \ {t} /\ reply'[p] = reply[p] \cup ListOf(t)
      /\ \A q \in Pages : q # p => toRead'[q] = toRead[q] /\ reply'[q] = reply[q]
  BY <1>1 DEF TypeOK
<1>4. TypeOK'
  <2>1. toRead' \in [Pages -> SUBSET {"issues", "sprints"}]
    BY <1>1 DEF TypeOK
  <2>2. reply' \in [Pages -> SUBSET Entry]
    BY <1>1, <1>2 DEF TypeOK
  <2> QED
    BY <1>1, <2>1, <2>2 DEF TypeOK, OneSubmission, InFlight
<1>5. Working'
  BY <1>1 DEF Working, WorkingOf, InFlight
<1>6. PagesInv' /\ RowsInv'
  BY <1>1, <1>2, <1>3 DEF PagesInv, RowsInv, Exists
<1>7. AnswersInv'
  <2>1. ASSUME NEW q \in Pages, loading[q], NEW u \in Tables(q)
        PROVE  IF u \in toRead'[q] THEN \A e \in reply'[q] : e.id \notin ItemsOf(u)
               ELSE \A x \in ItemsOf(u) \ since[q] :
                        True(reply'[q], x) /\ (Exists(x) => Has(reply'[q], x) \/ OnItsWay(q, x))
    <3>1. CASE q # p
      BY <1>3, <2>1, <3>1 DEF AnswersInv
    <3>2. CASE q = p /\ u = t
      <4>1. \A e \in reply[p] : e.id \notin ItemsOf(t)
        BY <1>1, <2>1, <3>2 DEF AnswersInv
      <4>2. \A x \in ItemsOf(t) : True(reply'[p], x) /\ (Exists(x) => Has(reply'[p], x))
        BY <1>2, <1>3, <4>1 DEF Exact, True, Has
      <4> QED
        BY <1>3, <3>2, <4>2
    <3>3. CASE q = p /\ u # t
      <4>1. u \in {"issues", "sprints"}
        BY TablesAre
      <4>2. \A e \in ListOf(t) : e.id \notin ItemsOf(u)
        BY <1>2, <3>3, <4>1, TablesAre, Apart
      <4>3. u \in toRead'[q] <=> u \in toRead[q]
        BY <1>3, <3>3
      <4>4. CASE u \in toRead[q]
        BY <1>3, <2>1, <3>3, <4>2, <4>3, <4>4 DEF AnswersInv
      <4>5. CASE u \notin toRead[q]
        <5>1. \A x \in ItemsOf(u) \ since[q] :
                  True(reply[q], x) /\ (Exists(x) => Has(reply[q], x) \/ OnItsWay(q, x))
          BY <2>1, <4>5 DEF AnswersInv
        <5>2. \A x \in ItemsOf(u) \ since[q] :
                  True(reply'[q], x) /\ (Exists(x) => Has(reply'[q], x) \/ OnItsWay(q, x))
          BY <1>3, <3>3, <4>2, <5>1 DEF True, Has
        <5> QED
          BY <4>3, <4>5, <5>2
      <4> QED
        BY <4>4, <4>5
    <3> QED
      BY <3>1, <3>2, <3>3
  <2> QED
    BY <1>1, <2>1 DEF AnswersInv, Exact, True, Has, OnItsWay, NotYet, Exists, Holds
<1>8. ListInv'
  <2> SUFFICES ASSUME NEW q \in open, NEW x \in Items, Believed(q, x) PROVE RightAbout(q, x)'
    BY <1>1 DEF ListInv, Believed
  <2>1. RightAbout(q, x)
    BY DEF ListInv
  <2> QED
    BY <1>1, <2>1, RightRests
<1>9. TwiceInv' /\ AskedInv'
  BY <1>1, SprintsRest DEF InFlight
<1> QED
  BY <1>4, <1>5, <1>6, <1>7, <1>8, <1>9

\* While a page loads, only its form has been used.
LEMMA OnlyForms ==
    ASSUME TypeInv, NEW p \in Pages, loading[p], NEW r \in Requests, job[r].page = p
    PROVE  job[r].kind = "create"
<1>1. WorkingOf(r) /\ job[r] \in Job
  BY DEF TypeInv, Working, TypeOK
<1>2. InFlight(r)
  BY <1>1, NoJobFields, Apart DEF WorkingOf
<1> QED
  BY <1>1, <1>2, JobFields DEF WorkingOf

\* A page has its answers, or goes on with empty lists.
LEMMA LoadEnds ==
    ASSUME Inv, NEW p \in Pages, loading[p],
           UNCHANGED <<issue, sprint, open, pc, job, got, back, swept>>,
           NEW shown \in SUBSET Entry, NEW doubt \in SUBSET Items, NEW lapse \in SUBSET Items,
           list' = [list EXCEPT ![p] = shown], loading' = [loading EXCEPT ![p] = FALSE],
           reply' = [reply EXCEPT ![p] = {}], stale' = [stale EXCEPT ![p] = doubt],
           since' = [since EXCEPT ![p] = {}],
           toRead' = [toRead EXCEPT ![p] = {}], crossed' = [crossed EXCEPT ![p] = lapse],
           \A e \in shown : Exists(e.id),
           \A t \in Tables(p) : \A x \in ItemsOf(t) \ doubt :
               True(shown, x) /\ (Exists(x) /\ x \notin lapse => Has(shown, x) \/ NotYet(p, x))
    PROVE  Inv'
<1> USE DEF Inv, TypeInv
<1>1. /\ list'[p] = shown /\ ~loading'[p] /\ reply'[p] = {} /\ stale'[p] = doubt /\ toRead'[p] = {}
      /\ crossed'[p] = lapse
      /\ \A q \in Pages : q # p =>
            /\ list'[q] = list[q] /\ loading'[q] = loading[q] /\ reply'[q] = reply[q]
            /\ stale'[q] = stale[q] /\ since'[q] = since[q] /\ toRead'[q] = toRead[q]
            /\ crossed'[q] = crossed[q]
      /\ \A r \in Requests : since'[r] = since[r]
  BY Apart DEF TypeOK
<1>2. TypeOK'
  <2>1. /\ list' \in [Pages -> SUBSET Entry] /\ reply' \in [Pages -> SUBSET Entry]
        /\ stale' \in [Pages -> SUBSET Items] /\ toRead' \in [Pages -> SUBSET {"issues", "sprints"}]
    BY DEF TypeOK
  <2>2. /\ loading' \in [Pages -> BOOLEAN] /\ since' \in [Pages \cup Requests -> SUBSET Items]
        /\ crossed' \in [Pages -> SUBSET Items]
    BY DEF TypeOK
  <2> QED
    BY <2>1, <2>2 DEF TypeOK, OneSubmission, InFlight
<1>3. Working'
  <2> SUFFICES ASSUME NEW r \in Requests PROVE WorkingOf(r)'
    BY DEF Working
  <2>1. WorkingOf(r)
    BY DEF Working
  <2>2. CASE job[r].page = p
    BY <2>1, <2>2, OnlyForms DEF WorkingOf, InFlight
  <2>3. CASE job[r].page # p
    <3>1. job[r].kind \in {"start", "complete", "assign", "status"} => job[r].page \in Pages
      BY <2>1, Apart DEF WorkingOf
    <3>2. job[r].kind \in {"start", "complete", "assign", "status"} =>
              list'[job[r].page] = list[job[r].page] /\ loading'[job[r].page] = loading[job[r].page]
      BY <1>1, <2>3, <3>1
    <3> QED
      BY <2>1, <3>2 DEF WorkingOf, InFlight
  <2> QED
    BY <2>2, <2>3
<1>4. PagesInv' /\ RowsInv'
  BY <1>1 DEF PagesInv, RowsInv, Exists
<1>5. AnswersInv'
  <2>1. \A q \in Pages : loading'[q] => q # p
    BY <1>1
  <2>2. \A q \in Pages : \A x : q # p /\ OnItsWay(q, x) => OnItsWay(q, x)'
    BY <1>1 DEF OnItsWay, Has, NotYet
  <2> QED
    BY <1>1, <2>1, <2>2, AnswersRest
<1>6. ListInv'
  <2> SUFFICES ASSUME NEW q \in open, NEW x \in Items, Believed(q, x)' PROVE RightAbout(q, x)'
    BY DEF ListInv
  <2>1. q \in Pages
    BY OpenPages
  <2>2. CASE q = p
    <3>1. True(shown, x) /\ (Exists(x) /\ x \notin lapse => Has(shown, x) \/ NotYet(p, x))
      BY <1>1, <2>2 DEF Believed
    <3>2. \A r \in Requests, k \in {"status", "assign"} : ~Patching(r, p, x, k)
      BY OnlyForms DEF Patching
    <3>3. \A e \in shown : e.id = x => AsAsked(p, e)'
      <4>1. \A r \in Requests, k \in {"status", "assign"} : ~Patching(r, p, x, k)'
        BY <3>2 DEF Patching
      <4> QED
        BY <3>1, <4>1 DEF True, Holds, AsAsked
    <3>4. Exists(x) /\ x \notin lapse => OnItsWay(p, x)'
      BY <1>1, <3>1 DEF OnItsWay, Has, NotYet
    <3> QED
      BY <1>1, <2>2, <3>3, <3>4 DEF RightAbout, Exists
  <2>3. CASE q # p
    <3>1. Believed(q, x)
      BY <1>1, <2>1, <2>3 DEF Believed
    <3>2. RightAbout(q, x)
      BY <3>1 DEF ListInv
    <3> QED
      BY <1>1, <2>1, <2>3, <3>2, RightRests
  <2> QED
    BY <2>2, <2>3
<1>7. TwiceInv'
  <2> SUFFICES ASSUME NEW r \in Requests, NEW q \in Requests, r # q, InFlight(r), InFlight(q),
                      job[r].page = job[q].page, job[r].item = job[q].item, job[r].item \in Sprints
               PROVE  job[r].item \in stale'[job[r].page]
    BY DEF TwiceInv, InFlight
  <2>1. job[r].page # p
    BY OnlyForms DEF TypeOK, OneSubmission
  <2> QED
    BY <1>1, <2>1, PageOf DEF TwiceInv
<1>8. AskedInv'
  <2> SUFFICES ASSUME NEW r \in Requests, pc[r] = "sent", job[r].kind \in {"assign", "start"}
               PROVE  /\ job[r].kind = "assign" =>
                             job[r].to \in stale'[job[r].page] \/ sprint[job[r].to] # "completed"
                      /\ job[r].kind = "start" =>
                             job[r].item \in stale'[job[r].page] \/ sprint[job[r].item] # "completed"
    BY DEF AskedInv
  <2>1. job[r].page # p /\ job[r].page \in Pages
    BY OnlyForms, PageOf DEF InFlight
  <2> QED
    BY <1>1, <2>1 DEF AskedInv
<1> QED
  BY <1>2, <1>3, <1>4, <1>5, <1>6, <1>7, <1>8

LEMMA LoadStep == ASSUME Inv, NEW p \in Pages, Load(p) PROVE Inv'
<1> USE DEF Inv, TypeInv
<1>1. loading[p] /\ toRead[p] = {} /\ toRead' = [toRead EXCEPT ![p] = {}]
  BY DEF Load, TypeOK
<1>2. reply[p] \in SUBSET Entry /\ since[p] \in SUBSET Items
  BY DEF TypeOK
<1>3. \A t \in Tables(p) : \A x \in ItemsOf(t) \ since[p] :
          True(reply[p], x) /\ (Exists(x) => Has(reply[p], x) \/ OnItsWay(p, x))
  BY <1>1 DEF AnswersInv
<1>4. \A e \in reply[p] : Exists(e.id)
  BY DEF RowsInv
<1>5. /\ UNCHANGED <<issue, sprint, open, pc, job, got, back, swept>>
      /\ list' = [list EXCEPT ![p] = reply[p]] /\ loading' = [loading EXCEPT ![p] = FALSE]
      /\ reply' = [reply EXCEPT ![p] = {}] /\ stale' = [stale EXCEPT ![p] = since[p]]
      /\ since' = [since EXCEPT ![p] = {}]
  BY DEF Load, tables, requestVars
<1>6. PICK shown \in SUBSET Entry, doubt \in SUBSET Items : shown = reply[p] /\ doubt = since[p]
  BY <1>2
<1>7. PICK lapse : lapse = (Ids(list[p]) \ Ids(reply[p])) \cup (Awaited(p) \cap Ids(reply[p]))
  OBVIOUS
<1>8. lapse \in SUBSET Items
  BY <1>2, <1>7, EntryFields, Apart DEF Ids, TypeOK
<1>9. crossed' = [crossed EXCEPT ![p] = lapse]
  BY <1>7 DEF Load
<1>10. ASSUME NEW t \in Tables(p), NEW x \in ItemsOf(t) \ doubt
       PROVE  True(shown, x) /\ (Exists(x) /\ x \notin lapse => Has(shown, x) \/ NotYet(p, x))
  <2>1. True(reply[p], x) /\ (Exists(x) => Has(reply[p], x) \/ OnItsWay(p, x))
    BY <1>3, <1>6
  <2>2. Has(list[p], x) /\ x \notin lapse => Has(reply[p], x)
    BY <1>7 DEF Has, Ids
  <2> QED
    BY <1>6, <2>1, <2>2 DEF OnItsWay
<1> HIDE DEF Inv, TypeInv
<1> QED
  BY <1>1, <1>4, <1>5, <1>6, <1>8, <1>9, <1>10, LoadEnds

LEMMA LoadFailsStep == ASSUME Inv, NEW p \in Pages, LoadFails(p) PROVE Inv'
<1> USE DEF Inv, TypeInv
<1>1. PICK shown \in SUBSET Entry, doubt \in SUBSET Items, lapse \in SUBSET Items :
          shown = list[p] /\ doubt = Items /\ lapse = crossed[p]
  BY DEF TypeOK
<1>2. /\ loading[p] /\ list' = [list EXCEPT ![p] = shown]
      /\ crossed' = [crossed EXCEPT ![p] = lapse]
  BY <1>1 DEF LoadFails, TypeOK
<1>3. \A e \in shown : Exists(e.id)
  BY <1>1 DEF RowsInv
<1>4. \A t \in Tables(p) : ItemsOf(t) \ doubt = {}
  BY <1>1, ItemsListed
<1>5. /\ UNCHANGED <<issue, sprint, open, pc, job, got, back, swept>>
      /\ loading' = [loading EXCEPT ![p] = FALSE] /\ toRead' = [toRead EXCEPT ![p] = {}]
      /\ reply' = [reply EXCEPT ![p] = {}] /\ stale' = [stale EXCEPT ![p] = doubt]
      /\ since' = [since EXCEPT ![p] = {}]
  BY <1>1 DEF LoadFails, tables, requestVars
<1>6. \A t \in Tables(p) : \A x \in ItemsOf(t) \ doubt :
          True(shown, x) /\ (Exists(x) /\ x \notin lapse => Has(shown, x) \/ NotYet(p, x))
  BY <1>4
<1> HIDE DEF Inv, TypeInv
<1> QED
  BY <1>2, <1>3, <1>5, <1>6, LoadEnds

-------------------------------------------------------------------------------
(***************************************************************************)
(* What the pages offer                                                    *)
(***************************************************************************)

\* What every request that is sent leaves alone.
LEMMA SendStep ==
    ASSUME Inv, NEW r \in Requests, NEW kind, NEW p \in open, NEW item \in Items \cup {None}, NEW to,
           [kind |-> kind, page |-> p, item |-> item, to |-> to] \in Job, kind # "",
           Send(r, kind, p, item, to),
           item = None \/ \E e \in list[p] : e.id = item,
           list' \in [Pages -> SUBSET Entry], stale' \in [Pages -> SUBSET Items],
           \A q \in Pages : stale[q] \subseteq stale'[q],
           \A q \in Pages : \A e \in list[q] : \E f \in list'[q] : f.id = e.id,
           \A q \in Pages : \A f \in list'[q] : \E e \in list[q] : f.id = e.id,
           kind = "create" => \A q \in Requests :
               InFlight(q) /\ job[q].kind = "create" => job[q].page # p,
           WorkingOf(r)',
           item \in Sprints /\ (\E q \in Requests : InFlight(q) /\ job[q].page = p /\ job[q].item = item)
               => item \in stale'[p],
           kind = "assign" => to \in stale'[p] \/ sprint[to] # "completed",
           kind = "start" => item \in stale'[p] \/ sprint[item] # "completed"
    PROVE  /\ UNCHANGED <<issue, sprint, open, toRead, loading, reply, got, back, since, swept, crossed>>
           /\ pc[r] = "idle" /\ job[r] = NoJob /\ pc'[r] = "sent"
           /\ job'[r].kind = kind /\ job'[r].page = p /\ job'[r].item = item /\ job'[r].to = to
           /\ \A q \in Requests : q # r => pc'[q] = pc[q] /\ job'[q] = job[q]
           /\ TypeInv' /\ AnswersInv' /\ TwiceInv' /\ AskedInv'
<1> USE DEF Inv, TypeInv
<1>1. PICK j \in Job : j = [kind |-> kind, page |-> p, item |-> item, to |-> to]
  OBVIOUS
<1>2. j.kind = kind /\ j.page = p /\ j.item = item /\ j.to = to
  BY <1>1
<1>3. /\ pc[r] = "idle" /\ pc' = [pc EXCEPT ![r] = "sent"] /\ job' = [job EXCEPT ![r] = j]
      /\ UNCHANGED <<issue, sprint, open, toRead, loading, reply, got, back, since, swept, crossed>>
  BY <1>1 DEF Send, Goto, tables, loadVars
<1>4. /\ pc'[r] = "sent" /\ job'[r] = j /\ job[r] = NoJob /\ ~InFlight(r)
      /\ \A q \in Requests : q # r => pc'[q] = pc[q] /\ job'[q] = job[q]
      /\ p \in Pages
  BY <1>3, OpenPages DEF TypeOK, Working, WorkingOf, InFlight
<1>5. TypeOK'
  <2>1. /\ pc' \in [Requests -> {"idle", "sent", "closing", "answered", "fetching", "fetched", "over"}]
        /\ job' \in [Requests -> Job]
    BY <1>3 DEF TypeOK
  <2>2. ASSUME NEW q1 \in Requests, NEW q2 \in Requests, InFlight(q1)', InFlight(q2)',
               job'[q1].kind = "create", job'[q2].kind = "create", job'[q1].page = job'[q2].page
        PROVE  q1 = q2
    <3>1. CASE q1 # r /\ q2 # r
      BY <1>4, <2>2, <3>1 DEF TypeOK, OneSubmission, InFlight
    <3>2. CASE q1 = r /\ q2 # r
      BY <1>2, <1>4, <2>2, <3>2 DEF InFlight
    <3>3. CASE q1 # r /\ q2 = r
      BY <1>2, <1>4, <2>2, <3>3 DEF InFlight
    <3> QED
      BY <3>1, <3>2, <3>3
  <2> QED
    BY <1>3, <2>1, <2>2 DEF TypeOK, OneSubmission
<1>6. Working'
  BY <1>3, <1>4, OthersWork
<1>7. PagesInv'
  <2>1. \A q \in Pages : list'[q] # {} => list[q] # {}
    OBVIOUS
  <2> QED
    BY <1>3, <2>1 DEF PagesInv
<1>8. RowsInv'
  <2>1. \A q \in Pages : \A e \in list[q] : Exists(e.id)
    BY DEF RowsInv
  <2>2. item # None => Exists(item)
    BY <1>4, <2>1
  <2>3. \A q \in Pages : \A f \in list'[q] : Exists(f.id)
    BY <2>1
  <2>4. \A q \in Requests : job'[q].item # None => Exists(job'[q].item)
    BY <1>2, <1>4, <2>2 DEF RowsInv
  <2>5. /\ \A q \in Pages : \A e \in reply[q] : Exists(e.id)
        /\ \A q \in Requests : \A e \in back[q] : e.id \in Issues /\ Exists(e.id)
        /\ \A q \in Requests : \A i \in swept[q] : Exists(i)
    BY DEF RowsInv
  <2>6. /\ \A q \in Pages : \A e \in list'[q] \cup reply'[q] : Exists(e.id)
        /\ \A q \in Requests : \A e \in back'[q] : e.id \in Issues /\ Exists(e.id)
        /\ \A q \in Requests : \A i \in swept'[q] : Exists(i)
    <3>1. \A q \in Pages : reply'[q] = reply[q]
      BY <1>3
    <3>2. \A q \in Requests : back'[q] = back[q] /\ swept'[q] = swept[q]
      BY <1>3
    <3> QED
      BY <2>3, <2>5, <3>1, <3>2
  <2>7. UNCHANGED <<issue, sprint>>
    BY <1>3
  <2> HIDE DEF Inv, TypeInv
  <2> QED
    BY <2>4, <2>6, <2>7 DEF RowsInv, Exists
<1>9. AnswersInv'
  <2>1. ASSUME NEW q \in Pages, NEW x, OnItsWay(q, x) PROVE OnItsWay(q, x)'
    <3>1. \A z \in Requests : \/ pc'[z] = pc[z] /\ job'[z] = job[z]
                             \/ pc[z] # "answered"
      BY <1>3, <1>4
    <3>2. \A e \in list[q] : \E f \in list'[q] : f.id = e.id
      OBVIOUS
    <3> HIDE DEF Inv, TypeInv
    <3> QED
      BY <2>1, <3>1, <3>2, WayRests
  <2>2. \A z \in Requests : pc'[z] # "sent" =>
            pc'[z] = pc[z] /\ job'[z] = job[z] /\ got'[z] = got[z] /\ back'[z] = back[z]
    BY <1>3, <1>4
  <2>3. AnswersInv
    OBVIOUS
  <2> HIDE DEF Inv, TypeInv
  <2> QED
    BY <1>3, <2>1, <2>2, <2>3, AnswersRest
<1>10. TwiceInv'
  <2> SUFFICES ASSUME NEW q1 \in Requests, NEW q2 \in Requests, q1 # q2, InFlight(q1)', InFlight(q2)',
                      job'[q1].page = job'[q2].page, job'[q1].item = job'[q2].item,
                      job'[q1].item \in Sprints
               PROVE  job'[q1].item \in stale'[job'[q1].page]
    BY DEF TwiceInv
  <2>1. CASE q1 = r
    BY <1>2, <1>4, <2>1 DEF InFlight
  <2>2. CASE q2 = r
    BY <1>2, <1>4, <2>2 DEF InFlight
  <2>3. CASE q1 # r /\ q2 # r
    <3>1. InFlight(q1) /\ InFlight(q2) /\ job[q1].page \in Pages
      BY <1>4, <2>3, PageOf DEF InFlight
    <3>2. job[q1].item \in stale[job[q1].page]
      BY <1>4, <2>3, <3>1 DEF TwiceInv
    <3> QED
      BY <1>4, <2>3, <3>1, <3>2
  <2> QED
    BY <2>1, <2>2, <2>3
<1>11. AskedInv'
  <2> SUFFICES ASSUME NEW q \in Requests, pc'[q] = "sent"
               PROVE  /\ job'[q].kind = "assign" =>
                             job'[q].to \in stale'[job'[q].page] \/ sprint[job'[q].to] # "completed"
                      /\ job'[q].kind = "start" =>
                             job'[q].item \in stale'[job'[q].page] \/ sprint[job'[q].item] # "completed"
    BY <1>3 DEF AskedInv
  <2>1. CASE q = r
    BY <1>2, <1>4, <2>1
  <2>2. CASE q # r
    <3>1. pc[q] = "sent" /\ job'[q] = job[q] /\ job[q].page \in Pages
      BY <1>4, <2>2, PageOf DEF InFlight
    <3> QED
      BY <3>1 DEF AskedInv
  <2> QED
    BY <2>1, <2>2
<1> QED
  BY <1>2, <1>3, <1>4, <1>5, <1>6, <1>7, <1>8, <1>9, <1>10, <1>11

\* A request that shows nothing before its answer.
LEMMA ListAsBefore ==
    ASSUME Inv, NEW r \in Requests, UNCHANGED <<issue, sprint, open, loading, list, crossed>>,
           \A q \in Pages : stale[q] \subseteq stale'[q],
           \A q \in Requests : q # r => pc'[q] = pc[q] /\ job'[q] = job[q],
           job[r] = NoJob, pc'[r] = "sent", job'[r].kind \notin {"status", "assign"}
    PROVE  ListInv'
<1> SUFFICES ASSUME NEW q \in open, NEW x \in Items, Believed(q, x)' PROVE RightAbout(q, x)'
  BY DEF ListInv
<1>1. q \in Pages /\ q # None
  BY OpenPages, Apart DEF Inv, TypeInv
<1>2. Believed(q, x)
  BY <1>1 DEF Believed
<1>3. RightAbout(q, x)
  BY <1>2 DEF Inv, ListInv
<1>4. ~Regards(r, q, x) /\ ~Regards(r, q, x)'
  BY <1>1, NoJobFields DEF Regards
<1> QED
  BY <1>3, <1>4, RightRests

LEMMA SubmitStep == ASSUME Inv, NEW r \in Requests, NEW p \in Pages, Submit(r, p) PROVE Inv'
<1> USE DEF Inv, TypeInv
<1>1. /\ p \in open /\ p \in Backlogs \cup SprintPages
      /\ Send(r, "create", p, None, None) /\ UNCHANGED <<list, stale>>
      /\ ~Saving(p)
  BY DEF Submit, Pages
<1>2. /\ \A q \in Requests : InFlight(q) /\ job[q].kind = "create" => job[q].page # p
      /\ [kind |-> "create", page |-> p, item |-> None, to |-> None] \in Job
  BY <1>1 DEF Saving, Job
<1>3. WorkingOf(r)'
  <2>1. /\ job'[r] = [kind |-> "create", page |-> p, item |-> None, to |-> None]
        /\ pc'[r] = "sent" /\ open' = open
    BY <1>1 DEF Send, Goto, TypeOK, loadVars
  <2> QED
    BY <1>1, <2>1 DEF WorkingOf, InFlight
<1>4. list' \in [Pages -> SUBSET Entry] /\ stale' \in [Pages -> SUBSET Items]
  BY <1>1 DEF TypeOK
<1>5. /\ TypeInv' /\ AnswersInv' /\ TwiceInv' /\ AskedInv'
      /\ UNCHANGED <<issue, sprint, open, loading, crossed>>
      /\ job[r] = NoJob /\ pc'[r] = "sent" /\ job'[r].kind = "create"
      /\ \A q \in Requests : q # r => pc'[q] = pc[q] /\ job'[q] = job[q]
  BY <1>1, <1>2, <1>3, <1>4, Apart, SendStep
<1>6. ListInv'
  BY <1>1, <1>5, ListAsBefore
<1> QED
  BY <1>5, <1>6

\* A completed sprint is started only by a page that does not know it well.
LEMMA AskSprintStep ==
    ASSUME Inv, NEW r \in Requests, NEW p \in Pages, NEW kind \in {"start", "complete"},
           NEW e \in list[p], AskSprint(r, p, kind, e), kind = "start" => e.status = "planned"
    PROVE  Inv'
<1> USE DEF Inv, TypeInv
<1>1. PICK s \in Sprints : s = e.id
  BY DEF AskSprint
<1>2. /\ p \in SprintPages /\ ~loading[p] /\ p \in open
      /\ Send(r, kind, p, s, None) /\ UNCHANGED list
      /\ stale' = [stale EXCEPT ![p] = @ \cup {z \in {s} : Others(r, p, z) # {}}]
  BY <1>1 DEF AskSprint, PagesInv
<1>3. [kind |-> kind, page |-> p, item |-> s, to |-> None] \in Job /\ s \in Items
  BY Apart DEF Job
<1>4. /\ pc[r] = "idle" /\ open' = open /\ loading' = loading
      /\ job'[r] = [kind |-> kind, page |-> p, item |-> s, to |-> None] /\ pc'[r] = "sent"
  BY <1>2 DEF Send, Goto, TypeOK, loadVars
<1>5. WorkingOf(r)'
  <2>1. /\ job'[r].kind = kind /\ job'[r].page = p /\ job'[r].item = s
        /\ \E f \in list'[p] : f.id = s
    BY <1>1, <1>2, <1>4
  <2> QED
    BY <1>2, <1>4, <2>1 DEF WorkingOf, InFlight
<1>6. /\ stale' \in [Pages -> SUBSET Items]
      /\ \A q \in Pages : stale[q] \subseteq stale'[q]
      /\ Others(r, p, s) # {} => s \in stale'[p]
  BY <1>2, <1>3 DEF TypeOK
<1>7. \A q \in Requests : InFlight(q) /\ job[q].page = p /\ job[q].item = s => s \in stale'[p]
  <2>1. \A q \in Requests : InFlight(q) /\ job[q].page = p /\ job[q].item = s => q \in Others(r, p, s)
    BY <1>4 DEF Others, InFlight
  <2> QED
    BY <1>6, <2>1
<1>8. kind = "start" => s \in stale'[p] \/ sprint[s] # "completed"
  <2> SUFFICES ASSUME kind = "start", s \notin stale'[p] PROVE sprint[s] # "completed"
    OBVIOUS
  <2>1. Believed(p, s)
    BY <1>2, <1>3, <1>6, ItemsListed DEF Believed
  <2>2. RightAbout(p, s)
    BY <1>2, <1>3, <2>1 DEF ListInv
  <2>3. ~Coming(p, s)
    BY <1>7, Apart DEF Coming, InFlight
  <2>4. AsAsked(p, e)
    BY <1>1, <2>2, <2>3 DEF RightAbout
  <2>5. e.status = sprint[s]
    BY <1>1, <2>4, Apart DEF AsAsked
  <2> QED
    BY <2>5
<1>9. list' \in [Pages -> SUBSET Entry]
  BY <1>2 DEF TypeOK
<1>10. /\ TypeInv' /\ AnswersInv' /\ TwiceInv' /\ AskedInv'
       /\ UNCHANGED <<issue, sprint, open, loading, crossed>>
       /\ job[r] = NoJob /\ pc'[r] = "sent" /\ job'[r].kind = kind
       /\ \A q \in Requests : q # r => pc'[q] = pc[q] /\ job'[q] = job[q]
  <2> HIDE DEF Inv, TypeInv
  <2> QED
    BY <1>1, <1>2, <1>3, <1>5, <1>6, <1>7, <1>8, <1>9, SendStep
<1>11. ListInv'
  BY <1>2, <1>6, <1>10, ListAsBefore
<1> QED
  BY <1>10, <1>11

\* The copies of one item are changed, and no others.
Patched(M, entries, kind, i, to) ==
    /\ \A f \in M : \E e \in entries :
           /\ f.id = e.id
           /\ IF e.id = i
              THEN IF kind = "status" THEN f.status = to /\ f.sprint = e.sprint
                   ELSE f.status = e.status /\ f.sprint = to
              ELSE f = e
    /\ \A e \in entries : \E f \in M : f.id = e.id /\ (e.id # i => f = e)

\* A patch is shown before it is asked for.
LEMMA PatchStep ==
    ASSUME Inv, NEW r \in Requests, NEW p \in Pages, NEW kind \in {"status", "assign"},
           NEW i \in Issues, NEW to, IF kind = "assign" THEN to \in Sprints ELSE to \in Statuses,
           Patch(r, p, kind, i, to),
           NEW M \in SUBSET Entry, list' = [list EXCEPT ![p] = M],
           Patched(M, list[p], kind, i, to),
           kind = "assign" => to \in stale[p] \/ sprint[to] # "completed"
    PROVE  Inv'
<1> USE DEF Inv, TypeInv, Patched
<1>1. /\ p \in Backlogs /\ ~loading[p] /\ \E e \in list[p] : e.id = i
      /\ Send(r, kind, p, i, to)
      /\ stale' = [stale EXCEPT ![p] = @ \cup {j \in {i} : \E q \in Others(r, p, j) : job[q].kind = kind}]
  BY DEF Patch, InBacklog
<1>2. p \in open
  BY <1>1 DEF PagesInv
<1>3. [kind |-> kind, page |-> p, item |-> i, to |-> to] \in Job /\ i \in Items /\ i \notin Sprints
  BY Apart DEF Job
<1>4. /\ pc[r] = "idle" /\ open' = open /\ loading' = loading
      /\ job'[r] = [kind |-> kind, page |-> p, item |-> i, to |-> to] /\ pc'[r] = "sent"
  BY <1>1 DEF Send, Goto, TypeOK, loadVars
<1>5. list'[p] = M /\ \A q \in Pages : q # p => list'[q] = list[q]
  BY DEF TypeOK
<1>6. WorkingOf(r)'
  <2>1. /\ job'[r].kind = kind /\ job'[r].page = p /\ job'[r].item = i /\ job'[r].to = to
        /\ \E f \in list'[p] : f.id = i
    BY <1>1, <1>4, <1>5
  <2> QED
    BY <1>1, <1>2, <1>4, <2>1 DEF WorkingOf, InFlight
<1>7. /\ list' \in [Pages -> SUBSET Entry] /\ stale' \in [Pages -> SUBSET Items]
      /\ \A q \in Pages : stale[q] \subseteq stale'[q]
      /\ (\E q \in Others(r, p, i) : job[q].kind = kind) => i \in stale'[p]
  BY <1>1, <1>3 DEF TypeOK
<1>8. /\ \A q \in Pages : \A e \in list[q] : \E f \in list'[q] : f.id = e.id
      /\ \A q \in Pages : \A f \in list'[q] : \E e \in list[q] : f.id = e.id
  BY <1>5
<1>9. /\ TypeInv' /\ AnswersInv' /\ TwiceInv' /\ AskedInv'
      /\ UNCHANGED <<issue, sprint, open, loading, crossed>>
      /\ job[r] = NoJob /\ pc'[r] = "sent"
      /\ job'[r].kind = kind /\ job'[r].page = p /\ job'[r].item = i /\ job'[r].to = to
      /\ \A q \in Requests : q # r => pc'[q] = pc[q] /\ job'[q] = job[q]
  <2> HIDE DEF Inv, TypeInv
  <2>1. kind = "assign" => to \in stale'[p] \/ sprint[to] # "completed"
    BY <1>7
  <2>2. kind # "" /\ kind # "create" /\ kind # "start" /\ i \in Items \cup {None}
    BY <1>3
  <2>3. \E e \in list[p] : e.id = i
    BY <1>1
  <2> QED
    BY <1>1, <1>2, <1>3, <1>6, <1>7, <1>8, <2>1, <2>2, <2>3, SendStep
<1>10. ListInv'
  <2> SUFFICES ASSUME NEW q \in open, NEW x \in Items, Believed(q, x)' PROVE RightAbout(q, x)'
    BY <1>9 DEF ListInv
  <2>1. q \in Pages /\ q # None
    BY OpenPages, Apart
  <2>2. Believed(q, x)
    BY <1>7, <1>9, <2>1 DEF Believed
  <2>3. RightAbout(q, x)
    BY <2>2 DEF ListInv
  <2>4. CASE q # p \/ x # i
    <3>1. ~Regards(r, q, x) /\ ~Regards(r, q, x)'
      BY <1>9, <2>1, <2>4, NoJobFields DEF Regards
    <3>2. \A e \in list[q] \cup list'[q] : e.id = x => (e \in list'[q] <=> e \in list[q])
      BY <1>5, <2>1, <2>4
    <3> QED
      BY <1>9, <2>3, <3>1, <3>2, RightRests
  <2>5. CASE q = p /\ x = i
    <3>1. ~Coming(p, i)
      BY <1>1, Apart DEF Coming, Working, WorkingOf
    <3>2. \A e \in list[p] : e.id = i => AsAsked(p, e)
      BY <2>3, <2>5, <3>1 DEF RightAbout
    <3>3. \A z \in Requests : z # r => ~Patching(z, p, i, kind)
      <4>1. \A z \in Requests : z # r /\ Patching(z, p, i, kind) => z \in Others(r, p, i) /\ job[z].kind = kind
        BY DEF Others, Patching, InFlight
      <4> QED
        BY <1>7, <2>5, <4>1 DEF Believed
    <3>4. \A z \in Requests, k \in {"status", "assign"} :
              /\ Patching(z, p, i, k)' <=> (Patching(z, p, i, k) \/ (z = r /\ k = kind))
              /\ Patching(z, p, i, k) => z # r /\ job'[z] = job[z]
      BY <1>4, <1>9 DEF Patching
    <3>5. \A f \in list'[p] : f.id = i => AsAsked(p, f)'
      <4> SUFFICES ASSUME NEW f \in list'[p], f.id = i PROVE AsAsked(p, f)'
        OBVIOUS
      <4>1. PICK e \in list[p] :
                /\ e.id = i
                /\ IF kind = "status" THEN f.status = to /\ f.sprint = e.sprint
                   ELSE f.status = e.status /\ f.sprint = to
        BY <1>5
      <4>2. AsAsked(p, e)
        BY <3>2, <4>1
      <4>3. CASE kind = "status"
        BY <1>9, <3>3, <3>4, <4>1, <4>2, <4>3 DEF AsAsked
      <4>4. CASE kind = "assign"
        BY <1>9, <3>3, <3>4, <4>1, <4>2, <4>4 DEF AsAsked
      <4> QED
        BY <4>3, <4>4
    <3>6. \E f \in list'[p] : f.id = i
      BY <1>1, <1>5
    <3>7. OnItsWay(p, i)'
      BY <3>6 DEF OnItsWay, Has
    <3> QED
      BY <2>5, <3>5, <3>7 DEF RightAbout
  <2> QED
    BY <2>4, <2>5
<1> QED
  BY <1>9, <1>10

LEMMA ChangeStatusStep ==
    ASSUME Inv, NEW r \in Requests, NEW p \in Pages, NEW i \in Issues, NEW to \in Statuses,
           ChangeStatus(r, p, i, to)
    PROVE  Inv'
<1>1. PICK M \in SUBSET Entry : M = WithStatus(list[p], i, to)
  BY StatusSet DEF Inv, TypeInv, TypeOK
<1>2. list' = [list EXCEPT ![p] = M] /\ Patch(r, p, "status", i, to)
  BY <1>1 DEF ChangeStatus
<1>3. list[p] \in SUBSET Entry
  BY DEF Inv, TypeInv, TypeOK
<1>4. /\ \A f \in M : \E e \in list[p] :
             f.id = e.id /\ f.sprint = e.sprint /\ IF e.id = i THEN f.status = to ELSE f = e
      /\ \A e \in list[p] : \E f \in M : f.id = e.id /\ (e.id # i => f = e)
  BY <1>1, <1>3, StatusSet
<1>5. PICK kind \in {"status", "assign"} : kind = "status"
  OBVIOUS
<1>6. Patched(M, list[p], kind, i, to)
  BY <1>4, <1>5 DEF Patched
<1>7. /\ IF kind = "assign" THEN to \in Sprints ELSE to \in Statuses
      /\ Patch(r, p, kind, i, to)
      /\ kind = "assign" => to \in stale[p] \/ sprint[to] # "completed"
  BY <1>2, <1>5
<1> QED
  BY <1>2, <1>6, <1>7, PatchStep

\* The sprint is one the page shows, and not as completed.
LEMMA AssignSprintStep ==
    ASSUME Inv, NEW r \in Requests, NEW p \in Pages, NEW i \in Issues, NEW s \in Sprints,
           AssignSprint(r, p, i, s)
    PROVE  Inv'
<1>1. PICK M \in SUBSET Entry : M = WithSprint(list[p], i, s)
  BY SprintSet DEF Inv, TypeInv, TypeOK
<1>2. list' = [list EXCEPT ![p] = M] /\ Patch(r, p, "assign", i, s)
  BY <1>1 DEF AssignSprint
<1>3. list[p] \in SUBSET Entry
  BY DEF Inv, TypeInv, TypeOK
<1>4. /\ \A f \in M : \E e \in list[p] :
             f.id = e.id /\ f.status = e.status /\ IF e.id = i THEN f.sprint = s ELSE f = e
      /\ \A e \in list[p] : \E f \in M : f.id = e.id /\ (e.id # i => f = e)
  BY <1>1, <1>3, SprintSet
<1>5. PICK kind \in {"status", "assign"} : kind = "assign"
  OBVIOUS
<1>6. Patched(M, list[p], kind, i, s)
  BY <1>4, <1>5 DEF Patched
<1>7. s \in stale[p] \/ sprint[s] # "completed"
  <2> SUFFICES ASSUME s \notin stale[p] PROVE sprint[s] # "completed"
    OBVIOUS
  <2>1. PICK e \in list[p] : e.id = s /\ e.status # "completed"
    BY DEF AssignSprint, Assignable
  <2>2. p \in Backlogs /\ ~loading[p] /\ p \in open /\ s \in Items
    BY <1>2, <2>1, Apart DEF Patch, Inv, TypeInv, PagesInv
  <2>3. Believed(p, s)
    BY <2>2, ItemsListed DEF Believed
  <2>4. RightAbout(p, s)
    BY <2>2, <2>3 DEF Inv, ListInv
  <2>5. ~Coming(p, s)
    BY <2>2, Apart DEF Coming, Inv, TypeInv, Working, WorkingOf
  <2>6. AsAsked(p, e)
    BY <2>1, <2>4, <2>5 DEF RightAbout
  <2>7. e.status = sprint[s]
    BY <2>1, <2>6, Apart DEF AsAsked
  <2> QED
    BY <2>1, <2>7
<1>8. /\ IF kind = "assign" THEN s \in Sprints ELSE s \in Statuses
      /\ Patch(r, p, kind, i, s)
      /\ kind = "assign" => s \in stale[p] \/ sprint[s] # "completed"
  BY <1>2, <1>5, <1>7
<1> QED
  BY <1>2, <1>6, <1>8, PatchStep

-------------------------------------------------------------------------------
(***************************************************************************)
(* The API                                                                 *)
(***************************************************************************)

LEMMA ChangedSets ==
    ASSUME TypeOK, NEW items \in SUBSET Items, NEW by
    PROVE  /\ Spread(items, by) \in [Pages -> SUBSET Items]
           /\ Noted(items, by) \in [Pages \cup Requests -> SUBSET Items]
           /\ \A p \in Pages :
                  Spread(items, by)[p] = IF p = by THEN stale[p] ELSE stale[p] \cup items
           /\ \A x \in Pages \cup Requests : since[x] \subseteq Noted(items, by)[x]
           /\ \A p \in Pages : p # by /\ loading[p] =>
                  \A t \in Tables(p) \ toRead[p] : \A x \in items :
                      x \in ItemsOf(t) => x \in Noted(items, by)[p]
           /\ \A r \in Requests : r # by =>
                  /\ pc[r] \in {"closing", "answered"} => items \subseteq Noted(items, by)[r]
                  /\ pc[r] = "fetched" => items \cap Issues \subseteq Noted(items, by)[r]
<1>1. \A x \in Pages \cup Requests : Outdated(x, items) \subseteq items
  BY DEF Outdated
<1>2. /\ Spread(items, by) \in [Pages -> SUBSET Items]
      /\ Noted(items, by) \in [Pages \cup Requests -> SUBSET Items]
  BY <1>1 DEF TypeOK, Spread, Noted
<1>3. /\ \A p \in Pages :
             Spread(items, by)[p] = IF p = by THEN stale[p] ELSE stale[p] \cup items
      /\ \A x \in Pages \cup Requests :
             Noted(items, by)[x] = IF x = by THEN since[x] ELSE since[x] \cup Outdated(x, items)
  BY DEF Spread, Noted
<1>4. \A p \in Pages : p # by /\ loading[p] =>
          \A t \in Tables(p) \ toRead[p] : \A x \in items :
              x \in ItemsOf(t) => x \in Noted(items, by)[p]
  BY <1>3 DEF Outdated
<1>5. \A r \in Requests : r # by =>
          /\ pc[r] \in {"closing", "answered"} => items \subseteq Noted(items, by)[r]
          /\ pc[r] = "fetched" => items \cap Issues \subseteq Noted(items, by)[r]
  BY <1>3, Apart DEF Outdated
<1> QED
  BY <1>2, <1>3, <1>4, <1>5

\* What is on its way is right about the rows that stay, and about the one that
\* a page creates while it is loading.
LEMMA AnswersChange ==
    ASSUME TypeInv, AnswersInv, NEW items \in SUBSET Items, NEW by \in Pages \cup {None},
           UNCHANGED <<toRead, loading, reply, list>>,
           \A p \in Pages : since'[p] = Noted(items, by)[p],
           \A x \in Issues : x \notin items => issue'[x] = issue[x],
           \A x \in Sprints : x \notin items => sprint'[x] = sprint[x],
           \A p \in Pages : loading[p] /\ p = by =>
               \A x \in items : ~Exists(x) /\ NotYet(p, x)',
           \A p \in Pages, x \in Items : loading[p] /\ NotYet(p, x) => NotYet(p, x)',
           \A q \in Requests : pc'[q] = "answered" =>
               \/ /\ pc[q] = "answered" /\ job'[q] = job[q] /\ got'[q] = got[q]
                  /\ since'[q] = Noted(items, by)[q]
               \/ job'[q].item \in since'[q]
               \/ IF job'[q].item \in Issues
                  THEN issue'[job'[q].item].status = got'[q] /\ issue'[job'[q].item].sprint = None
                  ELSE sprint'[job'[q].item] = got'[q],
           \A q \in Requests : pc'[q] = "fetched" =>
               pc[q] = "fetched" /\ back'[q] = back[q] /\ since'[q] = Noted(items, by)[q]
    PROVE  AnswersInv'
<1> USE DEF Exists, Holds
<1>1. /\ \A x \in Pages \cup Requests : since[x] \subseteq Noted(items, by)[x]
      /\ \A p \in Pages : p # by /\ loading[p] =>
             \A t \in Tables(p) \ toRead[p] : \A x \in items :
                 x \in ItemsOf(t) => x \in Noted(items, by)[p]
      /\ \A r \in Requests : r # by =>
             /\ pc[r] \in {"closing", "answered"} => items \subseteq Noted(items, by)[r]
             /\ pc[r] = "fetched" => items \cap Issues \subseteq Noted(items, by)[r]
  BY ChangedSets DEF TypeInv
<1>2. \A r \in Requests : r # by
  BY Apart, NoneAssumption
<1>3. ASSUME NEW p \in Pages, loading'[p], NEW t \in Tables(p), t \in toRead'[p]
      PROVE  \A e \in reply'[p] : e.id \notin ItemsOf(t)
  BY <1>3 DEF AnswersInv
<1>4. ASSUME NEW p \in Pages, loading'[p], NEW t \in Tables(p), t \notin toRead'[p],
             NEW x \in ItemsOf(t), x \notin since'[p]
      PROVE  True(reply[p], x)' /\ (Exists(x)' => Has(reply[p], x)' \/ OnItsWay(p, x)')
  <2>1. x \notin since[p] /\ x \in Items /\ (p # by => x \notin items)
    BY <1>1, <1>4, ItemsListed
  <2>2. /\ True(reply[p], x) /\ reply'[p] = reply[p]
        /\ Exists(x) => Has(reply[p], x) \/ OnItsWay(p, x)
    BY <1>4, <2>1 DEF AnswersInv
  <2>3. CASE x \in items
    <3>1. ~Exists(x) /\ NotYet(p, x)'
      BY <1>4, <2>1, <2>3
    <3>2. True(reply[p], x)'
      BY <2>2, <3>1 DEF True
    <3> QED
      BY <3>1, <3>2 DEF OnItsWay
  <2>4. CASE x \notin items
    <3>1. OnItsWay(p, x) => OnItsWay(p, x)'
      BY <1>4, <2>1 DEF OnItsWay, Has
    <3>2. /\ x \in Issues => issue'[x] = issue[x]
          /\ x \notin Issues => sprint'[x] = sprint[x]
      BY <2>1, <2>4, Apart
    <3> QED
      BY <2>2, <3>1, <3>2 DEF True, Has
  <2> QED
    BY <2>3, <2>4
<1>5. ASSUME NEW r \in Requests, pc'[r] = "answered", job'[r].item \notin since'[r]
      PROVE  IF job'[r].item \in Issues
             THEN issue'[job'[r].item].status = got'[r] /\ issue'[job'[r].item].sprint = None
             ELSE sprint'[job'[r].item] = got'[r]
  <2> SUFFICES ASSUME pc[r] = "answered", job'[r] = job[r], got'[r] = got[r],
                      since'[r] = Noted(items, by)[r]
               PROVE  IF job[r].item \in Issues
                      THEN issue'[job[r].item].status = got[r] /\ issue'[job[r].item].sprint = None
                      ELSE sprint'[job[r].item] = got[r]
    BY <1>5
  <2>1. job[r].item \notin items /\ job[r].item \notin since[r]
    BY <1>1, <1>2, <1>5
  <2>2. job[r].item \in Items
    <3>1. WorkingOf(r) /\ job[r] \in Job
      BY DEF TypeInv, Working, TypeOK
    <3> QED
      BY <3>1, JobFields, Apart DEF WorkingOf, InFlight
  <2> QED
    BY <2>1, <2>2, Apart DEF AnswersInv
<1>6. ASSUME NEW r \in Requests, pc'[r] = "fetched", NEW x \in Issues, x \notin since'[r]
      PROVE  Exact(back[r], x)'
  <2>1. pc[r] = "fetched" /\ x \notin since[r] /\ x \notin items
    BY <1>1, <1>2, <1>6
  <2>2. Exact(back[r], x) /\ back'[r] = back[r]
    BY <1>6, <2>1 DEF AnswersInv
  <2> QED
    BY <2>1, <2>2 DEF Exact, True, Has
<1> QED
  BY <1>3, <1>4, <1>5, <1>6 DEF AnswersInv

\* Rows that are there stay there.
LEMMA RowsStay ==
    ASSUME TypeInv, UNCHANGED <<list, reply>>,
           \A q \in Requests : back'[q] \subseteq back[q] /\ swept'[q] \subseteq swept[q],
           \A x \in Items : Exists(x) => Exists(x)',
           \A q \in Requests : \/ job'[q].item \in {job[q].item, None}
                               \/ \E y \in Items : job'[q].item = y /\ Exists(y)'
    PROVE  RowsInv'
<1>1. \A p \in Pages : \A e \in list[p] \cup reply[p] : e.id \in Items /\ Exists(e.id)
  BY EntryFields, Apart DEF TypeInv, TypeOK, RowsInv
<1>2. \A r \in Requests : \A e \in back[r] : e.id \in Issues /\ e.id \in Items /\ Exists(e.id)
  BY EntryFields, Apart DEF TypeInv, TypeOK, RowsInv
<1>3. \A r \in Requests : job[r].item # None => job[r].item \in Items /\ Exists(job[r].item)
  BY JobFields DEF TypeInv, TypeOK, RowsInv
<1>4. \A r \in Requests : \A i \in swept[r] : i \in Items /\ Exists(i)
  BY Apart DEF TypeInv, TypeOK, RowsInv
<1> QED
  BY <1>1, <1>2, <1>3, <1>4 DEF RowsInv, Exists

\* A page shows only rows that are there.
LEMMA RowsShown ==
    ASSUME RowsInv, UNCHANGED <<issue, sprint, reply>>,
           \A p \in Pages : \A e \in list'[p] : Exists(e.id),
           \A q \in Requests :
               /\ back'[q] \subseteq back[q] /\ swept'[q] \subseteq swept[q]
               /\ job'[q].item \in {job[q].item, None}
    PROVE  RowsInv'
<1>1. \A p \in Pages : \A e \in list'[p] \cup reply'[p] : Exists(e.id)
  BY DEF RowsInv
<1>2. \A q \in Requests : \A e \in back'[q] : e.id \in Issues /\ Exists(e.id)
  BY DEF RowsInv
<1>3. \A q \in Requests : job'[q].item # None => Exists(job'[q].item)
  BY DEF RowsInv
<1>4. \A q \in Requests : \A i \in swept'[q] : Exists(i)
  BY DEF RowsInv
<1> QED
  BY <1>1, <1>2, <1>3, <1>4 DEF RowsInv, Exists

LEMMA AnsweredStep ==
    ASSUME Inv, NEW r \in Requests, NEW y \in Items, NEW items \in SUBSET Items, NEW status,
           NEW wrong \in SUBSET Items, Answered(r, status, items, wrong),
           pc[r] = "sent" \/ (pc[r] = "closing" /\ job[r].kind = "complete"),
           swept' \in [Requests -> SUBSET Issues], \A q \in Requests : swept'[q] \subseteq swept[q],
           issue' \in [Issues -> Row \cup {None}],
           sprint' \in [Sprints -> SprintStatuses \cup {None}],
           \A x \in Issues : x \notin items => issue'[x] = issue[x],
           \A x \in Sprints : x \notin items => sprint'[x] = sprint[x],
           \A x \in Items : Exists(x) => Exists(x)',
           Exists(y)',
           job' \in [Requests -> Job], job'[r].kind = job[r].kind, job'[r].page = job[r].page,
           job'[r].item = y, \A q \in Requests : q # r => job'[q] = job[q],
           \/ /\ job[r].kind = "create" /\ ~Exists(y) /\ items = {y}
              /\ \/ job[r].page \in Backlogs /\ y \in Issues /\ status \in Statuses
                 \/ job[r].page \in SprintPages /\ y \in Sprints /\ status \in SprintStatuses
           \/ /\ job[r].kind \in {"start", "complete"} /\ job[r].item = y /\ status \in SprintStatuses
              /\ \A x \in items : x = y \/ (job[r].kind = "complete" /\ x \in Issues),
           \/ y \in wrong
           \/ IF y \in Issues THEN issue'[y].status = status /\ issue'[y].sprint = None
              ELSE sprint'[y] = status
    PROVE  Inv'
<1> USE DEF Inv, TypeInv
<1> DEFINE by == job[r].page
<1>1. /\ pc' = [pc EXCEPT ![r] = "answered"] /\ got' = [got EXCEPT ![r] = status]
      /\ stale' = Spread(items, by) /\ since' = [Noted(items, by) EXCEPT ![r] = wrong]
      /\ UNCHANGED <<open, toRead, loading, reply, list, back, crossed>>
      /\ InFlight(r) /\ pc[r] # "answered"
  BY DEF Answered, Goto, loadVars, InFlight
<1>2. /\ pc'[r] = "answered" /\ got'[r] = status
      /\ \A q \in Requests : q # r => pc'[q] = pc[q] /\ job'[q] = job[q] /\ got'[q] = got[q]
  BY <1>1 DEF TypeOK
<1>3. /\ stale' \in [Pages -> SUBSET Items] /\ since' \in [Pages \cup Requests -> SUBSET Items]
      /\ \A p \in Pages : stale'[p] = IF p = job[r].page THEN stale[p] ELSE stale[p] \cup items
      /\ since'[r] = wrong
      /\ \A x \in Pages \cup Requests : x # r => since'[x] = Noted(items, by)[x]
  <2>1. PICK b : b = by
    OBVIOUS
  <2>2. TypeOK
    OBVIOUS
  <2>3. Spread(items, b) \in [Pages -> SUBSET Items]
    BY <2>2, ChangedSets
  <2>4. Noted(items, b) \in [Pages \cup Requests -> SUBSET Items]
    BY <2>2, ChangedSets
  <2>5. \A p \in Pages : Spread(items, b)[p] = IF p = b THEN stale[p] ELSE stale[p] \cup items
    BY DEF Spread
  <2> QED
    BY <1>1, <2>1, <2>3, <2>4, <2>5
<1>4. TypeOK'
  <2>1. /\ pc' \in [Requests -> {"idle", "sent", "closing", "answered", "fetching", "fetched", "over"}]
        /\ got' \in [Requests -> SprintStatuses \cup Statuses \cup {None}]
    BY <1>1 DEF TypeOK
  <2>2. \A q \in Requests : /\ InFlight(q)' <=> InFlight(q)
                            /\ job'[q].kind = job[q].kind /\ job'[q].page = job[q].page
    BY <1>1, <1>2 DEF InFlight
  <2>3. OneSubmission'
    BY <2>2 DEF TypeOK, OneSubmission
  <2> QED
    BY <1>1, <1>3, <2>1, <2>3 DEF TypeOK
<1>5. WorkingOf(r)
  BY DEF Working
<1>6. Working'
  <2>1. WorkingOf(r)'
    BY <1>1, <1>2, <1>5 DEF WorkingOf, InFlight
  <2> QED
    BY <1>1, <1>2, <2>1, OthersWork
<1>7. PagesInv'
  BY <1>1 DEF PagesInv
<1>8. RowsInv'
  BY <1>1, <1>2, RowsStay
<1>9. AnswersInv'
  <2>1. PICK b \in Pages \cup {None} : b = by
    BY <1>1, PageOf
  <2>2. \A p \in Pages : since'[p] = Noted(items, b)[p]
    BY <1>3, <2>1, Apart
  <2>3. \A p \in Pages : loading[p] /\ p = b => \A x \in items : ~Exists(x) /\ NotYet(p, x)'
    <3> SUFFICES ASSUME NEW p \in Pages, loading[p], p = b
                 PROVE  \A x \in items : ~Exists(x) /\ NotYet(p, x)'
      OBVIOUS
    <3>1. job[r].kind = "create" /\ ~Exists(y) /\ items = {y}
      BY <1>5, <2>1 DEF WorkingOf
    <3>2. pc'[r] = "answered" /\ job'[r].kind = "create" /\ job'[r].page = p /\ job'[r].item = y
      BY <1>2, <2>1, <3>1
    <3>3. NotYet(p, y)'
      BY <3>2 DEF NotYet
    <3> QED
      BY <3>1, <3>3
  <2>4. \A p \in Pages, x \in Items : loading[p] /\ NotYet(p, x) => NotYet(p, x)'
    BY <1>1, <1>2 DEF NotYet
  <2>5. ASSUME NEW q \in Requests, pc'[q] = "answered"
        PROVE  \/ /\ pc[q] = "answered" /\ job'[q] = job[q] /\ got'[q] = got[q]
                  /\ since'[q] = Noted(items, b)[q]
               \/ job'[q].item \in since'[q]
               \/ IF job'[q].item \in Issues
                  THEN issue'[job'[q].item].status = got'[q] /\ issue'[job'[q].item].sprint = None
                  ELSE sprint'[job'[q].item] = got'[q]
    BY <1>2, <1>3, <2>1, <2>5
  <2>6. ASSUME NEW q \in Requests, pc'[q] = "fetched"
        PROVE  pc[q] = "fetched" /\ back'[q] = back[q] /\ since'[q] = Noted(items, b)[q]
    BY <1>1, <1>2, <1>3, <2>1, <2>6
  <2>7. TypeInv /\ AnswersInv
    OBVIOUS
  <2> HIDE DEF Inv, TypeInv, by
  <2> QED
    BY <1>1, <2>2, <2>3, <2>4, <2>5, <2>6, <2>7, AnswersChange
<1>10. ListInv'
  <2> SUFFICES ASSUME NEW p \in open, NEW x \in Items, Believed(p, x)' PROVE RightAbout(p, x)'
    BY <1>1 DEF ListInv
  <2>1. p \in Pages
    BY OpenPages
  <2>2. RightAbout(p, x)
    <3>1. stale[p] \subseteq stale'[p]
      BY <1>3, <2>1
    <3>2. Believed(p, x) /\ p \in open
      BY <1>1, <3>1 DEF Believed
    <3> QED
      BY <3>2 DEF ListInv
  <2>3. CASE x \notin items /\ (p # job[r].page \/ (x # y /\ ~(x \in Issues /\ job[r].kind = "complete")))
    <3>1. ~Regards(r, p, x) /\ ~Regards(r, p, x)'
      BY <1>1, <1>2, <2>3 DEF Regards
    <3> QED
      BY <1>1, <1>2, <2>2, <2>3, <3>1, Apart, RightRests
  <2>4. CASE p = job[r].page /\ job[r].kind = "create" /\ x = y
    <3>1. \A e \in list[p] : e.id # y
      BY <2>1, <2>4 DEF RowsInv
    <3>2. NotYet(p, y)'
      BY <1>2, <2>4 DEF NotYet
    <3> QED
      BY <1>1, <2>4, <3>1, <3>2 DEF RightAbout, OnItsWay
  <2>5. CASE p = job[r].page /\ job[r].kind # "create" /\ (x = y \/ (x \in Issues /\ job[r].kind = "complete"))
    <3>1. Coming(p, x)'
      BY <1>2, <2>5 DEF Coming
    <3> QED
      BY <3>1 DEF RightAbout
  <2>6. p # job[r].page => x \notin items
    BY <1>3, <2>1 DEF Believed
  <2> QED
    BY <2>3, <2>4, <2>5, <2>6
<1>11. TwiceInv'
  <2> SUFFICES ASSUME NEW q1 \in Requests, NEW q2 \in Requests, q1 # q2, InFlight(q1)', InFlight(q2)',
                      job'[q1].page = job'[q2].page, job'[q1].item = job'[q2].item,
                      job'[q1].item \in Sprints
               PROVE  job'[q1].item \in stale'[job'[q1].page]
    BY DEF TwiceInv
  <2>1. \A q \in Requests : /\ InFlight(q)' <=> InFlight(q)
                            /\ job'[q].page = job[q].page
                            /\ job'[q].item # job[q].item => q = r /\ job'[q].item = y /\ ~Exists(y)
    BY <1>1, <1>2 DEF InFlight
  <2>2. job[q1].page \in Pages
    BY <2>1, PageOf
  <2>3. \A q \in Requests : q # r /\ job[q].item = y => Exists(y)
    BY Apart DEF RowsInv
  <2>4. job'[q1].item = job[q1].item /\ job'[q2].item = job[q2].item
    BY <1>2, <2>1, <2>3
  <2>5. job[q1].item \in stale[job[q1].page]
    BY <2>1, <2>4 DEF TwiceInv
  <2> QED
    BY <1>3, <2>1, <2>2, <2>4, <2>5
<1>12. AskedInv'
  <2> SUFFICES ASSUME NEW q \in Requests, pc'[q] = "sent", NEW z,
                      \/ job'[q].kind = "assign" /\ z = job'[q].to
                      \/ job'[q].kind = "start" /\ z = job'[q].item
               PROVE  z \in stale'[job'[q].page] \/ sprint'[z] # "completed"
    BY DEF AskedInv
  <2>1. /\ q # r /\ pc[q] = "sent" /\ job'[q] = job[q] /\ WorkingOf(q) /\ InFlight(q)
        /\ job[q].page \in Pages
    BY <1>2, PageOf DEF Working, InFlight
  <2>2. z \in Sprints /\ (z \in stale[job[q].page] \/ sprint[z] # "completed")
    <3>1. CASE job[q].kind = "assign" /\ z = job[q].to
      BY <2>1, <3>1 DEF WorkingOf, AskedInv
    <3>2. CASE job[q].kind = "start" /\ z = job[q].item
      BY <2>1, <3>2 DEF WorkingOf, AskedInv
    <3> QED
      BY <2>1, <3>1, <3>2
  <2>3. CASE z \notin items
    BY <1>3, <2>1, <2>2, <2>3
  <2>4. CASE z \in items /\ job[q].page # job[r].page
    BY <1>3, <2>1, <2>4
  <2>5. CASE z \in items /\ job[q].page = job[r].page
    <3>1. z = y
      BY <2>2, <2>5, Apart
    <3>2. job[r].page \in SprintPages /\ job[q].kind = "start" /\ z = job[q].item
      <4>1. job[r].page \in SprintPages
        BY <1>5, <2>2, <3>1, Apart DEF WorkingOf
      <4>2. job[q].kind # "assign"
        BY <2>1, <2>5, <4>1, Apart DEF WorkingOf
      <4> QED
        BY <2>1, <4>1, <4>2
    <3>3. job[r].kind # "create" /\ job[r].item = y
      BY <2>2, <3>1, <3>2, Apart DEF RowsInv
    <3>4. z \in stale[job[q].page]
      BY <1>1, <2>1, <2>2, <2>5, <3>1, <3>2, <3>3 DEF TwiceInv, InFlight
    <3> QED
      BY <1>3, <2>1, <3>4
  <2> QED
    BY <2>3, <2>4, <2>5
<1> QED
  BY <1>4, <1>6, <1>7, <1>8, <1>9, <1>10, <1>11, <1>12

LEMMA InsertIssueStep == ASSUME Inv, NEW r \in Requests, NEW i \in Issues, InsertIssue(r, i) PROVE Inv'
<1>1. TypeOK /\ WorkingOf(r) /\ i \in Items /\ i \notin Sprints
  BY Apart DEF Inv, TypeInv, Working
<1>2. /\ job[r].kind = "create" /\ job[r].page \in Backlogs /\ issue[i] = None
      /\ issue' = [issue EXCEPT ![i] = [status |-> "todo", sprint |-> None]]
      /\ job' = [job EXCEPT ![r].item = i] /\ sprint' = sprint
      /\ Answered(r, "todo", {i}, {}) /\ pc[r] = "sent" /\ swept' = swept
  BY DEF InsertIssue
<1>3. /\ [status |-> "todo", sprint |-> None] \in Row
      /\ [status |-> "todo", sprint |-> None] # None
  BY Apart DEF Row
<1>4. /\ issue' \in [Issues -> Row \cup {None}] /\ sprint' \in [Sprints -> SprintStatuses \cup {None}]
      /\ issue'[i] = [status |-> "todo", sprint |-> None] /\ issue'[i] # None
      /\ \A x \in Issues : x # i => issue'[x] = issue[x]
      /\ \A x \in Sprints : sprint'[x] = sprint[x]
  BY <1>1, <1>2, <1>3 DEF TypeOK
<1>5. /\ ~Exists(i) /\ Exists(i)'
      /\ \A x \in Items : Exists(x) => Exists(x)'
  BY <1>2, <1>4, Apart DEF Exists
<1>6. /\ job'[r] = [job[r] EXCEPT !.item = i] /\ job[r] \in Job
      /\ \A q \in Requests : q # r => job'[q] = job[q]
  BY <1>1, <1>2 DEF TypeOK
<1>7. /\ job'[r] \in Job /\ job'[r].kind = job[r].kind /\ job'[r].page = job[r].page /\ job'[r].item = i
  BY <1>1, <1>6, JobItem
<1>8. job' \in [Requests -> Job] /\ swept' \in [Requests -> SUBSET Issues]
  BY <1>1, <1>2, <1>6, <1>7 DEF TypeOK
<1>9. PICK items \in SUBSET Items, wrong \in SUBSET Items : items = {i} /\ wrong = {}
  BY <1>1
<1>10. /\ Answered(r, "todo", items, wrong)
       /\ \A x \in Issues : x \notin items => issue'[x] = issue[x]
       /\ \A x \in Sprints : x \notin items => sprint'[x] = sprint[x]
       /\ issue'[i].status = "todo" /\ issue'[i].sprint = None /\ "todo" \in Statuses
       /\ \A q \in Requests : swept'[q] \subseteq swept[q]
  BY <1>2, <1>4, <1>9, Apart, StatusAssumption
<1> QED
  BY <1>1, <1>2, <1>4, <1>5, <1>6, <1>7, <1>8, <1>9, <1>10, AnsweredStep

LEMMA InsertSprintStep == ASSUME Inv, NEW r \in Requests, NEW s \in Sprints, InsertSprint(r, s) PROVE Inv'
<1>1. TypeOK /\ WorkingOf(r) /\ s \in Items /\ s \notin Issues
  BY Apart DEF Inv, TypeInv, Working
<1>2. /\ job[r].kind = "create" /\ job[r].page \in SprintPages /\ sprint[s] = None
      /\ sprint' = [sprint EXCEPT ![s] = "planned"]
      /\ job' = [job EXCEPT ![r].item = s] /\ issue' = issue
      /\ Answered(r, "planned", {s}, {}) /\ pc[r] = "sent" /\ swept' = swept
  BY DEF InsertSprint
<1>3. "planned" \in SprintStatuses /\ "planned" # None
  BY Apart DEF SprintStatuses
<1>4. /\ issue' \in [Issues -> Row \cup {None}] /\ sprint' \in [Sprints -> SprintStatuses \cup {None}]
      /\ sprint'[s] = "planned"
      /\ \A x \in Issues : issue'[x] = issue[x]
      /\ \A x \in Sprints : x # s => sprint'[x] = sprint[x]
  BY <1>1, <1>2, <1>3 DEF TypeOK
<1>5. /\ ~Exists(s) /\ Exists(s)'
      /\ \A x \in Items : Exists(x) => Exists(x)'
  BY <1>1, <1>2, <1>3, <1>4, Apart DEF Exists
<1>6. /\ job'[r] = [job[r] EXCEPT !.item = s] /\ job[r] \in Job
      /\ \A q \in Requests : q # r => job'[q] = job[q]
  BY <1>1, <1>2 DEF TypeOK
<1>7. /\ job'[r] \in Job /\ job'[r].kind = job[r].kind /\ job'[r].page = job[r].page /\ job'[r].item = s
  BY <1>1, <1>6, JobItem
<1>8. job' \in [Requests -> Job] /\ swept' \in [Requests -> SUBSET Issues]
  BY <1>1, <1>2, <1>6, <1>7 DEF TypeOK
<1> QED
  BY <1>1, <1>2, <1>3, <1>4, <1>5, <1>6, <1>7, <1>8, AnsweredStep

LEMMA StartSprintStep == ASSUME Inv, NEW r \in Requests, StartSprint(r) PROVE Inv'
<1>1. TypeOK /\ WorkingOf(r) /\ RowsInv
  BY DEF Inv, TypeInv, Working
<1>2. PICK s \in Sprints : s = job[r].item
  BY <1>1 DEF WorkingOf, StartSprint
<1>3. s \in Items /\ s \notin Issues /\ sprint[s] # None /\ sprint[s] \in SprintStatuses
  BY <1>1, <1>2, Apart DEF RowsInv, Exists, TypeOK
<1>4. "active" \in SprintStatuses /\ "active" # None
  BY Apart DEF SprintStatuses
<1>5. /\ job[r].kind = "start" /\ pc[r] = "sent" /\ issue' = issue /\ job' = job /\ swept' = swept
      /\ issue' \in [Issues -> Row \cup {None}] /\ job' \in [Requests -> Job]
      /\ swept' \in [Requests -> SUBSET Issues]
  BY <1>1 DEF StartSprint, TypeOK
<1>6. CASE sprint' = [sprint EXCEPT ![s] = "active"] /\ Answered(r, "active", {s}, {})
  <2>1. /\ sprint' \in [Sprints -> SprintStatuses \cup {None}] /\ sprint'[s] = "active"
        /\ \A x \in Sprints : x # s => sprint'[x] = sprint[x]
    BY <1>1, <1>4, <1>6 DEF TypeOK
  <2>2. Exists(s)' /\ \A x \in Items : Exists(x) => Exists(x)'
    BY <1>3, <1>4, <1>5, <2>1, Apart DEF Exists
  <2> QED
    BY <1>2, <1>3, <1>4, <1>5, <1>6, <2>1, <2>2, AnsweredStep
\* Nothing was changed: the answer is the row, or the page is told what is not so.
<1>7. ASSUME sprint' = sprint, NEW st \in SprintStatuses, NEW wrong \in SUBSET Items,
             Answered(r, st, {}, wrong), s \in wrong \/ st = sprint[s]
      PROVE  Inv'
  <2>1. /\ sprint' \in [Sprints -> SprintStatuses \cup {None}]
        /\ \A x \in Sprints : sprint'[x] = sprint[x]
    BY <1>1, <1>7 DEF TypeOK
  <2>2. Exists(s)' /\ \A x \in Items : Exists(x) => Exists(x)'
    BY <1>3, <1>5, <1>7, <2>1, Apart DEF Exists
  <2>3. PICK items \in SUBSET Items : items = {}
    OBVIOUS
  <2>4. Answered(r, st, items, wrong)
    BY <1>7, <2>3
  <2>5. \A x \in Issues : issue'[x] = issue[x]
    BY <1>5
  <2>6. s \in wrong \/ sprint'[s] = st
    BY <1>7
  <2>7. \A x \in items : x = s
    BY <2>3
  <2> QED
    BY <1>2, <1>3, <1>5, <1>7, <2>1, <2>2, <2>4, <2>5, <2>6, <2>7, AnsweredStep
<1>8. CASE sprint' = sprint /\ Answered(r, sprint[s], {}, {})
  <2>1. PICK st \in SprintStatuses, wrong \in SUBSET Items : st = sprint[s] /\ wrong = {}
    BY <1>3
  <2>2. Answered(r, st, {}, wrong)
    BY <1>8, <2>1
  <2> QED
    BY <1>7, <1>8, <2>1, <2>2
<1>9. CASE sprint' = sprint /\ Answered(r, "active", {}, {s})
  <2>1. PICK st \in SprintStatuses, wrong \in SUBSET Items : st = "active" /\ wrong = {s}
    BY <1>3, <1>4
  <2>2. Answered(r, st, {}, wrong)
    BY <1>9, <2>1
  <2> QED
    BY <1>7, <1>9, <2>1, <2>2
<1> QED
  BY <1>2, <1>6, <1>8, <1>9 DEF StartSprint

\* The rows are cleared in a transaction that nobody sees.
LEMMA SweepStep == ASSUME Inv, NEW r \in Requests, Sweep(r) PROVE Inv'
<1>1. /\ TypeOK /\ WorkingOf(r) /\ RowsInv /\ PagesInv
      /\ TypeInv /\ AnswersInv /\ ListInv /\ TwiceInv /\ AskedInv
  BY DEF Inv, TypeInv, Working
<1>2. PICK rows \in SUBSET Issues : rows = Unfinished(job[r].item)
  BY DEF Unfinished
<1>3. /\ pc[r] = "sent" /\ job[r].kind = "complete" /\ pc' = [pc EXCEPT ![r] = "closing"]
      /\ swept' = [swept EXCEPT ![r] = rows]
      /\ UNCHANGED <<issue, sprint, open, toRead, loading, reply, list, job, got, back,
                     stale, since, crossed>>
  BY <1>2 DEF Sweep, Goto, tables, loadVars
<1>4. /\ pc'[r] = "closing" /\ swept'[r] = rows
      /\ \A q \in Requests : q # r => pc'[q] = pc[q] /\ swept'[q] = swept[q]
      /\ \A q \in Requests : InFlight(q)' <=> InFlight(q)
  BY <1>1, <1>3 DEF TypeOK, InFlight
<1>5. TypeOK'
  <2>1. /\ pc' \in [Requests -> {"idle", "sent", "closing", "answered", "fetching", "fetched", "over"}]
        /\ swept' \in [Requests -> SUBSET Issues]
    BY <1>1, <1>3 DEF TypeOK
  <2>2. OneSubmission'
    BY <1>1, <1>3, <1>4 DEF TypeOK, OneSubmission
  <2> QED
    BY <1>1, <1>3, <2>1, <2>2 DEF TypeOK
<1>6. Working'
  <2>1. WorkingOf(r)'
    BY <1>1, <1>3, <1>4 DEF WorkingOf, InFlight
  <2> QED
    BY <1>1, <1>3, <1>4, <2>1, OthersWork
<1>7. PagesInv'
  BY <1>1, <1>3 DEF PagesInv
<1>8. RowsInv'
  <2>1. \A q \in Requests : \A i \in swept'[q] : Exists(i)
    BY <1>1, <1>2, <1>4 DEF RowsInv, Unfinished, Exists
  <2> QED
    BY <1>1, <1>3, <2>1 DEF RowsInv, Exists
<1>9. AnswersInv'
  <2>1. \A p \in Pages : \A x : OnItsWay(p, x) => OnItsWay(p, x)'
    BY <1>3, <1>4, WayRests
  <2> QED
    BY <1>1, <1>3, <1>4, <2>1, AnswersRest
<1>10. ListInv'
  <2> SUFFICES ASSUME NEW q \in open, NEW x \in Items, Believed(q, x)' PROVE RightAbout(q, x)'
    BY <1>3 DEF ListInv
  <2>1. RightAbout(q, x)
    BY <1>1, <1>3 DEF ListInv, Believed
  <2>2. ~Regards(r, q, x) /\ ~Regards(r, q, x)'
    BY <1>3, <1>4 DEF Regards
  <2> QED
    BY <1>3, <1>4, <2>1, <2>2, RightRests
<1>11. TwiceInv' /\ AskedInv'
  <2>1. \A q \in Requests : pc'[q] = "sent" => pc[q] = "sent"
    BY <1>3, <1>4
  <2> QED
    BY <1>1, <1>3, <1>4, <2>1, SprintsRest
<1> QED
  BY <1>5, <1>6, <1>7, <1>8, <1>9, <1>10, <1>11 DEF Inv, TypeInv

LEMMA CloseStep == ASSUME Inv, NEW r \in Requests, Close(r) PROVE Inv'
<1>1. TypeOK /\ WorkingOf(r) /\ RowsInv
  BY DEF Inv, TypeInv, Working
<1>2. PICK s \in Sprints : s = job[r].item
  BY <1>1 DEF WorkingOf, Close
<1>3. PICK moved \in SUBSET Issues : moved = swept[r]
  BY <1>1 DEF TypeOK
<1>4. s \in Items /\ s \notin Issues /\ {s} \cup moved \in SUBSET Items
  BY Apart
<1>5. /\ pc[r] = "closing" /\ job[r].kind = "complete" /\ sprint' = [sprint EXCEPT ![s] = "completed"]
      /\ issue' = [i \in Issues |-> IF i \in moved THEN [issue[i] EXCEPT !.sprint = None] ELSE issue[i]]
      /\ Answered(r, "completed", {s} \cup moved, {}) /\ job' = job
      /\ swept' = [swept EXCEPT ![r] = {}]
  BY <1>1, <1>2, <1>3 DEF Close, WorkingOf
<1>6. "completed" \in SprintStatuses /\ "completed" # None
  BY Apart DEF SprintStatuses
<1>7. \A i \in moved : /\ issue[i] \in Row /\ [issue[i] EXCEPT !.sprint = None] \in Row
                       /\ [issue[i] EXCEPT !.sprint = None] # None
  <2>1. \A w \in Row : [w EXCEPT !.sprint = None] \in Row
    BY DEF Row
  <2>2. \A i \in moved : issue[i] \in Row
    BY <1>1, <1>3 DEF RowsInv, Exists, TypeOK
  <2> QED
    BY <2>1, <2>2, Apart
<1>8. /\ issue' \in [Issues -> Row \cup {None}] /\ sprint' \in [Sprints -> SprintStatuses \cup {None}]
      /\ sprint'[s] = "completed"
      /\ \A x \in Issues : x \notin {s} \cup moved => issue'[x] = issue[x]
      /\ \A x \in Sprints : x \notin {s} \cup moved => sprint'[x] = sprint[x]
  BY <1>1, <1>5, <1>6, <1>7 DEF TypeOK
<1>9. Exists(s)' /\ \A x \in Items : Exists(x) => Exists(x)'
  <2>1. \A x \in Issues : issue[x] # None => issue'[x] # None
    BY <1>5, <1>7
  <2>2. sprint'[s] # None /\ \A x \in Sprints : sprint[x] # None => sprint'[x] # None
    BY <1>1, <1>5, <1>6 DEF TypeOK
  <2> QED
    BY <1>4, <2>1, <2>2, Apart DEF Exists
<1>10. /\ job' \in [Requests -> Job] /\ swept' \in [Requests -> SUBSET Issues]
       /\ \A q \in Requests : swept'[q] \subseteq swept[q]
  BY <1>1, <1>5 DEF TypeOK
<1>11. PICK items \in SUBSET Items, wrong \in SUBSET Items : items = {s} \cup moved /\ wrong = {}
  BY <1>4
<1>12. Answered(r, "completed", items, wrong)
  BY <1>5, <1>11
<1>13. /\ \A x \in Issues : x \notin items => issue'[x] = issue[x]
       /\ \A x \in Sprints : x \notin items => sprint'[x] = sprint[x]
       /\ \A x \in items : x = s \/ x \in Issues
  BY <1>8, <1>11
<1>14. /\ job'[r].kind = "complete" /\ job[r].item = s /\ job'[r].page = job[r].page /\ job'[r].item = s
       /\ \A q \in Requests : q # r => job'[q] = job[q]
  BY <1>2, <1>5
<1> QED
  BY <1>4, <1>5, <1>6, <1>8, <1>9, <1>10, <1>11, <1>12, <1>13, <1>14, AnsweredStep

\* The promise of a request settles: it has nothing in hand any more.
LEMMA OverAt ==
    ASSUME TypeOK, NEW r \in Requests, Over(r)
    PROVE  /\ pc' \in [Requests -> {"idle", "sent", "closing", "answered", "fetching", "fetched", "over"}]
           /\ job' \in [Requests -> Job] /\ got' \in [Requests -> SprintStatuses \cup Statuses \cup {None}]
           /\ back' \in [Requests -> SUBSET Entry] /\ swept' \in [Requests -> SUBSET Issues]
           /\ pc'[r] = "over" /\ job'[r] = NoJob /\ back'[r] = {} /\ swept'[r] = {}
           /\ \A q \in Requests : q # r =>
                  pc'[q] = pc[q] /\ job'[q] = job[q] /\ got'[q] = got[q] /\ back'[q] = back[q] /\ swept'[q] = swept[q]
           /\ ~InFlight(r)' /\ \A q \in Requests : InFlight(q)' => InFlight(q) /\ q # r
           /\ WorkingOf(r)' /\ OneSubmission'
<1>1. /\ pc' = [pc EXCEPT ![r] = "over"] /\ job' = [job EXCEPT ![r] = NoJob]
      /\ got' = [got EXCEPT ![r] = None] /\ back' = [back EXCEPT ![r] = {}]
      /\ swept' = [swept EXCEPT ![r] = {}]
  BY DEF Over, Goto
<1>2. /\ pc' \in [Requests -> {"idle", "sent", "closing", "answered", "fetching", "fetched", "over"}]
      /\ job' \in [Requests -> Job] /\ got' \in [Requests -> SprintStatuses \cup Statuses \cup {None}]
      /\ back' \in [Requests -> SUBSET Entry] /\ swept' \in [Requests -> SUBSET Issues]
  BY <1>1, NoJobFields DEF TypeOK
<1>3. /\ pc'[r] = "over" /\ job'[r] = NoJob /\ back'[r] = {} /\ swept'[r] = {}
      /\ \A q \in Requests : q # r =>
             pc'[q] = pc[q] /\ job'[q] = job[q] /\ got'[q] = got[q] /\ back'[q] = back[q] /\ swept'[q] = swept[q]
  BY <1>1 DEF TypeOK
<1>4. ~InFlight(r)' /\ \A q \in Requests : InFlight(q)' => InFlight(q) /\ q # r
  BY <1>3 DEF InFlight
<1>5. WorkingOf(r)'
  BY <1>3, <1>4, NoJobFields DEF WorkingOf
<1>6. OneSubmission'
  BY <1>3, <1>4 DEF TypeOK, OneSubmission
<1> QED
  BY <1>2, <1>3, <1>4, <1>5, <1>6

\* Somebody changes a row that is there: its status or its sprint.
LEMMA OneField ==
    ASSUME TypeOK, NEW i \in Issues, issue[i] # None,
           \/ \E st \in Statuses : issue' = [issue EXCEPT ![i].status = st]
           \/ \E sp \in Sprints : issue' = [issue EXCEPT ![i].sprint = sp]
    PROVE  /\ issue' \in [Issues -> Row \cup {None}] /\ issue'[i] # None
           /\ \A x \in Issues : x # i => issue'[x] = issue[x]
<1>1. issue[i] \in Row
  BY DEF TypeOK
<1>2. /\ \A st \in Statuses : [issue[i] EXCEPT !.status = st] \in Row
      /\ \A sp \in Sprints : [issue[i] EXCEPT !.sprint = sp] \in Row
  BY <1>1 DEF Row
<1>3. CASE \E st \in Statuses : issue' = [issue EXCEPT ![i].status = st]
  BY <1>2, <1>3, Apart DEF TypeOK
<1>4. CASE \E sp \in Sprints : issue' = [issue EXCEPT ![i].sprint = sp]
  BY <1>2, <1>4, Apart DEF TypeOK
<1> QED
  BY <1>3, <1>4

LEMMA UpdateIssueStep == ASSUME Inv, NEW r \in Requests, UpdateIssue(r) PROVE Inv'
<1>1. TypeOK /\ WorkingOf(r) /\ RowsInv /\ TypeInv /\ AnswersInv /\ ListInv /\ TwiceInv /\ AskedInv
  BY DEF Inv, TypeInv, Working
<1>2. /\ pc[r] = "sent" /\ job[r].kind \in {"status", "assign"} /\ Over(r)
      /\ Changed({job[r].item}, job[r].page)
      /\ UNCHANGED <<sprint, open, toRead, loading, reply, list, crossed>>
  BY DEF UpdateIssue, loadVars
<1>3. PICK i \in Issues, p \in Backlogs : i = job[r].item /\ p = job[r].page
  BY <1>1, <1>2 DEF WorkingOf
<1>4. issue[i] # None /\ {i} \in SUBSET Items /\ i \in Items /\ p \in Pages
  BY <1>1, <1>3, Apart DEF RowsInv, Exists
<1>5. \/ job[r].kind = "status" /\ job[r].to \in Statuses /\ issue' = [issue EXCEPT ![i].status = job[r].to]
      \/ job[r].kind = "assign" /\ job[r].to \in Sprints /\ issue' = [issue EXCEPT ![i].sprint = job[r].to]
  BY <1>1, <1>3 DEF UpdateIssue, WorkingOf
<1>6. /\ issue' \in [Issues -> Row \cup {None}] /\ issue'[i] # None
      /\ \A x \in Issues : x # i => issue'[x] = issue[x]
  BY <1>1, <1>4, <1>5, OneField
<1>7. Changed({i}, p)
  BY <1>2, <1>3
<1>8. /\ stale' \in [Pages -> SUBSET Items] /\ since' \in [Pages \cup Requests -> SUBSET Items]
      /\ \A q \in Pages : stale'[q] = IF q = p THEN stale[q] ELSE stale[q] \cup {i}
  <2>1. stale' = Spread({i}, p) /\ since' = Noted({i}, p)
    BY <1>7 DEF Changed
  <2>2. stale' \in [Pages -> SUBSET Items] /\ since' \in [Pages \cup Requests -> SUBSET Items]
    BY <1>1, <1>4, <2>1, ChangedSets
  <2> QED
    BY <2>1, <2>2 DEF Spread
<1>9. /\ pc' \in [Requests -> {"idle", "sent", "closing", "answered", "fetching", "fetched", "over"}]
      /\ job' \in [Requests -> Job] /\ got' \in [Requests -> SprintStatuses \cup Statuses \cup {None}]
      /\ back' \in [Requests -> SUBSET Entry] /\ swept' \in [Requests -> SUBSET Issues]
      /\ pc'[r] = "over" /\ job'[r] = NoJob /\ back'[r] = {} /\ swept'[r] = {}
      /\ \A q \in Requests : q # r =>
             pc'[q] = pc[q] /\ job'[q] = job[q] /\ got'[q] = got[q] /\ back'[q] = back[q] /\ swept'[q] = swept[q]
      /\ ~InFlight(r)' /\ \A q \in Requests : InFlight(q)' => InFlight(q) /\ q # r
      /\ WorkingOf(r)' /\ OneSubmission'
  BY <1>1, <1>2, OverAt
<1>10. TypeOK'
  BY <1>1, <1>2, <1>6, <1>8, <1>9 DEF TypeOK
<1>11. Working'
  BY <1>1, <1>2, <1>9, OthersWork
<1>12. PagesInv'
  BY <1>1, <1>2 DEF TypeInv, PagesInv
<1>13. \A x \in Items : Exists(x) => Exists(x)'
  BY <1>2, <1>6 DEF Exists
<1>14. RowsInv'
  <2>1. /\ \A q \in Requests : back'[q] \subseteq back[q] /\ swept'[q] \subseteq swept[q]
        /\ \A q \in Requests : job'[q].item \in {job[q].item, None}
    BY <1>9, NoJobFields
  <2> QED
    BY <1>1, <1>2, <1>13, <2>1, RowsStay
<1>15. AnswersInv'
  <2>1. /\ p \in Pages \cup {None} /\ ~loading[p]
        /\ \A x \in Pages \cup Requests : since'[x] = Noted({i}, p)[x]
    BY <1>1, <1>2, <1>3, <1>4, <1>7 DEF Changed, WorkingOf
  <2>2. \A q \in Pages, x \in Items : loading[q] /\ NotYet(q, x) => NotYet(q, x)'
    BY <1>2, <1>9 DEF NotYet
  <2>3. \A q \in Requests : pc'[q] \in {"answered", "fetched"} => q # r
    BY <1>9
  <2>4. \A x \in Issues : x \notin {i} => issue'[x] = issue[x]
    BY <1>6
  <2>5. \A q \in Pages : since'[q] = Noted({i}, p)[q]
    BY <2>1
  <2>6. \A q \in Requests : since'[q] = Noted({i}, p)[q]
    BY <2>1
  <2>7. PICK items \in SUBSET Items : items = {i}
    BY <1>4
  <2> QED
    BY <1>1, <1>2, <1>9, <2>1, <2>2, <2>3, <2>4, <2>5, <2>6, <2>7, AnswersChange
<1>16. ListInv'
  <2> SUFFICES ASSUME NEW q \in open, NEW x \in Items, Believed(q, x)' PROVE RightAbout(q, x)'
    BY <1>2 DEF ListInv
  <2>1. q \in Pages
    BY <1>1, OpenPages
  <2>2. RightAbout(q, x)
    BY <1>1, <1>2, <1>8, <2>1 DEF ListInv, Believed
  <2>3. CASE x # i
    <3>1. ~Regards(r, q, x) /\ ~Regards(r, q, x)'
      BY <1>2, <1>3, <1>9, <2>3 DEF Regards
    <3> QED
      BY <1>2, <1>6, <1>9, <2>2, <2>3, <3>1, RightRests
  <2>4. CASE x = i /\ q = p
    <3>1. ~Coming(p, i)
      BY <1>1, Apart DEF Coming, TypeInv, Working, WorkingOf
    <3>2. (\E e \in list[p] : e.id = i) /\ \A e \in list[p] : e.id = i => AsAsked(p, e)
      BY <1>1, <1>2, <1>3, <2>2, <2>4, <3>1 DEF RightAbout, WorkingOf
    <3>3. \A z \in Requests, k \in {"status", "assign"} :
              /\ Patching(z, p, i, k)' <=> (Patching(z, p, i, k) /\ z # r)
              /\ z # r => job'[z] = job[z]
              /\ z = r => (Patching(z, p, i, k) <=> k = job[r].kind)
      BY <1>2, <1>3, <1>9 DEF Patching
    <3>4. ASSUME NEW e \in list[p], e.id = i PROVE AsAsked(p, e)'
      <4>1. AsAsked(p, e)
        BY <3>2, <3>4
      <4>2. CASE job[r].kind = "status"
        <5>1. /\ issue'[i].status = job[r].to /\ issue'[i].sprint = issue[i].sprint
          BY <1>1, <1>4, <1>5, <4>2 DEF TypeOK, Row
        <5> QED
          BY <3>3, <3>4, <4>1, <4>2, <5>1 DEF AsAsked
      <4>3. CASE job[r].kind = "assign"
        <5>1. /\ issue'[i].sprint = job[r].to /\ issue'[i].status = issue[i].status
          BY <1>1, <1>4, <1>5, <4>3 DEF TypeOK, Row
        <5> QED
          BY <3>3, <3>4, <4>1, <4>3, <5>1 DEF AsAsked
      <4> QED
        BY <1>2, <4>2, <4>3
    <3> QED
      BY <1>2, <2>4, <3>2, <3>4 DEF RightAbout, OnItsWay, Has
  <2> QED
    BY <1>8, <2>1, <2>3, <2>4 DEF Believed
<1>17. TwiceInv' /\ AskedInv'
  BY <1>1, <1>2, <1>8, <1>9, SprintsRest DEF InFlight
<1> QED
  BY <1>10, <1>11, <1>12, <1>14, <1>15, <1>16, <1>17 DEF Inv, TypeInv

\* A request ends, and the page goes on with what it has.
LEMMA GivesUp ==
    ASSUME Inv, NEW r \in Requests, Over(r),
           UNCHANGED <<issue, sprint, open, toRead, loading, reply, list, crossed>>,
           stale' \in [Pages -> SUBSET Items], since' \in [Pages \cup Requests -> SUBSET Items],
           \A p \in Pages : stale[p] \subseteq stale'[p],
           \A x \in Pages \cup Requests : x # r => since[x] \subseteq since'[x],
           \A p \in Pages : \A x \in Items : Regards(r, p, x) => x \in stale'[p],
           \A p \in Pages : loading[p] /\ pc[r] = "answered" /\ job[r].page = p =>
               \A t \in Tables(p) \ toRead[p] : job[r].item \in ItemsOf(t) => job[r].item \in since'[p]
    PROVE  Inv'
<1>1. TypeOK /\ TypeInv /\ AnswersInv /\ ListInv /\ TwiceInv /\ AskedInv
  BY DEF Inv, TypeInv
<1>2. /\ pc' \in [Requests -> {"idle", "sent", "closing", "answered", "fetching", "fetched", "over"}]
      /\ job' \in [Requests -> Job] /\ got' \in [Requests -> SprintStatuses \cup Statuses \cup {None}]
      /\ back' \in [Requests -> SUBSET Entry] /\ swept' \in [Requests -> SUBSET Issues]
      /\ pc'[r] = "over" /\ job'[r] = NoJob /\ back'[r] = {} /\ swept'[r] = {}
      /\ \A q \in Requests : q # r =>
             pc'[q] = pc[q] /\ job'[q] = job[q] /\ got'[q] = got[q] /\ back'[q] = back[q] /\ swept'[q] = swept[q]
      /\ ~InFlight(r)' /\ \A q \in Requests : InFlight(q)' => InFlight(q) /\ q # r
      /\ WorkingOf(r)' /\ OneSubmission'
  BY <1>1, OverAt
<1>3. TypeOK'
  BY <1>1, <1>2 DEF TypeOK
<1>4. Working'
  BY <1>1, <1>2, OthersWork
<1>5. PagesInv'
  BY <1>1 DEF TypeInv, PagesInv
<1>6. RowsInv'
  <2>1. /\ \A q \in Requests : back'[q] \subseteq back[q] /\ swept'[q] \subseteq swept[q]
        /\ \A q \in Requests : job'[q].item \in {job[q].item, None}
    BY <1>2, NoJobFields
  <2>2. \A x \in Items : Exists(x) => Exists(x)'
    BY DEF Exists
  <2> QED
    BY <1>1, <2>1, <2>2, RowsStay
<1>7. AnswersInv'
  <2>1. \A p \in Pages : since[p] \subseteq since'[p]
    BY Apart
  <2>2. \A q \in Requests : pc'[q] \in {"answered", "fetched"} => q # r
    BY <1>2
  <2>3. \A p \in Pages : loading[p] =>
            \A t \in Tables(p) \ toRead[p] : \A x \in ItemsOf(t) \ since'[p] :
                OnItsWay(p, x) => OnItsWay(p, x)'
    <3> SUFFICES ASSUME NEW p \in Pages, loading[p], NEW t \in Tables(p) \ toRead[p],
                        NEW x \in ItemsOf(t) \ since'[p], OnItsWay(p, x)
                 PROVE  OnItsWay(p, x)'
      OBVIOUS
    <3>1. ~(pc[r] = "answered" /\ job[r].page = p /\ job[r].item = x)
      OBVIOUS
    <3> QED
      BY <1>2, <3>1, WayRests
  <2>4. \A q \in Requests : pc'[q] = "answered" =>
            /\ pc[q] = "answered" /\ job'[q] = job[q] /\ got'[q] = got[q] /\ since[q] \subseteq since'[q]
    BY <1>2, <2>2
  <2>5. \A q \in Requests : pc'[q] = "fetched" =>
            pc[q] = "fetched" /\ back'[q] = back[q] /\ since[q] \subseteq since'[q]
    BY <1>2, <2>2
  <2> QED
    BY <1>1, <2>1, <2>3, <2>4, <2>5, AnswersRest
<1>8. ListInv'
  <2> SUFFICES ASSUME NEW q \in open, NEW x \in Items, Believed(q, x)' PROVE RightAbout(q, x)'
    BY DEF ListInv
  <2>1. q \in Pages /\ q # None
    BY <1>1, OpenPages, Apart
  <2>2. RightAbout(q, x)
    BY <1>1, <2>1 DEF ListInv, Believed
  <2>3. ~Regards(r, q, x) /\ ~Regards(r, q, x)'
    BY <1>2, <2>1 DEF Regards, Believed
  <2> QED
    BY <1>2, <2>2, <2>3, RightRests
<1>9. TwiceInv' /\ AskedInv'
  BY <1>1, <1>2, SprintsRest DEF InFlight
<1> QED
  BY <1>3, <1>4, <1>5, <1>6, <1>7, <1>8, <1>9 DEF Inv, TypeInv

LEMMA FailStep == ASSUME Inv, NEW r \in Requests, Fail(r) PROVE Inv'
<1>1. TypeOK /\ WorkingOf(r)
  BY DEF Inv, TypeInv, Working
<1>2. PICK lost \in SUBSET Issues :
          lost = {i \in Issues : job[r].kind \in {"status", "assign"} /\ job[r].item = i}
  OBVIOUS
<1>3. PICK p : p = job[r].page
  OBVIOUS
<1>4. /\ pc[r] \in {"sent", "closing"} /\ Over(r) /\ stale' = [stale EXCEPT ![p] = @ \cup lost]
      /\ since' = [since EXCEPT ![r] = {}]
      /\ UNCHANGED <<issue, sprint, open, toRead, loading, reply, list, crossed>>
  BY <1>2, <1>3 DEF Fail, tables, loadVars
<1>5. lost \in SUBSET Items
  BY Apart
<1>6. /\ stale' \in [Pages -> SUBSET Items] /\ \A q \in Pages : stale[q] \subseteq stale'[q]
      /\ p \in Pages => stale'[p] = stale[p] \cup lost
  BY <1>1, <1>4, <1>5 DEF TypeOK
<1>7. \A q \in Pages : \A x \in Items : Regards(r, q, x) => x \in stale'[q]
  BY <1>1, <1>2, <1>3, <1>4, <1>6 DEF Regards, WorkingOf
<1>8. /\ since' \in [Pages \cup Requests -> SUBSET Items]
      /\ \A x \in Pages \cup Requests : x # r => since[x] \subseteq since'[x]
  BY <1>1, <1>4 DEF TypeOK
<1> QED
  BY <1>4, <1>6, <1>7, <1>8, GivesUp

LEMMA LostStep == ASSUME Inv, NEW r \in Requests, Lost(r) PROVE Inv'
<1>1. TypeOK /\ WorkingOf(r) /\ job[r] \in Job
  BY DEF Inv, TypeInv, Working, TypeOK
<1>2. PICK p : p = job[r].page
  OBVIOUS
<1>3. pc[r] \in {"answered", "fetching", "fetched"}
  BY DEF Lost
<1>4. job[r].item \in Items
  BY <1>1, <1>3, JobFields, Apart DEF WorkingOf, InFlight
<1>5. PICK lost \in SUBSET Items :
          lost = {job[r].item} \cup (IF job[r].kind = "complete" THEN Issues ELSE {})
  BY <1>4, Apart
<1>6. /\ Over(r) /\ stale' = [stale EXCEPT ![p] = @ \cup lost]
      /\ since' = [since EXCEPT ![r] = {}, ![p] = @ \cup Outdated(p, {job[r].item})]
      /\ UNCHANGED <<issue, sprint, open, toRead, loading, reply, list, crossed>>
  <2>1. stale' = [stale EXCEPT ![job[r].page] =
            @ \cup {job[r].item} \cup (IF job[r].kind = "complete" THEN Issues ELSE {})]
    BY DEF Lost
  <2>2. \A s : s \cup {job[r].item} \cup (IF job[r].kind = "complete" THEN Issues ELSE {}) = s \cup lost
    BY <1>5
  <2>3. stale' = [stale EXCEPT ![p] = @ \cup lost]
    BY <1>1, <1>2, <2>1, <2>2 DEF TypeOK
  <2> QED
    BY <1>2, <2>3 DEF Lost, tables, loadVars
<1>7. /\ stale' \in [Pages -> SUBSET Items] /\ \A q \in Pages : stale[q] \subseteq stale'[q]
      /\ p \in Pages => stale'[p] = stale[p] \cup lost
      /\ since' \in [Pages \cup Requests -> SUBSET Items]
      /\ \A x \in Pages \cup Requests : x # r => since[x] \subseteq since'[x]
      /\ p \in Pages => since'[p] = since[p] \cup Outdated(p, {job[r].item})
  <2>1. Outdated(p, {job[r].item}) \subseteq {job[r].item} /\ p \in Pages
    BY <1>1, <1>2, <1>3, PageOf DEF Outdated, Inv, InFlight
  <2>2. PICK late \in SUBSET Items : late = Outdated(p, {job[r].item})
    BY <1>4, <2>1
  <2>3. since' = [since EXCEPT ![r] = {}, ![p] = @ \cup late]
    BY <1>6, <2>2
  <2>4. p # r
    BY <2>1, Apart
  <2>5. /\ since' \in [Pages \cup Requests -> SUBSET Items]
        /\ \A x \in Pages \cup Requests : x # r => since[x] \subseteq since'[x]
        /\ since'[p] = since[p] \cup late
    BY <1>1, <2>1, <2>3, <2>4 DEF TypeOK
  <2>6. /\ stale' \in [Pages -> SUBSET Items] /\ \A q \in Pages : stale[q] \subseteq stale'[q]
        /\ stale'[p] = stale[p] \cup lost
    BY <1>1, <1>6, <2>1 DEF TypeOK
  <2> QED
    BY <2>2, <2>5, <2>6
<1>8. \A q \in Pages : \A x \in Items : Regards(r, q, x) => x \in stale'[q]
  BY <1>2, <1>3, <1>5, <1>7 DEF Regards
<1>9. \A q \in Pages : loading[q] /\ job[r].page = q =>
          \A t \in Tables(q) \ toRead[q] : job[r].item \in ItemsOf(t) => job[r].item \in since'[q]
  BY <1>2, <1>7 DEF Outdated
<1> QED
  BY <1>6, <1>7, <1>8, <1>9, GivesUp

LEMMA DragStep == ASSUME Inv, NEW i \in Issues, NEW to \in Statuses, Drag(i, to) PROVE Inv'
<1>1. TypeOK /\ TypeInv /\ AnswersInv /\ ListInv /\ TwiceInv /\ AskedInv /\ RowsInv
  BY DEF Inv, TypeInv
<1>2. /\ issue[i] # None /\ issue' = [issue EXCEPT ![i].status = to] /\ Changed({i}, None)
      /\ UNCHANGED <<sprint, open, toRead, loading, reply, list, pc, job, got, back, swept, crossed>>
  BY DEF Drag, loadVars, requestVars
<1>3. {i} \in SUBSET Items
  BY Apart
<1>4. /\ issue' \in [Issues -> Row \cup {None}] /\ issue'[i] # None
      /\ \A x \in Issues : x # i => issue'[x] = issue[x]
  BY <1>1, <1>2, OneField
<1>5. /\ stale' \in [Pages -> SUBSET Items] /\ since' \in [Pages \cup Requests -> SUBSET Items]
      /\ \A q \in Pages : stale'[q] = stale[q] \cup {i}
  <2>1. PICK by : by = None
    OBVIOUS
  <2>2. Changed({i}, by) /\ \A q \in Pages : q # by
    BY <1>2, <2>1, Apart
  <2>3. /\ stale' \in [Pages -> SUBSET Items] /\ since' \in [Pages \cup Requests -> SUBSET Items]
        /\ \A q \in Pages : stale'[q] = IF q = by THEN stale[q] ELSE stale[q] \cup {i}
    <3>1. stale' = Spread({i}, by) /\ since' = Noted({i}, by)
      BY <2>2 DEF Changed
    <3>2. stale' \in [Pages -> SUBSET Items] /\ since' \in [Pages \cup Requests -> SUBSET Items]
      BY <1>1, <1>3, <3>1, ChangedSets
    <3> QED
      BY <3>1, <3>2 DEF Spread
  <2> QED
    BY <2>2, <2>3
<1>6. TypeOK'
  BY <1>1, <1>2, <1>4, <1>5 DEF TypeOK, OneSubmission, InFlight
<1>7. Working' /\ PagesInv'
  BY <1>1, <1>2 DEF TypeInv, Working, WorkingOf, InFlight, PagesInv
<1>8. RowsInv'
  <2>1. \A x \in Items : Exists(x) => Exists(x)'
    BY <1>2, <1>4 DEF Exists
  <2> QED
    BY <1>1, <1>2, <2>1, RowsStay
<1>9. AnswersInv'
  <2>1. PICK by \in Pages \cup {None}, items \in SUBSET Items : by = None /\ items = {i}
    BY <1>3
  <2>2. /\ \A q \in Pages : since'[q] = Noted(items, by)[q]
        /\ \A q \in Requests : since'[q] = Noted(items, by)[q]
    BY <1>2, <2>1 DEF Changed
  <2>3. \A q \in Pages, x \in Items : loading[q] /\ NotYet(q, x) => NotYet(q, x)'
    BY <1>2 DEF NotYet
  <2>4. \A x \in Issues : x \notin items => issue'[x] = issue[x]
    BY <1>4, <2>1
  <2>5. \A q \in Pages : q # by
    BY <2>1, Apart
  <2> QED
    BY <1>1, <1>2, <2>2, <2>3, <2>4, <2>5, AnswersChange
<1>10. ListInv'
  <2> SUFFICES ASSUME NEW q \in open, NEW x \in Items, Believed(q, x)' PROVE RightAbout(q, x)'
    BY <1>2 DEF ListInv
  <2>1. q \in Pages
    BY <1>1, OpenPages
  <2>2. RightAbout(q, x)
    BY <1>1, <1>2, <1>5, <2>1 DEF ListInv, Believed
  <2>3. x # i
    BY <1>5, <2>1 DEF Believed
  <2> QED
    BY <1>2, <1>4, <2>2, <2>3, RightRests
<1>11. TwiceInv' /\ AskedInv'
  BY <1>1, <1>2, <1>5, SprintsRest DEF InFlight
<1> QED
  BY <1>6, <1>7, <1>8, <1>9, <1>10, <1>11 DEF Inv, TypeInv

-------------------------------------------------------------------------------
(***************************************************************************)
(* Answers                                                                 *)
(***************************************************************************)

LEMMA CreatedStep == ASSUME Inv, NEW r \in Requests, Created(r) PROVE Inv'
<1>1. /\ TypeOK /\ WorkingOf(r) /\ RowsInv /\ PagesInv
      /\ TypeInv /\ AnswersInv /\ ListInv /\ TwiceInv /\ AskedInv
  BY DEF Inv, TypeInv, Working
<1>2. PICK p \in Pages, x \in Items : p = job[r].page /\ x = job[r].item
  BY <1>1, Apart DEF Created, WorkingOf
<1>3. PICK n : n = NewEntry(x, got[r], None, \E e \in list[p] : e.id = x)
  OBVIOUS
<1>4. PICK twice : twice = {i \in {x} : Others(r, p, i) # {}}
  OBVIOUS
<1>5. /\ pc[r] = "answered" /\ job[r].kind = "create" /\ Over(r)
      /\ UNCHANGED <<issue, sprint, open, toRead, loading, reply, crossed>>
      /\ list' = [list EXCEPT ![p] = @ \cup {n}]
      /\ stale' = [stale EXCEPT ![p] = @ \cup since[r] \cup twice]
      /\ since' = [since EXCEPT ![r] = {}]
  <2>1. list' = [list EXCEPT ![p] = list[p] \cup {n}]
    BY <1>2, <1>3 DEF Created
  <2> QED
    BY <1>1, <1>2, <1>4, <2>1 DEF Created, tables, loadVars, TypeOK
<1>6. /\ p \in open
      /\ \/ p \in Backlogs /\ x \in Issues /\ got[r] \in Statuses
         \/ p \in SprintPages /\ x \in Sprints /\ got[r] \in SprintStatuses
  BY <1>1, <1>2, <1>5 DEF WorkingOf, InFlight
<1>7. n \in Entry /\ n.id = x /\ n.status = got[r] /\ n.sprint = None
  BY <1>3, <1>6 DEF NewEntry, Entry
<1>8. /\ list' \in [Pages -> SUBSET Entry] /\ stale' \in [Pages -> SUBSET Items]
      /\ since' \in [Pages \cup Requests -> SUBSET Items]
  <2>1. twice \subseteq Items /\ since[r] \subseteq Items
    BY <1>1, <1>4 DEF TypeOK
  <2> QED
    BY <1>1, <1>5, <1>7, <2>1 DEF TypeOK
<1>9. /\ list'[p] = list[p] \cup {n} /\ \A q \in Pages : q # p => list'[q] = list[q]
      /\ stale'[p] = stale[p] \cup since[r] \cup twice
      /\ \A q \in Pages : q # p => stale'[q] = stale[q]
      /\ \A z \in Pages \cup Requests : z # r => since'[z] = since[z]
  BY <1>1, <1>5 DEF TypeOK
<1>10. /\ pc' \in [Requests -> {"idle", "sent", "closing", "answered", "fetching", "fetched", "over"}]
       /\ job' \in [Requests -> Job] /\ got' \in [Requests -> SprintStatuses \cup Statuses \cup {None}]
       /\ back' \in [Requests -> SUBSET Entry] /\ swept' \in [Requests -> SUBSET Issues]
       /\ pc'[r] = "over" /\ job'[r] = NoJob /\ back'[r] = {} /\ swept'[r] = {}
       /\ \A q \in Requests : q # r =>
              pc'[q] = pc[q] /\ job'[q] = job[q] /\ got'[q] = got[q] /\ back'[q] = back[q] /\ swept'[q] = swept[q]
       /\ ~InFlight(r)' /\ \A q \in Requests : InFlight(q)' => InFlight(q) /\ q # r
       /\ WorkingOf(r)' /\ OneSubmission'
  BY <1>1, <1>5, OverAt
<1>11. TypeOK'
  BY <1>1, <1>5, <1>8, <1>10 DEF TypeOK
<1>12. Working'
  <2>1. \A q \in Pages : \A e \in list[q] : \E f \in list'[q] : f.id = e.id
    BY <1>9
  <2> QED
    BY <1>1, <1>5, <1>10, <2>1, OthersWork
<1>13. PagesInv'
  BY <1>1, <1>5, <1>6, <1>9 DEF PagesInv
<1>14. RowsInv'
  <2>1. \A q \in Pages : \A e \in list'[q] : e \in list[q] \/ e.id = x
    BY <1>7, <1>9
  <2>2. Exists(x)
    BY <1>1, <1>2, Apart DEF RowsInv
  <2>3. \A q \in Pages : \A e \in list'[q] : Exists(e.id)
    BY <1>1, <2>1, <2>2 DEF RowsInv
  <2>4. \A q \in Requests : back'[q] \subseteq back[q] /\ swept'[q] \subseteq swept[q] /\ job'[q].item \in {job[q].item, None}
    BY <1>10, NoJobFields
  <2> QED
    BY <1>1, <1>5, <2>3, <2>4, RowsShown
<1>15. AnswersInv'
  <2>1. \A q \in Pages : since'[q] = since[q]
    BY <1>9, Apart
  <2>2. \A q \in Requests : pc'[q] \in {"answered", "fetched"} => q # r
    BY <1>10
  <2>3. \A q \in Pages : \A z : OnItsWay(q, z) => OnItsWay(q, z)'
    <3> SUFFICES ASSUME NEW q \in Pages, NEW z, OnItsWay(q, z) PROVE OnItsWay(q, z)'
      OBVIOUS
    <3>1. CASE q = p /\ z = x
      BY <1>7, <1>9, <3>1 DEF OnItsWay, Has
    <3>2. CASE q # p \/ z # x
      BY <1>2, <1>9, <1>10, <3>2, WayRests
    <3> QED
      BY <3>1, <3>2
  <2> QED
    BY <1>1, <1>5, <1>9, <1>10, <2>1, <2>2, <2>3, AnswersRest
<1>16. ListInv'
  <2> SUFFICES ASSUME NEW q \in open, NEW z \in Items, Believed(q, z)' PROVE RightAbout(q, z)'
    BY <1>5 DEF ListInv
  <2>1. q \in Pages
    BY <1>1, OpenPages
  <2>2. RightAbout(q, z)
    BY <1>1, <1>5, <1>9, <2>1 DEF ListInv, Believed
  <2>3. CASE q # p \/ z # x
    <3>1. ~Regards(r, q, z) /\ ~Regards(r, q, z)'
      BY <1>2, <1>5, <1>10, <2>3 DEF Regards
    <3>2. \A e \in list[q] \cup list'[q] : e.id = z => (e \in list'[q] <=> e \in list[q])
      BY <1>7, <1>9, <2>1, <2>3
    <3> QED
      BY <1>5, <1>10, <2>2, <3>1, <3>2, RightRests
  <2>4. CASE q = p /\ z = x
    <3>1. x \notin since[r] /\ x \notin twice
      BY <1>9, <2>4 DEF Believed
    <3>2. \A c \in Requests : c # r /\ InFlight(c) /\ job[c].page = p => job[c].item # x
      <4>1. Others(r, p, x) = {}
        BY <1>4, <3>1
      <4> QED
        BY <4>1 DEF Others
    <3>3. ~Coming(p, x)
      <4>1. \A c \in Requests : job[c].kind = "complete" /\ job[c].page = p => x \notin Issues
        BY <1>1, <1>6, Apart DEF TypeInv, Working, WorkingOf
      <4> QED
        BY <1>5, <3>2, <4>1 DEF Coming, InFlight
    <3>4. \A e \in list[p] : e.id = x => AsAsked(p, e)
      BY <2>2, <2>4, <3>3 DEF RightAbout
    <3>5. \A c \in Requests, k \in {"status", "assign"} : ~Patching(c, p, x, k) /\ ~Patching(c, p, x, k)'
      BY <1>5, <1>10, <3>2 DEF Patching, InFlight
    <3>6. IF x \in Issues THEN issue[x].status = n.status /\ issue[x].sprint = n.sprint
          ELSE sprint[x] = n.status
      BY <1>1, <1>2, <1>5, <1>7, <3>1 DEF AnswersInv
    <3>7. \A e \in list'[p] : e.id = x => AsAsked(p, e)'
      <4> SUFFICES ASSUME NEW e \in list'[p], e.id = x PROVE AsAsked(p, e)'
        OBVIOUS
      <4>1. CASE e = n
        BY <1>5, <1>7, <3>5, <3>6, <4>1 DEF AsAsked
      <4>2. CASE e \in list[p]
        BY <1>5, <3>4, <3>5, <4>2 DEF AsAsked
      <4> QED
        BY <1>9, <4>1, <4>2
    <3>8. \E e \in list'[p] : e.id = x
      BY <1>7, <1>9
    <3> QED
      BY <2>4, <3>7, <3>8 DEF RightAbout, OnItsWay, Has
  <2> QED
    BY <2>3, <2>4
<1>17. TwiceInv' /\ AskedInv'
  <2>1. \A q \in Pages : \A s \in Sprints : s \in stale[q] => s \in stale'[q]
    BY <1>9
  <2> QED
    BY <1>1, <1>5, <1>10, <2>1, SprintsRest DEF InFlight
<1> QED
  BY <1>11, <1>12, <1>13, <1>14, <1>15, <1>16, <1>17 DEF Inv, TypeInv

\* What a page doubts of the items it is told of.
LEMMA ToldSets ==
    ASSUME TypeOK, NEW r \in Requests, NEW p \in Pages, p = job[r].page, NEW items \in SUBSET Items,
           Told(r, items)
    PROVE  /\ stale' \in [Pages -> SUBSET Items] /\ since' \in [Pages \cup Requests -> SUBSET Items]
           /\ \A q \in Pages : q # p => stale'[q] = stale[q]
           /\ \A x \in Pages \cup Requests : x # r => since'[x] = since[x]
           /\ \A x \in Items : x \notin items => (x \in stale'[p] <=> x \in stale[p])
           /\ \A x \in items : x \notin stale'[p] =>
                  /\ x \notin since[r]
                  /\ \A q \in Requests : q # r /\ InFlight(q) /\ job[q].page = p => job[q].item # x
<1>1. PICK twice : twice = {i \in items : Others(r, p, i) # {}}
  OBVIOUS
<1>2. /\ stale' = [stale EXCEPT ![p] = (@ \ items) \cup (since[r] \cap items) \cup twice]
      /\ since' = [since EXCEPT ![r] = {}]
  BY <1>1 DEF Told
<1>3. twice \subseteq items /\ since[r] \subseteq Items
  BY <1>1 DEF TypeOK
<1>4. /\ stale' \in [Pages -> SUBSET Items] /\ since' \in [Pages \cup Requests -> SUBSET Items]
      /\ \A q \in Pages : q # p => stale'[q] = stale[q]
      /\ \A x \in Pages \cup Requests : x # r => since'[x] = since[x]
      /\ stale'[p] = (stale[p] \ items) \cup (since[r] \cap items) \cup twice
  BY <1>2, <1>3 DEF TypeOK
<1>5. ASSUME NEW x \in items, x \notin twice
      PROVE  \A q \in Requests : q # r /\ InFlight(q) /\ job[q].page = p => job[q].item # x
  <2>1. Others(r, p, x) = {}
    BY <1>1, <1>5
  <2> QED
    BY <2>1 DEF Others
<1> QED
  BY <1>3, <1>4, <1>5

LEMMA FetchAgainStep == ASSUME Inv, NEW r \in Requests, FetchAgain(r) PROVE Inv'
<1>1. /\ TypeOK /\ WorkingOf(r) /\ RowsInv /\ PagesInv
      /\ TypeInv /\ AnswersInv /\ ListInv /\ TwiceInv /\ AskedInv
  BY DEF Inv, TypeInv, Working
<1>2. /\ pc[r] = "fetching" /\ pc' = [pc EXCEPT ![r] = "fetched"]
      /\ back' = [back EXCEPT ![r] = ListOf("issues")]
      /\ UNCHANGED <<issue, sprint, open, toRead, loading, reply, list, job, got, swept, stale, since, crossed>>
  BY DEF FetchAgain, Goto, tables, loadVars
<1>3. PICK p : p = job[r].page
  OBVIOUS
<1>4. job[r].kind = "complete"
  BY <1>1, <1>2 DEF WorkingOf
<1>5. /\ ListOf("issues") \subseteq Entry
      /\ \A e \in ListOf("issues") : e.id \in Issues /\ Exists(e.id)
      /\ \A x \in Issues : Exact(ListOf("issues"), x)
  BY <1>1, ListIsTable, TablesAre
<1>6. /\ pc'[r] = "fetched" /\ back'[r] = ListOf("issues")
      /\ \A q \in Requests : q # r => pc'[q] = pc[q] /\ back'[q] = back[q]
      /\ \A q \in Requests : InFlight(q)' <=> InFlight(q)
  BY <1>1, <1>2 DEF TypeOK, InFlight
<1>7. TypeOK'
  <2>1. pc' \in [Requests -> {"idle", "sent", "closing", "answered", "fetching", "fetched", "over"}]
    BY <1>1, <1>2 DEF TypeOK
  <2>2. back' \in [Requests -> SUBSET Entry]
    BY <1>1, <1>2, <1>5 DEF TypeOK
  <2>3. OneSubmission'
    BY <1>1, <1>2, <1>6 DEF TypeOK, OneSubmission
  <2> QED
    BY <1>1, <1>2, <2>1, <2>2, <2>3 DEF TypeOK
<1>8. Working'
  <2>1. WorkingOf(r)'
    BY <1>1, <1>2, <1>4, <1>6 DEF WorkingOf, InFlight
  <2> QED
    BY <1>1, <1>2, <1>6, <2>1, OthersWork
<1>9. PagesInv'
  BY <1>1, <1>2 DEF PagesInv
<1>10. RowsInv'
  <2>1. \A q \in Requests : \A e \in back'[q] : e.id \in Issues /\ Exists(e.id)
    BY <1>1, <1>5, <1>6 DEF RowsInv
  <2> QED
    BY <1>1, <1>2, <2>1 DEF RowsInv, Exists
<1>11. AnswersInv'
  <2> USE DEF Exact, Has, True, Exists, Holds
  <2>1. \A q \in Requests : pc'[q] = "fetched" => \A x \in Issues \ since[q] : Exact(back'[q], x)
    BY <1>1, <1>5, <1>6 DEF AnswersInv
  <2>2. \A q \in Requests : pc'[q] = "answered" => pc[q] = "answered"
    BY <1>6
  <2>3. \A q \in Pages : \A x : NotYet(q, x)' <=> NotYet(q, x)
    BY <1>2, <1>6 DEF NotYet
  <2> QED
    BY <1>1, <1>2, <2>1, <2>2, <2>3 DEF AnswersInv, OnItsWay
<1>12. ListInv'
  <2> SUFFICES ASSUME NEW q \in open, NEW x \in Items, Believed(q, x)' PROVE RightAbout(q, x)'
    BY <1>2 DEF ListInv
  <2>1. RightAbout(q, x)
    BY <1>1, <1>2 DEF ListInv, Believed
  <2>2. CASE q = p /\ x \in Issues
    <3>1. Coming(q, x)'
      BY <1>2, <1>3, <1>4, <1>6, <2>2 DEF Coming
    <3> QED
      BY <3>1 DEF RightAbout
  <2>3. CASE ~(q = p /\ x \in Issues)
    <3>1. ~Regards(r, q, x) /\ ~Regards(r, q, x)'
      BY <1>2, <1>3, <1>6, <2>3 DEF Regards
    <3> QED
      BY <1>2, <1>6, <2>1, <3>1, RightRests
  <2> QED
    BY <2>2, <2>3
<1>13. TwiceInv' /\ AskedInv'
  <2>1. \A q \in Requests : pc'[q] = "sent" => pc[q] = "sent"
    BY <1>6
  <2> QED
    BY <1>1, <1>2, <1>6, <2>1, SprintsRest
<1> QED
  BY <1>7, <1>8, <1>9, <1>10, <1>11, <1>12, <1>13 DEF Inv, TypeInv

LEMMA IssuesToldStep == ASSUME Inv, NEW r \in Requests, IssuesTold(r) PROVE Inv'
<1>1. /\ TypeOK /\ WorkingOf(r) /\ RowsInv /\ PagesInv
      /\ TypeInv /\ AnswersInv /\ ListInv /\ TwiceInv /\ AskedInv
  BY DEF Inv, TypeInv, Working
<1>2. PICK p : p = job[r].page
  OBVIOUS
<1>3. /\ pc[r] = "fetched" /\ Over(r) /\ Told(r, Issues)
      /\ list' = [list EXCEPT ![p] = {e \in list[p] : e.id \in Sprints} \cup back[r]]
      /\ UNCHANGED <<issue, sprint, open, toRead, loading, reply, crossed>>
  BY <1>2 DEF IssuesTold, tables, loadVars
<1>4. /\ job[r].kind = "complete" /\ p \in SprintPages /\ p \in open /\ p \in Pages /\ ~loading[p]
  BY <1>1, <1>2, <1>3, Apart DEF WorkingOf, InFlight
<1>5. Issues \in SUBSET Items
  BY Apart
<1>6. /\ stale' \in [Pages -> SUBSET Items] /\ since' \in [Pages \cup Requests -> SUBSET Items]
      /\ \A q \in Pages : q # p => stale'[q] = stale[q]
      /\ \A x \in Pages \cup Requests : x # r => since'[x] = since[x]
      /\ \A x \in Items : x \notin Issues => (x \in stale'[p] <=> x \in stale[p])
      /\ \A x \in Issues : x \notin stale'[p] => x \notin since[r]
  BY <1>1, <1>2, <1>3, <1>4, <1>5, ToldSets
<1>7. /\ list' \in [Pages -> SUBSET Entry]
      /\ list'[p] = {e \in list[p] : e.id \in Sprints} \cup back[r]
      /\ \A q \in Pages : q # p => list'[q] = list[q]
  <2>1. back[r] \subseteq Entry /\ list[p] \subseteq Entry
    BY <1>1, <1>4 DEF TypeOK
  <2>2. PICK M : M = {e \in list[p] : e.id \in Sprints} \cup back[r]
    OBVIOUS
  <2>3. M \in SUBSET Entry /\ list' = [list EXCEPT ![p] = M]
    BY <1>3, <2>1, <2>2
  <2> QED
    BY <1>1, <1>4, <2>2, <2>3 DEF TypeOK
<1>8. \A e \in back[r] : e.id \in Issues /\ Exists(e.id)
  BY <1>1 DEF RowsInv
<1>9. /\ pc' \in [Requests -> {"idle", "sent", "closing", "answered", "fetching", "fetched", "over"}]
      /\ job' \in [Requests -> Job] /\ got' \in [Requests -> SprintStatuses \cup Statuses \cup {None}]
      /\ back' \in [Requests -> SUBSET Entry] /\ swept' \in [Requests -> SUBSET Issues]
      /\ pc'[r] = "over" /\ job'[r] = NoJob /\ back'[r] = {} /\ swept'[r] = {}
      /\ \A q \in Requests : q # r =>
             pc'[q] = pc[q] /\ job'[q] = job[q] /\ got'[q] = got[q] /\ back'[q] = back[q] /\ swept'[q] = swept[q]
      /\ ~InFlight(r)' /\ \A q \in Requests : InFlight(q)' => InFlight(q) /\ q # r
      /\ WorkingOf(r)' /\ OneSubmission'
  BY <1>1, <1>3, OverAt
<1>10. TypeOK'
  BY <1>1, <1>3, <1>6, <1>7, <1>9 DEF TypeOK
<1>11. Working'
  <2>1. \A q \in Pages : \A e \in list[q] :
            e.id \in Sprints \/ q \in Backlogs => \E f \in list'[q] : f.id = e.id
    BY <1>4, <1>7, Apart
  <2> QED
    BY <1>1, <1>3, <1>9, <2>1, OthersWork
<1>12. PagesInv'
  BY <1>1, <1>3, <1>4, <1>7 DEF PagesInv
<1>13. RowsInv'
  <2>1. \A q \in Pages : \A e \in list'[q] : Exists(e.id)
    BY <1>1, <1>7, <1>8 DEF RowsInv
  <2>2. \A q \in Requests : back'[q] \subseteq back[q] /\ swept'[q] \subseteq swept[q] /\ job'[q].item \in {job[q].item, None}
    BY <1>9, NoJobFields
  <2> QED
    BY <1>1, <1>3, <2>1, <2>2, RowsShown
<1>14. AnswersInv'
  <2>1. \A q \in Pages : since'[q] = since[q]
    BY <1>6, Apart
  <2>2. \A q \in Requests : pc'[q] \in {"answered", "fetched"} => q # r
    BY <1>9
  <2>3. \A q \in Pages : loading[q] => \A x : OnItsWay(q, x) => OnItsWay(q, x)'
    BY <1>3, <1>4, <1>7, <1>9, WayRests
  <2> QED
    BY <1>1, <1>3, <1>6, <1>9, <2>1, <2>2, <2>3, AnswersRest
<1>15. ListInv'
  <2> SUFFICES ASSUME NEW q \in open, NEW x \in Items, Believed(q, x)' PROVE RightAbout(q, x)'
    BY <1>3 DEF ListInv
  <2>1. q \in Pages
    BY <1>1, OpenPages
  <2>2. CASE q # p \/ x \notin Issues
    <3>1. RightAbout(q, x)
      BY <1>1, <1>3, <1>6, <2>1, <2>2 DEF ListInv, Believed
    <3>2. ~Regards(r, q, x) /\ ~Regards(r, q, x)'
      BY <1>2, <1>3, <1>9, <2>2 DEF Regards
    <3>3. \A e \in list[q] \cup list'[q] : e.id = x => (e \in list'[q] <=> e \in list[q])
      BY <1>7, <1>8, <2>1, <2>2, Apart
    <3> QED
      BY <1>3, <1>9, <3>1, <3>2, <3>3, RightRests
  <2>3. CASE q = p /\ x \in Issues
    <3>1. Exact(back[r], x)
      BY <1>1, <1>3, <1>6, <2>3 DEF AnswersInv, Believed
    <3>2. \A e : e.id = x => (e \in list'[p] <=> e \in back[r])
      BY <1>7, <2>3, Apart
    <3>3. \A c \in Requests, k \in {"status", "assign"} : ~Patching(c, p, x, k)'
      <4>1. \A c \in Requests : job[c].kind \in {"status", "assign"} => job[c].page # p
        BY <1>1, <1>4, Apart DEF TypeInv, Working, WorkingOf
      <4> QED
        BY <1>9, <4>1, NoJobFields DEF Patching
    <3>4. \A e \in list'[p] : e.id = x => e.status = issue'[x].status /\ e.sprint = issue'[x].sprint
      BY <1>3, <2>3, <3>1, <3>2 DEF Exact, True, Holds
    <3>5. \A e \in list'[p] : e.id = x => AsAsked(p, e)'
      BY <2>3, <3>3, <3>4 DEF AsAsked
    <3>6. Exists(x)' => \E e \in list'[p] : e.id = x
      BY <1>3, <3>1, <3>2 DEF Exact, Has, Exists
    <3> QED
      BY <2>3, <3>5, <3>6 DEF RightAbout, OnItsWay, Has
  <2> QED
    BY <2>2, <2>3
<1>16. TwiceInv' /\ AskedInv'
  <2>1. \A q \in Pages : \A s \in Sprints : s \in stale[q] => s \in stale'[q]
    BY <1>6, Apart
  <2>2. \A q \in Requests : pc'[q] = "sent" => pc[q] = "sent"
    BY <1>9
  <2> QED
    BY <1>1, <1>3, <1>9, <2>1, <2>2, SprintsRest
<1> QED
  BY <1>10, <1>11, <1>12, <1>13, <1>14, <1>15, <1>16 DEF Inv, TypeInv

LEMMA SprintToldStep == ASSUME Inv, NEW r \in Requests, SprintTold(r) PROVE Inv'
<1>1. /\ TypeOK /\ WorkingOf(r) /\ RowsInv /\ PagesInv
      /\ TypeInv /\ AnswersInv /\ ListInv /\ TwiceInv /\ AskedInv
  BY DEF Inv, TypeInv, Working
<1>2. pc[r] = "answered" /\ job[r].kind \in {"start", "complete"}
  BY DEF SprintTold
<1>3. PICK p \in SprintPages, s \in Sprints, st \in SprintStatuses :
          p = job[r].page /\ s = job[r].item /\ st = got[r]
  BY <1>1, <1>2 DEF WorkingOf
<1>4. p \in Pages /\ p \notin Backlogs /\ p \in open /\ s \in Items /\ s \notin Issues /\ \E e \in list[p] : e.id = s
  BY <1>1, <1>2, <1>3, Apart DEF WorkingOf, InFlight
<1>5. PICK M : M = WithStatus(list[p], s, st)
  OBVIOUS
<1>6. /\ M \in SUBSET Entry
      /\ \A f \in M : \E e \in list[p] : f.id = e.id /\ IF e.id = s THEN f.status = st ELSE f = e
      /\ \A e \in list[p] : \E f \in M : f.id = e.id /\ (e.id # s => f = e)
  <2>1. list[p] \in SUBSET Entry
    BY <1>1, <1>4 DEF TypeOK
  <2> QED
    BY <1>5, <2>1, StatusSet
<1>7. /\ list' = [list EXCEPT ![p] = M] /\ Told(r, {s})
      /\ UNCHANGED <<issue, sprint, open, toRead, loading, reply, crossed>>
  <2>1. list' = [list EXCEPT ![p] = WithStatus(list[p], s, st)]
    BY <1>3 DEF SprintTold, Replaced
  <2> QED
    BY <1>3, <1>5, <2>1 DEF SprintTold, tables, loadVars
<1>8. /\ list' \in [Pages -> SUBSET Entry] /\ list'[p] = M
      /\ \A q \in Pages : q # p => list'[q] = list[q]
  BY <1>1, <1>4, <1>6, <1>7 DEF TypeOK
<1>9. /\ stale' \in [Pages -> SUBSET Items] /\ since' \in [Pages \cup Requests -> SUBSET Items]
      /\ \A q \in Pages : q # p => stale'[q] = stale[q]
      /\ \A x \in Pages \cup Requests : x # r => since'[x] = since[x]
      /\ \A x \in Items : x # s => (x \in stale'[p] <=> x \in stale[p])
      /\ s \notin stale'[p] =>
             /\ s \notin since[r]
             /\ \A q \in Requests : q # r /\ InFlight(q) /\ job[q].page = p => job[q].item # s
  <2>1. PICK items \in SUBSET Items : items = {s}
    BY <1>4
  <2>2. Told(r, items) /\ p = job[r].page
    BY <1>3, <1>7, <2>1
  <2>3. TypeOK /\ p \in Pages
    BY <1>1, <1>4
  <2>4. /\ stale' \in [Pages -> SUBSET Items] /\ since' \in [Pages \cup Requests -> SUBSET Items]
        /\ \A q \in Pages : q # p => stale'[q] = stale[q]
        /\ \A x \in Pages \cup Requests : x # r => since'[x] = since[x]
    <3>1. stale' \in [Pages -> SUBSET Items] /\ since' \in [Pages \cup Requests -> SUBSET Items]
      BY <2>1, <2>2, <2>3, ToldSets
    <3>2. \A q \in Pages : q # p => stale'[q] = stale[q]
      BY <2>1, <2>2, <2>3, ToldSets
    <3>3. \A x \in Pages \cup Requests : x # r => since'[x] = since[x]
      BY <2>1, <2>2, <2>3, ToldSets
    <3> QED
      BY <3>1, <3>2, <3>3
  <2>5. \A x \in Items : x \notin items => (x \in stale'[p] <=> x \in stale[p])
    BY <2>1, <2>2, <2>3, ToldSets
  <2>6. /\ s \notin stale'[p] => s \notin since[r]
        /\ \A q \in Requests :
               s \notin stale'[p] /\ q # r /\ InFlight(q) /\ job[q].page = p => job[q].item # s
    BY <2>1, <2>2, <2>3, ToldSets
  <2> QED
    BY <2>1, <2>4, <2>5, <2>6
<1>10. /\ pc' \in [Requests -> {"idle", "sent", "closing", "answered", "fetching", "fetched", "over"}]
       /\ job' \in [Requests -> Job] /\ got' \in [Requests -> SprintStatuses \cup Statuses \cup {None}]
       /\ back' \in [Requests -> SUBSET Entry] /\ swept' \in [Requests -> SUBSET Issues] /\ OneSubmission' /\ WorkingOf(r)'
       /\ \A q \in Requests : /\ back'[q] \subseteq back[q] /\ swept'[q] \subseteq swept[q]
                               /\ job'[q].item \in {job[q].item, None}
       /\ \A q \in Requests : q # r =>
              pc'[q] = pc[q] /\ job'[q] = job[q] /\ got'[q] = got[q] /\ back'[q] = back[q] /\ swept'[q] = swept[q]
       /\ pc'[r] \in {"over", "fetching"} /\ (pc'[r] = "over" => job[r].kind = "start")
       /\ pc'[r] = "fetching" => job[r].kind = "complete" /\ job'[r] = job[r]
       /\ pc'[r] = "over" => ~InFlight(r)'
  <2>1. CASE job[r].kind = "start" /\ Over(r)
    <3>1. /\ pc' \in [Requests -> {"idle", "sent", "closing", "answered", "fetching", "fetched", "over"}]
          /\ job' \in [Requests -> Job] /\ got' \in [Requests -> SprintStatuses \cup Statuses \cup {None}]
          /\ back' \in [Requests -> SUBSET Entry] /\ swept' \in [Requests -> SUBSET Issues]
          /\ pc'[r] = "over" /\ job'[r] = NoJob /\ back'[r] = {} /\ swept'[r] = {}
          /\ \A q \in Requests : q # r =>
                 pc'[q] = pc[q] /\ job'[q] = job[q] /\ got'[q] = got[q] /\ back'[q] = back[q] /\ swept'[q] = swept[q]
          /\ ~InFlight(r)' /\ \A q \in Requests : InFlight(q)' => InFlight(q) /\ q # r
          /\ WorkingOf(r)' /\ OneSubmission'
      BY <1>1, <2>1, OverAt
    <3>2. \A q \in Requests : /\ back'[q] \subseteq back[q] /\ swept'[q] \subseteq swept[q]
                              /\ job'[q].item \in {job[q].item, None}
      BY <3>1, NoJobFields
    <3> QED
      BY <2>1, <3>1, <3>2
  <2>2. CASE job[r].kind = "complete" /\ Goto(r, "fetching") /\ UNCHANGED <<job, got, back, swept>>
    <3>1. /\ pc' \in [Requests -> {"idle", "sent", "closing", "answered", "fetching", "fetched", "over"}]
          /\ pc'[r] = "fetching" /\ \A q \in Requests : q # r => pc'[q] = pc[q]
      BY <1>1, <2>2 DEF TypeOK, Goto
    <3>2. \A q \in Requests : InFlight(q)' <=> InFlight(q)
      BY <1>2, <3>1 DEF InFlight
    <3>3. OneSubmission'
      BY <1>1, <2>2, <3>2 DEF TypeOK, OneSubmission
    <3>4. \E f \in list'[p] : f.id = s
      BY <1>4, <1>6, <1>8
    <3>5. WorkingOf(r)'
      BY <1>1, <1>2, <1>3, <1>4, <1>7, <2>2, <3>1, <3>4 DEF WorkingOf, InFlight
    <3> QED
      BY <1>1, <2>2, <3>1, <3>3, <3>5 DEF TypeOK
  <2> QED
    BY <2>1, <2>2 DEF SprintTold
<1>11. TypeOK'
  BY <1>1, <1>7, <1>8, <1>9, <1>10 DEF TypeOK
<1>12. Working'
  <2>1. \A q \in Pages : \A e \in list[q] : \E f \in list'[q] : f.id = e.id
    BY <1>6, <1>8
  <2> QED
    BY <1>1, <1>7, <1>10, <2>1, OthersWork
<1>13. PagesInv'
  BY <1>1, <1>4, <1>7, <1>8 DEF PagesInv
<1>14. RowsInv'
  <2>1. \A q \in Pages : \A f \in list'[q] : \E e \in list[q] : f.id = e.id
    BY <1>6, <1>8
  <2>2. \A q \in Pages : \A e \in list'[q] : Exists(e.id)
    BY <1>1, <2>1 DEF RowsInv
  <2> QED
    BY <1>1, <1>7, <1>10, <2>2, RowsShown
<1>15. AnswersInv'
  <2>1. \A q \in Pages : since'[q] = since[q]
    BY <1>9, Apart
  <2>2. \A q \in Requests : pc'[q] \in {"answered", "fetched"} => q # r
    BY <1>10
  <2>3. \A q \in Pages : \A x : OnItsWay(q, x) => OnItsWay(q, x)'
    <3>1. \A q \in Pages : \A e \in list[q] : \E f \in list'[q] : f.id = e.id
      BY <1>6, <1>8
    <3> QED
      BY <1>2, <1>10, <3>1, WayRests
  <2> QED
    BY <1>1, <1>7, <1>9, <1>10, <2>1, <2>2, <2>3, AnswersRest
<1>16. ListInv'
  <2> SUFFICES ASSUME NEW q \in open, NEW z \in Items, Believed(q, z)' PROVE RightAbout(q, z)'
    BY <1>7 DEF ListInv
  <2>1. q \in Pages
    BY <1>1, OpenPages
  <2>2. CASE q = p /\ z \in Issues /\ job[r].kind = "complete"
    <3>1. Coming(p, z)'
      BY <1>3, <1>10, <2>2 DEF Coming
    <3> QED
      BY <2>2, <3>1 DEF RightAbout
  <2>3. CASE q = p /\ z = s
    <3>1. sprint[s] = st
      BY <1>1, <1>2, <1>3, <1>4, <1>9, <2>3 DEF AnswersInv, Believed
    <3>2. \A f \in list'[p] : f.id = s => f.status = st
      BY <1>6, <1>8
    <3>3. \A f \in list'[p] : f.id = s => AsAsked(p, f)'
      BY <1>4, <1>7, <3>1, <3>2 DEF AsAsked
    <3>4. \E f \in list'[p] : f.id = s
      BY <1>4, <1>6, <1>8
    <3> QED
      BY <2>3, <3>3, <3>4 DEF RightAbout, OnItsWay, Has
  <2>4. CASE q # p \/ (z # s /\ ~(z \in Issues /\ job[r].kind = "complete"))
    <3>1. RightAbout(q, z)
      BY <1>1, <1>7, <1>9, <2>1, <2>4 DEF ListInv, Believed
    <3>2. ~Regards(r, q, z)
      BY <1>2, <1>3, <2>4 DEF Regards
    <3>3. ~Regards(r, q, z)'
      BY <1>2, <1>3, <1>10, <2>4 DEF Regards
    <3>4. \A e \in list[q] \cup list'[q] : e.id = z => (e \in list'[q] <=> e \in list[q])
      BY <1>6, <1>8, <2>1, <2>4
    <3> QED
      BY <1>7, <1>10, <3>1, <3>2, <3>3, <3>4, RightRests
  <2> QED
    BY <2>2, <2>3, <2>4
<1>17. TwiceInv'
  <2> SUFFICES ASSUME NEW q1 \in Requests, NEW q2 \in Requests, q1 # q2, InFlight(q1)', InFlight(q2)',
                      job'[q1].page = job'[q2].page, job'[q1].item = job'[q2].item,
                      job'[q1].item \in Sprints
               PROVE  job'[q1].item \in stale'[job'[q1].page]
    BY DEF TwiceInv
  <2>1. \A q \in Requests : InFlight(q)' => InFlight(q) /\ job'[q] = job[q]
    BY <1>2, <1>10 DEF InFlight
  <2>2. /\ InFlight(q1) /\ InFlight(q2) /\ job'[q1] = job[q1] /\ job'[q2] = job[q2]
        /\ job[q1].page \in Pages /\ job[q1].item \in Items
    BY <1>1, <2>1, PageOf, Apart
  <2>3. job[q1].item \in stale[job[q1].page]
    BY <1>1, <2>2 DEF TwiceInv
  <2>4. CASE job[q1].page = p /\ job[q1].item = s
    BY <1>9, <2>2, <2>4
  <2>5. CASE ~(job[q1].page = p /\ job[q1].item = s)
    BY <1>9, <2>2, <2>3, <2>5
  <2> QED
    BY <2>4, <2>5
<1>18. AskedInv'
  <2> SUFFICES ASSUME NEW q \in Requests, pc'[q] = "sent", NEW z,
                      \/ job'[q].kind = "assign" /\ z = job'[q].to
                      \/ job'[q].kind = "start" /\ z = job'[q].item
               PROVE  z \in stale'[job'[q].page] \/ sprint[z] # "completed"
    BY <1>7 DEF AskedInv
  <2>1. /\ q # r /\ pc[q] = "sent" /\ job'[q] = job[q] /\ WorkingOf(q) /\ InFlight(q)
        /\ job[q].page \in Pages
    BY <1>1, <1>10, PageOf DEF TypeInv, Working, InFlight
  <2>2. /\ z \in Sprints /\ z \in Items /\ (z \in stale[job[q].page] \/ sprint[z] # "completed")
        /\ job[q].page = p => z = job[q].item
    <3>1. CASE job[q].kind = "assign" /\ z = job[q].to
      BY <1>1, <1>4, <2>1, <3>1, Apart DEF WorkingOf, AskedInv
    <3>2. CASE job[q].kind = "start" /\ z = job[q].item
      BY <1>1, <2>1, <3>2, Apart DEF WorkingOf, AskedInv
    <3> QED
      BY <2>1, <3>1, <3>2
  <2>3. z \in stale[job[q].page] => z \in stale'[job[q].page]
    BY <1>9, <2>1, <2>2
  <2> QED
    BY <2>1, <2>2, <2>3
<1> QED
  BY <1>11, <1>12, <1>13, <1>14, <1>15, <1>16, <1>17, <1>18 DEF Inv, TypeInv

-------------------------------------------------------------------------------
(***************************************************************************)
(* The theorems                                                            *)
(***************************************************************************)

LEMMA PageKeepsInv == ASSUME Inv, NEW p \in Pages, PageStep(p) PROVE Inv'
BY ReadStep, LoadStep, LoadFailsStep DEF PageStep

LEMMA ClickKeepsInv == ASSUME Inv, NEW r \in Requests, NEW p \in Pages, Click(r, p) PROVE Inv'
<1>1. CASE Submit(r, p)
  BY <1>1, SubmitStep
<1>2. ASSUME NEW e \in list[p], Start(r, p, e) PROVE Inv'
  <2>1. PICK kind \in {"start", "complete"} : kind = "start"
    OBVIOUS
  <2>2. AskSprint(r, p, kind, e) /\ (kind = "start" => e.status = "planned")
    BY <1>2, <2>1 DEF Start, Startable
  <2> QED
    BY <2>2, AskSprintStep
<1>3. ASSUME NEW e \in list[p], Complete(r, p, e) PROVE Inv'
  <2>1. PICK kind \in {"start", "complete"} : kind = "complete"
    OBVIOUS
  <2>2. AskSprint(r, p, kind, e) /\ (kind = "start" => e.status = "planned")
    BY <1>3, <2>1 DEF Complete
  <2> QED
    BY <2>2, AskSprintStep
<1>4. ASSUME NEW i \in Issues, NEW to \in Statuses, ChangeStatus(r, p, i, to) PROVE Inv'
  BY <1>4, ChangeStatusStep
<1>5. ASSUME NEW i \in Issues, NEW s \in Sprints, AssignSprint(r, p, i, s) PROVE Inv'
  BY <1>5, AssignSprintStep
<1> QED
  BY <1>1, <1>2, <1>3, <1>4, <1>5 DEF Click

LEMMA HandlerKeepsInv == ASSUME Inv, NEW r \in Requests, Handler(r) PROVE Inv'
BY InsertIssueStep, InsertSprintStep, StartSprintStep, SweepStep, CloseStep,
   UpdateIssueStep, FailStep DEF Handler

LEMMA AnswerKeepsInv == ASSUME Inv, NEW r \in Requests, Answer(r) PROVE Inv'
BY CreatedStep, SprintToldStep, FetchAgainStep, IssuesToldStep, LostStep DEF Answer

LEMMA InvStep == Inv /\ [Next]_vars => Inv'
<1> SUFFICES ASSUME Inv, [Next]_vars PROVE Inv'
  OBVIOUS
<1>1. CASE UNCHANGED vars
  <2> USE <1>1 DEF vars, tables, loadVars, requestVars
  <2>1. TypeInv'
    <3>1. TypeOK'
      BY DEF Inv, TypeInv, TypeOK, OneSubmission, InFlight
    <3>2. Working'
      BY DEF Inv, TypeInv, Working, WorkingOf, InFlight
    <3>3. PagesInv' /\ RowsInv'
      BY DEF Inv, TypeInv, PagesInv, RowsInv, Exists
    <3> QED
      BY <3>1, <3>2, <3>3 DEF TypeInv
  <2>2. AnswersInv'
    BY DEF Inv, AnswersInv, Exact, Has, True, OnItsWay, NotYet, Exists, Holds
  <2>3. ListInv'
    BY DEF Inv, ListInv, Believed, RightAbout, Coming, OnItsWay, NotYet, Has, AsAsked, Patching, Exists
  <2>4. TwiceInv' /\ AskedInv'
    BY DEF Inv, TwiceInv, AskedInv, InFlight
  <2> QED
    BY <2>1, <2>2, <2>3, <2>4 DEF Inv
<1>2. ASSUME NEW p \in Pages, PageStep(p) PROVE Inv'
  BY <1>2, PageKeepsInv
<1>3. ASSUME NEW r \in Requests, NEW p \in Pages, Click(r, p) PROVE Inv'
  BY <1>3, ClickKeepsInv
<1>4. ASSUME NEW r \in Requests, Handler(r) PROVE Inv'
  BY <1>4, HandlerKeepsInv
<1>5. ASSUME NEW r \in Requests, Answer(r) PROVE Inv'
  BY <1>5, AnswerKeepsInv
<1>6. ASSUME NEW i \in Issues, NEW to \in Statuses, Drag(i, to) PROVE Inv'
  BY <1>6, DragStep
<1> QED
  BY <1>1, <1>2, <1>3, <1>4, <1>5, <1>6 DEF Next

LEMMA InvAlways == Spec => []Inv
  BY InvInit, InvStep, PTL DEF Spec

-------------------------------------------------------------------------------
(***************************************************************************)
(* What is listed twice                                                    *)
(***************************************************************************)

\* Lists come from the API without doubles.  A page lists an item twice, or one
\* of which it is still to be told that it was created, only where its load and
\* the answer have crossed.
OnceInv ==
    /\ \A p \in Pages : \A e \in reply[p] : e.double = FALSE
    /\ \A r \in Requests : \A e \in back[r] : e.double = FALSE
    /\ \A p \in Pages : \A x \in Items \ crossed[p] :
           /\ \A e \in list[p] : e.id = x => e.double = FALSE
           /\ NotYet(p, x) => ~Has(list[p], x)

\* The lists have the entries they had, and no creation is answered.
LEMMA OnceRests ==
    ASSUME OnceInv, UNCHANGED crossed,
           \A p \in Pages : reply'[p] \subseteq reply[p],
           \A r \in Requests : back'[r] \subseteq back[r],
           \A p \in Pages : \A f \in list'[p] : \E e \in list[p] : f.id = e.id /\ f.double = e.double,
           \A r \in Requests : pc'[r] = "answered" /\ job'[r].kind = "create" =>
               pc[r] = "answered" /\ job'[r] = job[r]
    PROVE  OnceInv'
<1>1. ASSUME NEW p \in Pages, NEW x \in Items \ crossed[p]
      PROVE  /\ \A e \in list'[p] : e.id = x => e.double = FALSE
             /\ NotYet(p, x)' => ~Has(list[p], x)'
  <2>1. \A e \in list[p] : e.id = x => e.double = FALSE
    BY DEF OnceInv
  <2>2. NotYet(p, x)' => NotYet(p, x)
    BY DEF NotYet
  <2>3. Has(list[p], x)' => Has(list[p], x)
    BY DEF Has
  <2>4. NotYet(p, x) => ~Has(list[p], x)
    BY DEF OnceInv
  <2> QED
    BY <2>1, <2>2, <2>3, <2>4
<1>2. /\ \A p \in Pages : \A e \in reply'[p] : e.double = FALSE
      /\ \A r \in Requests : \A e \in back'[r] : e.double = FALSE
  BY DEF OnceInv
<1> QED
  BY <1>1, <1>2 DEF OnceInv

LEMMA OnceRead ==
    ASSUME Inv, OnceInv, NEW p \in Pages, NEW t \in {"issues", "sprints"}, Read(p, t)
    PROVE  OnceInv'
<1>1. TypeOK
  BY DEF Inv, TypeInv
<1>2. /\ reply' = [reply EXCEPT ![p] = @ \cup ListOf(t)]
      /\ UNCHANGED <<list, pc, job, back, crossed>>
  BY DEF Read, requestVars
<1>3. \A e \in ListOf(t) : e.double = FALSE
  BY <1>1, ListIsTable
<1>4. \A q \in Pages : \A e \in reply'[q] : e.double = FALSE
  BY <1>1, <1>2, <1>3 DEF OnceInv, TypeOK
<1> QED
  BY <1>2, <1>4 DEF OnceInv, NotYet, Has

\* An item that is read and whose answer is still to come is noted as crossed.
LEMMA OnceLoad == ASSUME Inv, OnceInv, NEW p \in Pages, Load(p) PROVE OnceInv'
<1>1. TypeOK
  BY DEF Inv, TypeInv
<1>2. PICK lapse : lapse = (Ids(list[p]) \ Ids(reply[p])) \cup (Awaited(p) \cap Ids(reply[p]))
  OBVIOUS
<1>3. /\ list' = [list EXCEPT ![p] = reply[p]] /\ reply' = [reply EXCEPT ![p] = {}]
      /\ crossed' = [crossed EXCEPT ![p] = lapse]
      /\ UNCHANGED <<pc, job, back>>
  BY <1>2 DEF Load, requestVars
<1>4. /\ list'[p] = reply[p] /\ reply'[p] = {} /\ crossed'[p] = lapse
      /\ \A q \in Pages : q # p =>
             list'[q] = list[q] /\ reply'[q] = reply[q] /\ crossed'[q] = crossed[q]
  BY <1>1, <1>3 DEF TypeOK
<1>5. ASSUME NEW q \in Pages, NEW x \in Items \ crossed'[q]
      PROVE  /\ \A e \in list'[q] : e.id = x => e.double = FALSE
             /\ NotYet(q, x)' => ~Has(list[q], x)'
  <2>1. CASE q = p
    <3>1. NotYet(p, x) => x \in Awaited(p)
      BY DEF NotYet, Awaited
    <3>2. Has(reply[p], x) => x \in Ids(reply[p])
      BY DEF Has, Ids
    <3>3. NotYet(p, x) => ~Has(reply[p], x)
      BY <1>2, <1>4, <2>1, <3>1, <3>2
    <3> QED
      BY <1>3, <1>4, <2>1, <3>3 DEF OnceInv, NotYet, Has
  <2>2. CASE q # p
    BY <1>3, <1>4, <2>2 DEF OnceInv, NotYet, Has
  <2> QED
    BY <2>1, <2>2
<1>6. /\ \A q \in Pages : \A e \in reply'[q] : e.double = FALSE
      /\ \A r \in Requests : \A e \in back'[r] : e.double = FALSE
  BY <1>3, <1>4 DEF OnceInv
<1> QED
  BY <1>5, <1>6 DEF OnceInv

LEMMA OnceLoadFails == ASSUME Inv, OnceInv, NEW p \in Pages, LoadFails(p) PROVE OnceInv'
<1>1. reply' = [reply EXCEPT ![p] = {}] /\ UNCHANGED <<list, pc, job, back, crossed>>
  BY DEF LoadFails, requestVars
<1>2. \A q \in Pages : reply'[q] \subseteq reply[q]
  BY <1>1 DEF Inv, TypeInv, TypeOK
<1> QED
  BY <1>1, <1>2, OnceRests

LEMMA OnceClick ==
    ASSUME Inv, OnceInv, NEW r \in Requests, NEW p \in Pages, Click(r, p) PROVE OnceInv'
<1>1. TypeOK
  BY DEF Inv, TypeInv
<1>2. list[p] \in SUBSET Entry
  BY <1>1 DEF TypeOK
<1>3. ASSUME NEW kind, NEW item, NEW to, Send(r, kind, p, item, to), NEW M, list' = [list EXCEPT ![p] = M],
             \A f \in M : \E e \in list[p] : f.id = e.id /\ f.double = e.double
      PROVE  OnceInv'
  <2>1. pc' = [pc EXCEPT ![r] = "sent"] /\ UNCHANGED <<reply, back, crossed>>
    BY <1>3 DEF Send, Goto, loadVars
  <2>2. \A q \in Requests : q # r => pc'[q] = pc[q] /\ job'[q] = job[q]
    BY <1>1, <1>3 DEF Send, Goto, TypeOK
  <2>3. \A q \in Requests : pc'[q] = "answered" => q # r
    BY <1>1, <2>1 DEF TypeOK
  <2>4. \A q \in Pages : \A f \in list'[q] : \E e \in list[q] : f.id = e.id /\ f.double = e.double
    BY <1>1, <1>3 DEF TypeOK
  <2> QED
    BY <2>1, <2>2, <2>3, <2>4, OnceRests
<1>4. list' = list => list' = [list EXCEPT ![p] = list[p]]
  BY <1>1 DEF TypeOK
<1>5. CASE Submit(r, p)
  <2>1. Send(r, "create", p, None, None) /\ list' = list
    BY <1>5 DEF Submit
  <2> QED
    BY <1>3, <1>4, <2>1
<1>6. ASSUME NEW e \in list[p], Start(r, p, e) \/ Complete(r, p, e) PROVE OnceInv'
  <2>1. PICK kind : Send(r, kind, p, e.id, None) /\ list' = list
    BY <1>6 DEF Start, Complete, AskSprint
  <2> QED
    BY <1>3, <1>4, <2>1
<1>7. ASSUME NEW i \in Issues, NEW to \in Statuses, ChangeStatus(r, p, i, to) PROVE OnceInv'
  <2>1. PICK M : M = WithStatus(list[p], i, to)
    OBVIOUS
  <2>2. Send(r, "status", p, i, to) /\ list' = [list EXCEPT ![p] = M]
    BY <1>7, <2>1 DEF ChangeStatus, Patch
  <2>3. \A f \in M : \E e \in list[p] : f.id = e.id /\ f.double = e.double
    BY <1>2, <2>1, StatusSet
  <2> QED
    BY <1>3, <2>2, <2>3
<1>8. ASSUME NEW i \in Issues, NEW s \in Sprints, AssignSprint(r, p, i, s) PROVE OnceInv'
  <2>1. PICK M : M = WithSprint(list[p], i, s)
    OBVIOUS
  <2>2. Send(r, "assign", p, i, s) /\ list' = [list EXCEPT ![p] = M]
    BY <1>8, <2>1 DEF AssignSprint, Patch
  <2>3. \A f \in M : \E e \in list[p] : f.id = e.id /\ f.double = e.double
    BY <1>2, <2>1, SprintSet
  <2> QED
    BY <1>3, <2>2, <2>3
<1> QED
  BY <1>5, <1>6, <1>7, <1>8 DEF Click

\* What is inserted is new: no page lists it.
LEMMA OnceInsert ==
    ASSUME Inv, OnceInv, NEW r \in Requests, NEW y \in Items, ~Exists(y),
           UNCHANGED <<reply, list, back, crossed>>,
           \A q \in Requests : q # r => pc'[q] = pc[q] /\ job'[q] = job[q],
           job'[r].item = y
    PROVE  OnceInv'
<1>1. \A p \in Pages : ~Has(list[p], y)
  BY DEF Inv, TypeInv, RowsInv, Has
<1>2. \A p \in Pages, x \in Items : x # y /\ NotYet(p, x)' => NotYet(p, x)
  BY DEF NotYet
<1>3. ASSUME NEW p \in Pages, NEW x \in Items \ crossed[p], NotYet(p, x)' PROVE ~Has(list[p], x)
  BY <1>1, <1>2, <1>3 DEF OnceInv
<1> QED
  BY <1>3 DEF OnceInv, Has

LEMMA OnceHandler == ASSUME Inv, OnceInv, NEW r \in Requests, Handler(r) PROVE OnceInv'
<1>1. TypeOK /\ WorkingOf(r)
  BY DEF Inv, TypeInv, Working
<1>2. ASSUME NEW i \in Issues, InsertIssue(r, i) PROVE OnceInv'
  <2>1. /\ UNCHANGED <<reply, list, back, crossed>> /\ ~Exists(i) /\ i \in Items
        /\ \A q \in Requests : q # r => pc'[q] = pc[q] /\ job'[q] = job[q]
    BY <1>1, <1>2, Apart DEF InsertIssue, Answered, Goto, loadVars, Exists, TypeOK
  <2>2. job'[r].item = i
    BY <1>1, <1>2, <2>1, JobItem DEF InsertIssue, TypeOK
  <2> QED
    BY <2>1, <2>2, OnceInsert
<1>3. ASSUME NEW s \in Sprints, InsertSprint(r, s) PROVE OnceInv'
  <2>1. /\ UNCHANGED <<reply, list, back, crossed>> /\ ~Exists(s) /\ s \in Items
        /\ \A q \in Requests : q # r => pc'[q] = pc[q] /\ job'[q] = job[q]
    BY <1>1, <1>3, Apart DEF InsertSprint, Answered, Goto, loadVars, Exists, TypeOK
  <2>2. job'[r].item = s
    BY <1>1, <1>3, <2>1, JobItem DEF InsertSprint, TypeOK
  <2> QED
    BY <2>1, <2>2, OnceInsert
<1>4. CASE StartSprint(r) \/ Sweep(r) \/ Close(r)
  <2>1. /\ UNCHANGED <<reply, list, back, crossed, job>> /\ job[r].kind # "create"
        /\ \A q \in Requests : q # r => pc'[q] = pc[q]
    BY <1>1, <1>4 DEF StartSprint, Sweep, Close, Answered, Goto, loadVars, TypeOK, WorkingOf
  <2> QED
    BY <2>1, OnceRests
<1>5. CASE UpdateIssue(r) \/ Fail(r)
  <2>1. Over(r) /\ UNCHANGED <<reply, list, crossed>>
    BY <1>5 DEF UpdateIssue, Fail, loadVars
  <2>2. /\ pc'[r] = "over" /\ back'[r] = {}
        /\ \A q \in Requests : q # r => pc'[q] = pc[q] /\ job'[q] = job[q] /\ back'[q] = back[q]
    BY <1>1, <2>1, OverAt
  <2> QED
    BY <2>1, <2>2, OnceRests
<1> QED
  BY <1>2, <1>3, <1>4, <1>5 DEF Handler

LEMMA OnceAnswer == ASSUME Inv, OnceInv, NEW r \in Requests, Answer(r) PROVE OnceInv'
<1>1. TypeOK /\ WorkingOf(r)
  BY DEF Inv, TypeInv, Working
\* No two creations of a page are out at a time.
<1>2. CASE Created(r)
  <2>1. PICK p \in Pages, x \in Items : p = job[r].page /\ x = job[r].item
    BY <1>1, <1>2, Apart DEF Created, WorkingOf
  <2>2. PICK d \in BOOLEAN : d = \E e \in list[p] : e.id = x
    OBVIOUS
  <2>3. PICK n : n = NewEntry(x, got[r], None, d)
    OBVIOUS
  <2>4. /\ pc[r] = "answered" /\ job[r].kind = "create" /\ Over(r)
        /\ list' = [list EXCEPT ![p] = @ \cup {n}] /\ UNCHANGED <<reply, crossed>>
    <3>1. list' = [list EXCEPT ![p] = list[p] \cup {n}]
      BY <1>2, <2>1, <2>2, <2>3 DEF Created
    <3> QED
      BY <1>1, <1>2, <3>1 DEF Created, loadVars, TypeOK
  <2>5. n.id = x /\ n.double = d
    BY <2>3 DEF NewEntry
  <2>6. /\ list'[p] = list[p] \cup {n} /\ \A q \in Pages : q # p => list'[q] = list[q]
    BY <1>1, <2>4 DEF TypeOK
  <2>7. /\ pc'[r] = "over" /\ back'[r] = {}
        /\ \A q \in Requests : q # r => pc'[q] = pc[q] /\ job'[q] = job[q] /\ back'[q] = back[q]
    BY <1>1, <2>4, OverAt
  <2>8. NotYet(p, x) /\ \A z : ~NotYet(p, z)'
    <3>1. NotYet(p, x)
      BY <2>1, <2>4 DEF NotYet
    <3>2. \A q \in Requests : q # r =>
              ~(pc[q] = "answered" /\ job[q].kind = "create" /\ job[q].page = p)
      BY <1>1, <2>1, <2>4 DEF TypeOK, OneSubmission, InFlight
    <3> QED
      BY <2>7, <3>1, <3>2 DEF NotYet
  <2>9. ASSUME NEW q \in Pages, NEW z \in Items \ crossed[q]
        PROVE  /\ \A e \in list'[q] : e.id = z => e.double = FALSE
               /\ NotYet(q, z)' => ~Has(list[q], z)'
    <3>1. CASE q = p
      <4>1. z = x => d = FALSE
        BY <2>2, <2>8, <3>1 DEF OnceInv, Has
      <4>2. \A e \in list[p] : e.id = z => e.double = FALSE
        BY <3>1 DEF OnceInv
      <4> QED
        BY <2>5, <2>6, <2>8, <3>1, <4>1, <4>2
    <3>2. CASE q # p
      <4>1. NotYet(q, z)' => NotYet(q, z)
        BY <2>7 DEF NotYet
      <4> QED
        BY <2>6, <3>2, <4>1 DEF OnceInv, Has
    <3> QED
      BY <3>1, <3>2
  <2>10. /\ \A q \in Pages : \A e \in reply'[q] : e.double = FALSE
         /\ \A q \in Requests : \A e \in back'[q] : e.double = FALSE
    BY <2>4, <2>7 DEF OnceInv
  <2> QED
    BY <2>4, <2>9, <2>10 DEF OnceInv
<1>3. CASE SprintTold(r)
  <2>1. PICK p \in Pages, s \in Sprints, st \in SprintStatuses :
            p = job[r].page /\ s = job[r].item /\ st = got[r]
    BY <1>1, <1>3, Apart DEF SprintTold, WorkingOf
  <2>2. PICK M : M = WithStatus(list[p], s, st)
    OBVIOUS
  <2>3. list' = [list EXCEPT ![p] = M] /\ UNCHANGED <<reply, crossed>>
    BY <1>3, <2>1, <2>2 DEF SprintTold, Replaced, loadVars
  <2>4. \A f \in M : \E e \in list[p] : f.id = e.id /\ f.double = e.double
    <3>1. list[p] \in SUBSET Entry
      BY <1>1 DEF TypeOK
    <3> QED
      BY <2>2, <3>1, StatusSet
  <2>5. \A q \in Pages : \A f \in list'[q] : \E e \in list[q] : f.id = e.id /\ f.double = e.double
    BY <1>1, <2>3, <2>4 DEF TypeOK
  <2>6. /\ pc'[r] \in {"over", "fetching"} /\ back'[r] \subseteq back[r]
        /\ \A q \in Requests : q # r => pc'[q] = pc[q] /\ job'[q] = job[q] /\ back'[q] = back[q]
    <3>1. CASE Over(r)
      BY <1>1, <3>1, OverAt
    <3>2. CASE Goto(r, "fetching") /\ UNCHANGED <<job, got, back, swept>>
      BY <1>1, <3>2 DEF Goto, TypeOK
    <3> QED
      BY <1>3, <3>1, <3>2 DEF SprintTold
  <2> QED
    BY <2>3, <2>5, <2>6, OnceRests
<1>4. CASE FetchAgain(r)
  <2>1. /\ pc' = [pc EXCEPT ![r] = "fetched"] /\ back' = [back EXCEPT ![r] = ListOf("issues")]
        /\ UNCHANGED <<reply, list, job, crossed>>
    BY <1>4 DEF FetchAgain, Goto, loadVars
  <2>2. \A e \in ListOf("issues") : e.double = FALSE
    BY <1>1, ListIsTable
  <2>3. \A q \in Requests : \A e \in back'[q] : e.double = FALSE
    BY <1>1, <2>1, <2>2 DEF OnceInv, TypeOK
  <2>4. \A q \in Requests : pc'[q] = "answered" => pc[q] = "answered"
    BY <1>1, <2>1 DEF TypeOK
  <2>5. \A p \in Pages : \A x : NotYet(p, x)' => NotYet(p, x)
    BY <2>1, <2>4 DEF NotYet
  <2> QED
    BY <2>1, <2>3, <2>5 DEF OnceInv, Has
<1>5. CASE IssuesTold(r)
  <2>1. PICK p \in Pages : p = job[r].page
    BY <1>1, <1>5, Apart DEF IssuesTold, WorkingOf
  <2>2. /\ pc[r] = "fetched" /\ Over(r) /\ job[r].kind = "complete" /\ p \in SprintPages
        /\ list' = [list EXCEPT ![p] = {e \in list[p] : e.id \in Sprints} \cup back[r]]
        /\ UNCHANGED <<reply, crossed>>
    BY <1>1, <1>5, <2>1 DEF IssuesTold, WorkingOf, loadVars
  <2>3. /\ pc'[r] = "over" /\ back'[r] = {}
        /\ \A q \in Requests : q # r => pc'[q] = pc[q] /\ job'[q] = job[q] /\ back'[q] = back[q]
    BY <1>1, <2>2, OverAt
  <2>4. /\ list'[p] = {e \in list[p] : e.id \in Sprints} \cup back[r]
        /\ \A q \in Pages : q # p => list'[q] = list[q]
    BY <1>1, <2>2 DEF TypeOK
  <2>5. \A e \in back[r] : e.id \in Issues /\ e.double = FALSE
    BY DEF OnceInv, Inv, TypeInv, RowsInv
  <2>6. \A x : NotYet(p, x) => x \notin Issues
    BY <1>1, <2>2, Apart DEF NotYet, Inv, TypeInv, Working, WorkingOf
  <2>7. \A q \in Pages : \A x : NotYet(q, x)' => NotYet(q, x)
    BY <2>3 DEF NotYet
  <2>8. ASSUME NEW q \in Pages, NEW z \in Items \ crossed[q]
        PROVE  /\ \A e \in list'[q] : e.id = z => e.double = FALSE
               /\ NotYet(q, z)' => ~Has(list[q], z)'
    <3>1. /\ \A e \in list[q] : e.id = z => e.double = FALSE
          /\ NotYet(q, z) => ~Has(list[q], z)
      BY DEF OnceInv
    <3>2. CASE q = p
      BY <2>4, <2>5, <2>6, <2>7, <3>1, <3>2 DEF Has
    <3>3. CASE q # p
      BY <2>4, <2>7, <3>1, <3>3 DEF Has
    <3> QED
      BY <3>2, <3>3
  <2>9. /\ \A q \in Pages : \A e \in reply'[q] : e.double = FALSE
        /\ \A q \in Requests : \A e \in back'[q] : e.double = FALSE
    BY <2>2, <2>3 DEF OnceInv
  <2> QED
    BY <2>2, <2>8, <2>9 DEF OnceInv
<1>6. CASE Lost(r)
  <2>1. Over(r) /\ UNCHANGED <<reply, list, crossed>>
    BY <1>6 DEF Lost, loadVars
  <2>2. /\ pc'[r] = "over" /\ back'[r] = {}
        /\ \A q \in Requests : q # r => pc'[q] = pc[q] /\ job'[q] = job[q] /\ back'[q] = back[q]
    BY <1>1, <2>1, OverAt
  <2> QED
    BY <2>1, <2>2, OnceRests
<1> QED
  BY <1>2, <1>3, <1>4, <1>5, <1>6 DEF Answer

LEMMA OnceAlways == Spec => []OnceInv
<1>1. Init => OnceInv
  BY DEF Init, OnceInv, NotYet
<1>2. Inv /\ OnceInv /\ [Next]_vars => OnceInv'
  <2> SUFFICES ASSUME Inv, OnceInv, [Next]_vars PROVE OnceInv'
    OBVIOUS
  <2>1. CASE UNCHANGED vars
    BY <2>1, OnceRests DEF vars, loadVars, requestVars
  <2>2. ASSUME NEW p \in Pages, PageStep(p) PROVE OnceInv'
    BY <2>2, OnceRead, OnceLoad, OnceLoadFails DEF PageStep
  <2>3. ASSUME NEW i \in Issues, NEW to \in Statuses, Drag(i, to) PROVE OnceInv'
    BY <2>3, OnceRests DEF Drag, loadVars, requestVars
  <2> QED
    BY <2>1, <2>2, <2>3, OnceClick, OnceHandler, OnceAnswer DEF Next
<1> QED
  BY <1>1, <1>2, InvAlways, PTL DEF Spec

\* The pages never hold a value of a wrong kind, and none of them submits a
\* form again whose answer is out.
THEOREM TypeCorrect == Spec => []TypeOK
<1>1. Inv => TypeOK
  BY DEF Inv, TypeInv
<1> QED
  BY <1>1, InvAlways, PTL

\* A page at rest lists what is in its tables once and as it is there, for all
\* that it cannot know to be wrong; what it created while it was loading it may
\* list twice, or not at all, and as it is.
THEOREM PageIsRight == Spec => []SettledPageIsRight
<1>1. Inv /\ OnceInv => SettledPageIsRight
  <2> SUFFICES ASSUME Inv, OnceInv, NEW p \in open, Settled(p), NEW t \in Tables(p),
                      NEW x \in ItemsOf(t) \ stale[p]
               PROVE  IF x \in crossed[p]
                      THEN \A e \in Shown(p, x) : [e EXCEPT !.double = FALSE] \in Right(x)
                      ELSE Shown(p, x) = Right(x)
    BY DEF SettledPageIsRight
  <2>1. /\ TypeOK /\ Working /\ RowsInv /\ p \in Pages /\ x \in Items
        /\ list[p] \in SUBSET Entry
    BY OpenPages, ItemsListed DEF Inv, TypeInv, TypeOK
  <2>2. RightAbout(p, x)
    BY <2>1 DEF Inv, ListInv, Believed, Settled
  <2>3. \A r \in Requests : InFlight(r) => job[r].page # p
    BY DEF Settled
  <2>4. ~Coming(p, x) /\ ~NotYet(p, x)
    BY <2>3 DEF Coming, NotYet, InFlight
  <2>5. \A r \in Requests, k \in {"status", "assign"} : ~Patching(r, p, x, k)
    BY <2>3 DEF Patching, InFlight
  <2>6. /\ Exists(x) /\ x \notin crossed[p] => \E e \in list[p] : e.id = x
        /\ \A e \in list[p] : e.id = x => Exists(x) /\ AsAsked(p, e)
        /\ x \notin crossed[p] => \A e \in list[p] : e.id = x => e.double = FALSE
    BY <2>1, <2>2, <2>4 DEF RightAbout, RowsInv, OnItsWay, Has, OnceInv
  <2>7. \E st, sp :
            /\ Right(x) = IF Exists(x) THEN {[status |-> st, sprint |-> sp, double |-> FALSE]} ELSE {}
            /\ \A e \in list[p] : e.id = x => e.status = st /\ e.sprint = sp
    <3>1. CASE x \in Issues
      <4>1. \A e \in list[p] : e.id = x => e.status = issue[x].status /\ e.sprint = issue[x].sprint
        BY <2>5, <2>6, <3>1 DEF AsAsked
      <4> QED
        BY <3>1, <4>1 DEF Right, Exists
    <3>2. CASE x \in Sprints
      <4>1. x \notin Issues
        BY <3>2, Apart
      <4>2. \A e \in list[p] : e.id = x => e.status = sprint[x] /\ e.sprint = None
        BY <2>1, <2>6, <4>1, EntryFields DEF AsAsked
      <4> QED
        BY <4>1, <4>2 DEF Right, Exists
    <3> QED
      BY <2>1, <3>1, <3>2, Apart
  <2>8. PICK st, sp :
            /\ Right(x) = IF Exists(x) THEN {[status |-> st, sprint |-> sp, double |-> FALSE]} ELSE {}
            /\ \A e \in list[p] : e.id = x => e.status = st /\ e.sprint = sp
    BY <2>7
  <2>9. CASE x \in crossed[p]
    <3>1. ASSUME NEW z \in Shown(p, x) PROVE [z EXCEPT !.double = FALSE] \in Right(x)
      <4>1. PICK e \in list[p] :
                e.id = x /\ z = [status |-> e.status, sprint |-> e.sprint, double |-> e.double]
        BY DEF Shown
      <4>2. PICK w : w = [z EXCEPT !.double = FALSE]
        OBVIOUS
      <4>3. w = [status |-> e.status, sprint |-> e.sprint, double |-> FALSE]
        <5>1. w \in [status : {e.status}, sprint : {e.sprint}, double : {FALSE}]
          BY <4>1, <4>2
        <5> QED
          BY <5>1
      <4>4. e.status = st /\ e.sprint = sp /\ Exists(x)
        BY <2>6, <2>8, <4>1
      <4> QED
        BY <2>8, <4>2, <4>3, <4>4
    <3> QED
      BY <2>9, <3>1
  <2>10. CASE x \notin crossed[p]
    <3>1. \A e \in list[p] : e.id = x => Exists(x) /\ e.status = st /\ e.sprint = sp /\ e.double = FALSE
      BY <2>6, <2>8, <2>10
    <3>2. \A z : z \in Shown(p, x) <=>
              z = [status |-> st, sprint |-> sp, double |-> FALSE] /\ Exists(x)
      BY <2>6, <2>10, <3>1 DEF Shown
    <3> QED
      BY <2>8, <2>10, <3>2
  <2> QED
    BY <2>9, <2>10
<1> QED
  BY <1>1, InvAlways, OnceAlways, PTL

\* The steps that change the tables.
LEMMA TableSteps ==
    ASSUME [Next]_vars
    PROVE  \/ UNCHANGED <<issue, sprint>>
           \/ \E r \in Requests :
                  \/ \E i \in Issues : InsertIssue(r, i)
                  \/ \E s \in Sprints : InsertSprint(r, s)
                  \/ StartSprint(r) \/ Close(r) \/ UpdateIssue(r)
           \/ \E i \in Issues, to \in Statuses : Drag(i, to)
<1>1. ASSUME NEW p \in Pages, PageStep(p) PROVE UNCHANGED <<issue, sprint>>
  BY <1>1 DEF PageStep, Read, Load, LoadFails, tables
<1>2. ASSUME NEW r \in Requests, NEW p \in Pages, Click(r, p) PROVE UNCHANGED <<issue, sprint>>
  BY <1>2
     DEF Click, Submit, Start, Complete, AskSprint, ChangeStatus, AssignSprint, Patch, Send, tables
<1>3. ASSUME NEW r \in Requests, Answer(r) PROVE UNCHANGED <<issue, sprint>>
  BY <1>3 DEF Answer, Created, SprintTold, FetchAgain, IssuesTold, Lost, tables
<1>4. ASSUME NEW r \in Requests, Handler(r)
      PROVE  \/ \E i \in Issues : InsertIssue(r, i)
             \/ \E s \in Sprints : InsertSprint(r, s)
             \/ StartSprint(r) \/ Close(r) \/ UpdateIssue(r)
             \/ UNCHANGED <<issue, sprint>>
  BY <1>4 DEF Handler, Sweep, Fail, tables
<1>5. UNCHANGED vars => UNCHANGED <<issue, sprint>>
  BY DEF vars, tables
<1> QED
  BY <1>1, <1>2, <1>3, <1>4, <1>5 DEF Next

\* Work of a sprint that a completion has not cleared was changed after the
\* sweep.
ClosingInv ==
    \A r \in Requests : pc[r] = "closing" => Unfinished(job[r].item) \subseteq swept[r] \cup since[r]

\* Issues are changed, and noted.
LEMMA ClosingRests ==
    ASSUME ClosingInv, NEW items,
           \A x \in Issues : x \notin items => issue'[x] = issue[x],
           \A q \in Requests : pc'[q] = "closing" =>
               /\ pc[q] = "closing" /\ job'[q] = job[q] /\ swept'[q] = swept[q]
               /\ since[q] \subseteq since'[q] /\ items \cap Issues \subseteq since'[q]
    PROVE  ClosingInv'
<1> SUFFICES ASSUME NEW q \in Requests, pc'[q] = "closing", NEW i \in Issues,
                    issue'[i] # None, issue'[i].sprint = job'[q].item, issue'[i].status # "done"
             PROVE  i \in swept'[q] \cup since'[q]
  BY DEF ClosingInv, Unfinished
<1>1. CASE i \in items
  BY <1>1
<1>2. CASE i \notin items
  <2>1. i \in Unfinished(job[q].item)
    BY <1>2 DEF Unfinished
  <2> QED
    BY <2>1 DEF ClosingInv
<1> QED
  BY <1>1, <1>2

LEMMA ClosingStep == ASSUME Inv, ClosingInv, [Next]_vars PROVE ClosingInv'
<1>1. TypeOK /\ Working /\ TypeInv
  BY DEF Inv, TypeInv
<1>2. ASSUME NEW r \in Requests, NEW to, pc'= [pc EXCEPT ![r] = to], to # "closing",
             UNCHANGED issue, \A q \in Requests : q # r =>
                 job'[q] = job[q] /\ swept'[q] = swept[q] /\ since'[q] = since[q]
      PROVE  ClosingInv'
  <2>1. \A q \in Requests : pc'[q] = "closing" => q # r /\ pc[q] = "closing"
    BY <1>1, <1>2 DEF TypeOK
  <2>2. PICK items : items = {}
    OBVIOUS
  <2> QED
    BY <1>2, <2>1, <2>2, ClosingRests
<1>3. CASE UNCHANGED vars
  <2>1. PICK items : items = {}
    OBVIOUS
  <2> QED
    BY <1>3, <2>1, ClosingRests DEF vars, tables, requestVars
<1>4. ASSUME NEW p \in Pages, PageStep(p) PROVE ClosingInv'
  <2>1. UNCHANGED <<issue, pc, job, swept>> /\ (since' = since \/ since' = [since EXCEPT ![p] = {}])
    BY <1>4 DEF PageStep, Read, Load, LoadFails, tables, requestVars
  <2>2. \A q \in Requests : since'[q] = since[q]
    BY <1>1, <2>1, Apart DEF TypeOK
  <2>3. PICK items : items = {}
    OBVIOUS
  <2> QED
    BY <2>1, <2>2, <2>3, ClosingRests
<1>5. ASSUME NEW r \in Requests, NEW p \in Pages, Click(r, p) PROVE ClosingInv'
  <2>1. PICK kind, item, to : Send(r, kind, p, item, to)
    BY <1>5 DEF Click, Submit, Start, Complete, AskSprint, ChangeStatus, AssignSprint, Patch
  <2>2. /\ pc' = [pc EXCEPT ![r] = "sent"] /\ UNCHANGED <<issue, swept, since>>
        /\ \A q \in Requests : q # r => job'[q] = job[q]
    BY <1>1, <2>1 DEF Send, Goto, tables, TypeOK
  <2> QED
    BY <1>2, <2>2
\* What a handler changes is noted for every completion that is under way.
<1>6. ASSUME NEW items \in SUBSET Items, NEW by \in Pages \cup {None}, NEW r \in Requests, pc'[r] # "closing",
             \A x \in Issues : x \notin items => issue'[x] = issue[x],
             \A q \in Requests : q # r =>
                 /\ pc'[q] = pc[q] /\ job'[q] = job[q] /\ swept'[q] = swept[q]
                 /\ since'[q] = Noted(items, by)[q]
      PROVE  ClosingInv'
  <2>1. \A q \in Requests : q # by
    BY Apart, NoneAssumption
  <2>2. \A q \in Requests : since[q] \subseteq Noted(items, by)[q]
    BY <1>1, ChangedSets
  <2>3. \A q \in Requests : pc[q] = "closing" => items \subseteq Noted(items, by)[q]
    BY <1>1, <2>1, ChangedSets
  <2>4. \A q \in Requests : pc'[q] = "closing" =>
            /\ pc[q] = "closing" /\ job'[q] = job[q] /\ swept'[q] = swept[q]
            /\ since[q] \subseteq since'[q] /\ items \cap Issues \subseteq since'[q]
    BY <1>6, <2>2, <2>3
  <2> QED
    BY <1>6, <2>4, ClosingRests
<1>7. ASSUME NEW r \in Requests, Handler(r) PROVE ClosingInv'
  <2>1. WorkingOf(r)
    BY <1>1 DEF Working
  <2>2. InFlight(r) => job[r].page \in Pages \cup {None}
    BY <1>1, PageOf
  \* The requests that are answered.
  <2>3. ASSUME NEW items \in SUBSET Items, NEW status, NEW wrong, Answered(r, status, items, wrong),
               InFlight(r), \A x \in Issues : x \notin items => issue'[x] = issue[x],
               \A q \in Requests : q # r => job'[q] = job[q] /\ swept'[q] = swept[q]
        PROVE  ClosingInv'
    <3>1. PICK by \in Pages \cup {None} : by = job[r].page
      BY <2>2, <2>3
    <3>2. pc' = [pc EXCEPT ![r] = "answered"] /\ since' = [Noted(items, by) EXCEPT ![r] = wrong]
      BY <2>3, <3>1 DEF Answered, Goto
    <3>3. pc'[r] # "closing" /\ \A q \in Requests : q # r => pc'[q] = pc[q]
      BY <1>1, <3>2 DEF TypeOK
    <3>4. Noted(items, by) \in [Pages \cup Requests -> SUBSET Items]
      BY <1>1, ChangedSets
    <3>5. \A q \in Requests : q # r => since'[q] = Noted(items, by)[q]
      BY <3>2, <3>4
    <3> QED
      BY <1>6, <2>3, <3>3, <3>5
  <2>4. ASSUME NEW i \in Issues, InsertIssue(r, i) PROVE ClosingInv'
    <3>1. PICK items \in SUBSET Items : items = {i}
      BY Apart
    <3>2. /\ Answered(r, "todo", items, {}) /\ InFlight(r)
          /\ \A x \in Issues : x \notin items => issue'[x] = issue[x]
          /\ \A q \in Requests : q # r => job'[q] = job[q] /\ swept'[q] = swept[q]
      BY <1>1, <2>4, <3>1 DEF InsertIssue, InFlight, TypeOK
    <3> QED
      BY <2>3, <3>2
  <2>5. ASSUME NEW s \in Sprints, InsertSprint(r, s) PROVE ClosingInv'
    <3>1. PICK items \in SUBSET Items : items = {s}
      BY Apart
    <3>2. /\ Answered(r, "planned", items, {}) /\ InFlight(r)
          /\ \A x \in Issues : x \notin items => issue'[x] = issue[x]
          /\ \A q \in Requests : q # r => job'[q] = job[q] /\ swept'[q] = swept[q]
      BY <1>1, <2>5, <3>1 DEF InsertSprint, InFlight, TypeOK
    <3> QED
      BY <2>3, <3>2
  <2>6. CASE StartSprint(r)
    <3>1. job[r].item \in Items
      BY <2>1, <2>6, Apart DEF StartSprint, WorkingOf
    <3>2. \E items \in SUBSET Items : \E status, wrong : Answered(r, status, items, wrong)
      <4>1. PICK one \in SUBSET Items, none \in SUBSET Items : one = {job[r].item} /\ none = {}
        BY <3>1
      <4>2. \/ Answered(r, "active", one, {}) \/ Answered(r, sprint[job[r].item], none, {})
            \/ Answered(r, "active", none, one)
        BY <2>6, <4>1 DEF StartSprint
      <4> QED
        BY <4>2
    <3>3. PICK items \in SUBSET Items : \E status, wrong : Answered(r, status, items, wrong)
      BY <3>2
    <3>4. PICK status, wrong : Answered(r, status, items, wrong)
      BY <3>3
    <3>5. UNCHANGED <<issue, job, swept>> /\ InFlight(r)
      BY <2>6 DEF StartSprint, InFlight
    <3> QED
      BY <2>3, <3>4, <3>5
  <2>7. CASE Sweep(r)
    <3>1. /\ swept' = [swept EXCEPT ![r] = Unfinished(job[r].item)] /\ pc' = [pc EXCEPT ![r] = "closing"]
          /\ UNCHANGED <<issue, job, since>>
      BY <2>7 DEF Sweep, Goto, tables
    <3>2. /\ swept'[r] = Unfinished(job[r].item)
          /\ \A q \in Requests : q # r => swept'[q] = swept[q] /\ pc'[q] = pc[q]
      BY <1>1, <3>1 DEF TypeOK
    <3> SUFFICES ASSUME NEW q \in Requests, pc'[q] = "closing"
                 PROVE  Unfinished(job[q].item)' \subseteq swept'[q] \cup since'[q]
      BY DEF ClosingInv
    <3>3. Unfinished(job[q].item)' = Unfinished(job[q].item)
      BY <3>1 DEF Unfinished
    <3>4. CASE q = r
      BY <3>2, <3>3, <3>4
    <3>5. CASE q # r
      <4>1. Unfinished(job[q].item) \subseteq swept[q] \cup since[q]
        BY <3>2, <3>5 DEF ClosingInv
      <4> QED
        BY <3>1, <3>2, <3>3, <3>5, <4>1
    <3> QED
      BY <3>4, <3>5
  <2>8. CASE Close(r)
    <3>1. PICK items \in SUBSET Items : items = {job[r].item} \cup swept[r]
      <4>1. job[r].item \in Sprints
        BY <2>1, <2>8 DEF Close, WorkingOf
      <4>2. swept[r] \subseteq Issues
        BY <1>1 DEF TypeOK
      <4> QED
        BY <4>1, <4>2, Apart
    <3>2. /\ Answered(r, "completed", items, {}) /\ InFlight(r)
          /\ job' = job /\ swept' = [swept EXCEPT ![r] = {}]
          /\ issue' = [i \in Issues |-> IF i \in swept[r] THEN [issue[i] EXCEPT !.sprint = None]
                                        ELSE issue[i]]
      BY <2>8, <3>1 DEF Close, InFlight
    <3>3. \A q \in Requests : q # r => job'[q] = job[q] /\ swept'[q] = swept[q]
      BY <1>1, <3>2 DEF TypeOK
    <3>4. \A x \in Issues : x \notin items => issue'[x] = issue[x]
      BY <3>1, <3>2
    <3> QED
      BY <2>3, <3>2, <3>3, <3>4
  <2>9. CASE UpdateIssue(r)
    <3>1. PICK i \in Issues, by \in Pages \cup {None} : i = job[r].item /\ by = job[r].page
      BY <2>1, <2>2, <2>9 DEF UpdateIssue, WorkingOf, InFlight
    <3>2. PICK items \in SUBSET Items : items = {i}
      BY Apart
    <3>3. Over(r) /\ since' = Noted(items, by)
      BY <2>9, <3>1, <3>2 DEF UpdateIssue, Changed
    <3>4. \A x \in Issues : x \notin items => issue'[x] = issue[x]
      BY <1>1, <2>9, <3>1, <3>2 DEF UpdateIssue, TypeOK
    <3>5. /\ pc'[r] = "over"
          /\ \A q \in Requests : q # r => pc'[q] = pc[q] /\ job'[q] = job[q] /\ swept'[q] = swept[q]
      BY <1>1, <3>3, OverAt
    <3> QED
      BY <1>6, <3>3, <3>4, <3>5
  <2>10. CASE Fail(r)
    <3>1. Over(r) /\ since' = [since EXCEPT ![r] = {}] /\ UNCHANGED issue
      BY <2>10 DEF Fail, tables
    <3>2. \A q \in Requests : q # r => job'[q] = job[q] /\ swept'[q] = swept[q] /\ since'[q] = since[q]
      BY <1>1, <3>1, OverAt DEF TypeOK
    <3> QED
      BY <1>2, <3>1, <3>2 DEF Over, Goto
  <2> QED
    BY <1>7, <2>4, <2>5, <2>6, <2>7, <2>8, <2>9, <2>10 DEF Handler
<1>8. ASSUME NEW r \in Requests, Answer(r) PROVE ClosingInv'
  <2>1. issue' = issue /\ InFlight(r)
    BY <1>8 DEF Answer, Created, SprintTold, FetchAgain, IssuesTold, Lost, tables, InFlight
  <2>2. job[r].page \in Pages
    BY <1>1, <2>1, PageOf
  <2>3. \A q \in Requests : q # r => since'[q] = since[q]
    <3>1. \/ since' = since \/ since' = [since EXCEPT ![r] = {}]
          \/ since' = [since EXCEPT ![r] = {},
                                   ![job[r].page] = @ \cup Outdated(job[r].page, {job[r].item})]
      BY <1>8 DEF Answer, Created, SprintTold, FetchAgain, IssuesTold, Lost, Told
    <3>2. \A q \in Requests : q # job[r].page
      BY <2>2, Apart
    <3> QED
      BY <1>1, <3>1, <3>2 DEF TypeOK
  <2>4. \/ Over(r)
        \/ Goto(r, "fetching") /\ UNCHANGED <<job, swept>>
        \/ Goto(r, "fetched") /\ UNCHANGED <<job, swept>>
    BY <1>8 DEF Answer, Created, SprintTold, FetchAgain, IssuesTold, Lost
  <2>5. \A q \in Requests : q # r => job'[q] = job[q] /\ swept'[q] = swept[q]
    BY <1>1, <2>4, OverAt
  <2>6. PICK to : to \in {"over", "fetching", "fetched"} /\ pc' = [pc EXCEPT ![r] = to]
    BY <2>4 DEF Over, Goto
  <2> QED
    BY <1>2, <2>1, <2>3, <2>5, <2>6
<1>9. ASSUME NEW i \in Issues, NEW to \in Statuses, Drag(i, to) PROVE ClosingInv'
  <2>1. PICK items \in SUBSET Items, by \in Pages \cup {None} : items = {i} /\ by = None
    BY Apart
  <2>2. since' = Noted(items, by) /\ UNCHANGED <<pc, job, swept>>
    BY <1>9, <2>1 DEF Drag, Changed, requestVars
  <2>3. \A x \in Issues : x \notin items => issue'[x] = issue[x]
    BY <1>1, <1>9, <2>1 DEF Drag, TypeOK
  <2>4. \A q \in Requests : q # by
    BY Apart, NoneAssumption
  <2>5. \A q \in Requests : since[q] \subseteq Noted(items, by)[q]
    BY <1>1, ChangedSets
  <2>6. \A q \in Requests : pc[q] = "closing" => items \subseteq Noted(items, by)[q]
    BY <1>1, <2>4, ChangedSets
  <2> QED
    BY <2>2, <2>3, <2>5, <2>6, ClosingRests
<1> QED
  BY <1>3, <1>4, <1>5, <1>7, <1>8, <1>9 DEF Next

LEMMA ClosingAlways == Spec => []ClosingInv
<1>1. Init => ClosingInv
  BY DEF Init, ClosingInv
<1>2. Inv /\ ClosingInv /\ [Next]_vars => ClosingInv'
  BY ClosingStep
<1> QED
  BY <1>1, <1>2, InvAlways, PTL DEF Spec

LEMMA Strands ==
    ASSUME Inv, ClosingInv, [Next]_vars, NEW i \in Issues, Stranded(i)', ~Stranded(i)
    PROVE  \/ \E r \in Requests :
                  /\ pc[r] = "sent" /\ pc'[r] # "sent"
                  /\ job[r].kind = "assign" /\ job[r].to \in stale[job[r].page]
           \/ issue[i].status = "done" /\ issue'[i].status # "done"
           \/ \E r \in Requests :
                  /\ pc[r] = "closing" /\ pc'[r] = "answered"
                  /\ job[r].item = issue[i].sprint /\ i \in since[r]
<1>1. TypeOK /\ Working /\ RowsInv /\ AskedInv
  BY DEF Inv, TypeInv
<1>2. PICK sp : sp = issue'[i].sprint
  OBVIOUS
<1>3. /\ issue'[i] # None /\ sp # None /\ issue'[i].status # "done" /\ sprint'[sp] = "completed"
      /\ ~(issue[i] # None /\ issue[i].sprint # None /\ issue[i].status # "done"
               /\ sprint[issue[i].sprint] = "completed")
  BY <1>2 DEF Stranded
<1>4. CASE UNCHANGED <<issue, sprint>>
  BY <1>2, <1>3, <1>4
<1>5. ASSUME NEW r \in Requests, NEW j \in Issues, InsertIssue(r, j) PROVE FALSE
  <2>1. issue' = [issue EXCEPT ![j] = [status |-> "todo", sprint |-> None]] /\ sprint' = sprint
    BY <1>5 DEF InsertIssue
  <2>2. issue'[i] = issue[i] \/ issue'[i].sprint = None
    BY <1>1, <2>1 DEF TypeOK
  <2> QED
    BY <1>2, <1>3, <2>1, <2>2
<1>6. ASSUME NEW r \in Requests, NEW s \in Sprints, InsertSprint(r, s) PROVE FALSE
  <2>1. sprint' = [sprint EXCEPT ![s] = "planned"] /\ issue' = issue
    BY <1>6 DEF InsertSprint
  <2>2. sp \in Sprints
    BY <1>1, <1>2, <1>3, <2>1 DEF TypeOK, Row
  <2> QED
    BY <1>1, <1>2, <1>3, <2>1, <2>2 DEF TypeOK
<1>7. ASSUME NEW r \in Requests, StartSprint(r) PROVE FALSE
  <2>1. /\ sprint' = sprint \/ sprint' = [sprint EXCEPT ![job[r].item] = "active"]
        /\ issue' = issue
    BY <1>7 DEF StartSprint
  <2>2. sp \in Sprints
    BY <1>1, <1>2, <1>3, <2>1 DEF TypeOK, Row
  <2> QED
    BY <1>1, <1>2, <1>3, <2>1, <2>2 DEF TypeOK
<1>8. ASSUME NEW r \in Requests, Close(r)
      PROVE  /\ pc[r] = "closing" /\ pc'[r] = "answered"
             /\ job[r].item = issue[i].sprint /\ i \in since[r]
  <2>1. PICK s : s = job[r].item
    OBVIOUS
  <2>2. /\ pc[r] = "closing" /\ pc' = [pc EXCEPT ![r] = "answered"]
        /\ sprint' = [sprint EXCEPT ![s] = "completed"]
        /\ issue'[i] = IF i \in swept[r] THEN [issue[i] EXCEPT !.sprint = None] ELSE issue[i]
    BY <1>8, <2>1 DEF Close, Answered, Goto
  <2>3. i \notin swept[r]
    <3> SUFFICES ASSUME i \in swept[r] PROVE FALSE
      OBVIOUS
    <3>1. issue[i] \in Row
      BY <1>1 DEF RowsInv, Exists, TypeOK
    <3>2. sp = None
      BY <1>2, <2>2, <3>1 DEF Row
    <3> QED
      BY <1>3, <3>2
  <2>4. issue'[i] = issue[i] /\ issue[i].sprint = sp /\ sp \in Sprints
    BY <1>1, <1>2, <1>3, <2>2, <2>3 DEF TypeOK, Row
  <2>5. sp = s
    BY <1>1, <1>3, <2>2, <2>4 DEF TypeOK
  <2>6. i \in Unfinished(s)
    BY <1>3, <2>4, <2>5 DEF Unfinished
  <2>7. i \in since[r]
    BY <2>1, <2>2, <2>3, <2>6 DEF ClosingInv
  <2> QED
    BY <1>1, <2>1, <2>2, <2>4, <2>5, <2>7 DEF TypeOK
<1>9. ASSUME NEW r \in Requests, UpdateIssue(r)
      PROVE  \/ /\ pc[r] = "sent" /\ pc'[r] # "sent"
                /\ job[r].kind = "assign" /\ job[r].to \in stale[job[r].page]
             \/ issue[i].status = "done" /\ issue'[i].status # "done"
  <2>1. /\ pc[r] = "sent" /\ Over(r) /\ sprint' = sprint /\ WorkingOf(r)
        /\ job[r].kind \in {"status", "assign"}
    BY <1>1, <1>9 DEF UpdateIssue, Working
  <2>2. pc'[r] # "sent"
    BY <1>1, <2>1, OverAt
  <2>3. PICK j \in Issues : j = job[r].item
    BY <2>1 DEF WorkingOf
  <2>4. issue[j] # None /\ issue[j] \in Row
    BY <1>1, <2>3, Apart DEF RowsInv, Exists, TypeOK
  <2>5. CASE job[r].kind = "status"
    <3>1. issue' = [issue EXCEPT ![j].status = job[r].to]
      BY <1>9, <2>3, <2>5 DEF UpdateIssue
    <3>2. i = j /\ issue[i].sprint = sp
      BY <1>1, <1>2, <1>3, <2>1, <2>4, <3>1 DEF TypeOK, Row
    <3> QED
      BY <1>3, <2>1, <2>4, <3>2
  <2>6. CASE job[r].kind = "assign"
    <3>1. issue' = [issue EXCEPT ![j].sprint = job[r].to]
      BY <1>9, <2>3, <2>6 DEF UpdateIssue
    <3>2. sp = job[r].to
      BY <1>1, <1>2, <1>3, <2>1, <2>4, <3>1 DEF TypeOK, Row
    <3>3. job[r].to \in stale[job[r].page]
      BY <1>1, <1>3, <2>1, <2>6, <3>2 DEF AskedInv
    <3> QED
      BY <2>1, <2>2, <2>6, <3>3
  <2> QED
    BY <2>1, <2>5, <2>6
<1>10. ASSUME NEW j \in Issues, NEW to \in Statuses, Drag(j, to)
       PROVE  issue[i].status = "done" /\ issue'[i].status # "done"
  <2>1. issue[j] # None /\ issue' = [issue EXCEPT ![j].status = to] /\ sprint' = sprint
    BY <1>10 DEF Drag
  <2>2. issue[j] \in Row
    BY <1>1, <2>1 DEF TypeOK
  <2>3. i = j /\ issue[i].sprint = sp
    BY <1>1, <1>2, <1>3, <2>1, <2>2 DEF TypeOK, Row
  <2> QED
    BY <1>3, <2>1, <2>3
<1> QED
  BY <1>4, <1>5, <1>6, <1>7, <1>8, <1>9, <1>10, TableSteps

LEMMA Reopens ==
    ASSUME Inv, [Next]_vars, NEW s \in Sprints, sprint[s] = "completed", sprint'[s] # "completed"
    PROVE  \E r \in Requests :
               /\ pc[r] = "sent" /\ pc'[r] # "sent"
               /\ job[r].kind = "start" /\ job[r].item = s /\ s \in stale[job[r].page]
<1>1. TypeOK /\ AskedInv
  BY DEF Inv, TypeInv
<1>2. PICK r \in Requests : sprint' # sprint /\ (StartSprint(r) \/ Close(r) \/ \E z \in Sprints : InsertSprint(r, z))
  BY TableSteps DEF InsertIssue, UpdateIssue, Drag
<1>3. CASE \E z \in Sprints : InsertSprint(r, z)
  <2>1. PICK z \in Sprints : sprint[z] = None /\ sprint' = [sprint EXCEPT ![z] = "planned"]
    BY <1>3 DEF InsertSprint
  <2>2. None # "completed"
    BY Apart DEF SprintStatuses
  <2> QED
    BY <1>1, <2>1, <2>2 DEF TypeOK
<1>4. CASE Close(r)
  BY <1>1, <1>4 DEF Close, TypeOK
<1>5. CASE StartSprint(r)
  <2>1. /\ sprint' = [sprint EXCEPT ![job[r].item] = "active"] /\ job[r].kind = "start"
        /\ pc[r] = "sent" /\ pc' = [pc EXCEPT ![r] = "answered"]
    BY <1>2, <1>5 DEF StartSprint, Answered, Goto
  <2>2. job[r].item = s /\ pc'[r] = "answered"
    BY <1>1, <2>1 DEF TypeOK
  <2>3. s \in stale[job[r].page]
    BY <1>1, <2>1, <2>2 DEF AskedInv
  <2> QED
    BY <2>1, <2>2, <2>3
<1> QED
  BY <1>2, <1>3, <1>4, <1>5

\* CompleteSprint, UpdateIssue: unfinished work gets into a completed sprint
\* only from a page that knows the sprint no better, is taken up again there, or
\* slips in between the two statements of the completion.
THEOREM StrandersAreStale == Spec => StrandedUnknowingly
<1>1. Inv /\ ClosingInv /\ [Next]_vars =>
          [\A i \in Issues : Stranded(i)' /\ ~Stranded(i) =>
              \/ \E r \in Requests :
                     /\ pc[r] = "sent" /\ pc'[r] # "sent"
                     /\ job[r].kind = "assign" /\ job[r].to \in stale[job[r].page]
              \/ issue[i].status = "done" /\ issue'[i].status # "done"
              \/ \E r \in Requests :
                     /\ pc[r] = "closing" /\ pc'[r] = "answered"
                     /\ job[r].item = issue[i].sprint /\ i \in since[r]]_vars
  BY Strands
<1> QED
  BY <1>1, InvAlways, ClosingAlways, PTL DEF Spec, StrandedUnknowingly

\* StartSprint: a completed sprint is reopened only from a page that was not
\* told, or that had asked twice.
THEOREM ReopenersAreStale == Spec => ReopenedUnknowingly
<1>1. Inv /\ [Next]_vars =>
          [\A s \in Sprints : sprint[s] = "completed" /\ sprint'[s] # "completed" =>
              \E r \in Requests :
                  /\ pc[r] = "sent" /\ pc'[r] # "sent"
                  /\ job[r].kind = "start" /\ job[r].item = s /\ s \in stale[job[r].page]]_vars
  BY Reopens
<1> QED
  BY <1>1, InvAlways, PTL DEF Spec, ReopenedUnknowingly
================================================================================
