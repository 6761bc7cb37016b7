------------------------------ MODULE Shell_proofs ------------------------------
(***************************************************************************)
(* Proofs about Projects and about Shell above it, for any users,          *)
(* projects, keys, names and requests.  What holds of the API is proved of *)
(* ProjectsSpec and carried over: every step of Shell is one of the API or *)
(* leaves it alone.                                                        *)
(***************************************************************************)
EXTENDS Shell, SequenceTheorems, TLAPS

-------------------------------------------------------------------------------
(***************************************************************************)
(* The API: types                                                          *)
(***************************************************************************)

\* What a request that was let in has in hand.  A project that is asked for is
\* there and stays there, and so does a member.
ProjectsWorking ==
    \A r \in Requests :
        /\ pc[r] = "insert" => job[r].by \in Users /\ job[r].key \in Keys /\ job[r].name \in Names
        /\ pc[r] \in {"find", "update", "add", "write", "answered"} =>
               job[r].by \in Users /\ job[r].project \in Projects /\ Exists(job[r].project)
        /\ pc[r] \in {"write", "answered"} => job[r].name \in Names
        /\ pc[r] \in {"find", "update", "add"} => job[r].user \in Users /\ job[r].role \in Roles
        /\ pc[r] = "update" => role[job[r].project][job[r].user] # None

ProjectsTypeInv == ProjectsTypeOK /\ ProjectsWorking

\* The ranks of the roles.
LEMMA Ranks == Roles = {"viewer", "member", "admin", "owner"} /\ \A l \in Roles : Rank[l] \in 1..4
  BY DEF Roles, Rank

LEMMA OwnerIsAdmin == Rank["admin"] = 3 /\ Rank["owner"] = 4
  BY DEF Rank

\* Whoever created a project is its first member, and the owner.
LEMMA FirstIsOwner ==
    ASSUME NEW u \in Users
    PROVE  FirstMembers(u) \in [Users -> Roles \cup {None}] /\ FirstMembers(u)[u] = "owner"
  BY Ranks DEF FirstMembers, OwnerRow

\* None is nothing else.
LEMMA NoneIsNothing ==
    /\ None \notin Users /\ None \notin Projects /\ None \notin Keys /\ None \notin Names
    /\ None \notin Roles /\ None \notin Row
  BY NoneAssumption

LEMMA NoJobIsJob == NoJob \in Job
  BY DEF NoJob, Job

LEMMA ProjectsTypeInit == ProjectsInit => ProjectsTypeInv
<1> SUFFICES ASSUME ProjectsInit PROVE ProjectsTypeInv
  OBVIOUS
<1>1. \A p \in Projects : Exists(p) <=> \E u \in Users : role[p][u] # None
  <2> TAKE p \in Projects
  <2>1. CASE Exists(p)
    <3>1. project[p].workspace \in Users
      BY <2>1 DEF ProjectsInit, Exists, Row
    <3> QED
      BY <2>1, <3>1, NoneIsNothing, Ranks DEF ProjectsInit
  <2>2. CASE ~Exists(p)
    BY <2>2 DEF ProjectsInit
  <2> QED
    BY <2>1, <2>2
<1>2. role \in [Projects -> [Users -> Roles \cup {None}]]
  <2>1. Others \cup {"owner", None} \subseteq Roles \cup {None}
    BY OthersAssumption, Ranks
  <2> QED
    BY <2>1 DEF ProjectsInit
<1>3. job \in [Requests -> Job]
  BY NoJobIsJob DEF ProjectsInit
<1> QED
  BY <1>1, <1>2, <1>3 DEF ProjectsInit, ProjectsTypeInv, ProjectsTypeOK, ProjectsWorking, NoOrphans

LEMMA ProjectsTypeStep == ProjectsTypeInv /\ [ProjectsNext]_projectVars => ProjectsTypeInv'
<1> SUFFICES ASSUME ProjectsTypeInv, [ProjectsNext]_projectVars PROVE ProjectsTypeInv'
  OBVIOUS
<1> USE NoneIsNothing DEF ProjectsTypeInv, ProjectsTypeOK, ProjectsWorking, NoOrphans, Exists
<1>1. ASSUME NEW r \in Requests, NEW u \in Users, NEW k \in Keys, NEW n \in Names,
             CountKey(r, u, k, n)
      PROVE  ProjectsTypeInv'
  <2>1. [NoJob EXCEPT !.kind = "create", !.by = u, !.key = k, !.name = n] \in Job
    BY DEF NoJob, Job
  <2>2. job'[r].by = u /\ job'[r].key = k /\ job'[r].name = n
    BY <1>1 DEF CountKey, LetThrough, NoJob
  <2> QED
    BY <1>1, <2>1, <2>2 DEF CountKey, LetThrough, Goto, tables
<1>2. ASSUME NEW r \in Requests, NEW u \in Users, NEW p \in Projects, NEW n \in Names,
             CheckRename(r, u, p, n)
      PROVE  ProjectsTypeInv'
  <2>1. [NoJob EXCEPT !.kind = "rename", !.by = u, !.project = p, !.name = n] \in Job
    BY DEF NoJob, Job
  <2>2. job'[r].by = u /\ job'[r].project = p /\ job'[r].name = n /\ project[p] # None
    BY <1>2 DEF CheckRename, LetThrough, NoJob, MayAdminister
  <2> QED
    BY <1>2, <2>1, <2>2 DEF CheckRename, LetThrough, Goto, tables
<1>3. ASSUME NEW r \in Requests, NEW u \in Users, NEW p \in Projects, NEW v \in Users,
             NEW l \in Asked, CheckMember(r, u, p, v, l)
      PROVE  ProjectsTypeInv'
  <2>1. l \in Roles
    BY AskedAssumption
  <2>2. [NoJob EXCEPT !.kind = "member", !.by = u, !.project = p, !.user = v, !.role = l] \in Job
    BY <2>1 DEF NoJob, Job
  <2>3. /\ job'[r].by = u /\ job'[r].project = p /\ job'[r].user = v /\ job'[r].role = l
        /\ project[p] # None
    BY <1>3 DEF CheckMember, LetThrough, NoJob, MayAdminister
  <2> QED
    BY <1>3, <2>1, <2>2, <2>3 DEF CheckMember, LetThrough, Goto, tables
<1>4. ASSUME NEW r \in Requests, NEW p \in Projects, InsertProject(r, p) PROVE ProjectsTypeInv'
  <2> DEFINE u == job[r].by
             row == [workspace |-> u, key |-> job[r].key, name |-> job[r].name]
  <2>1. u \in Users /\ row \in Row /\ row # None /\ job[r].name \in Names
    BY <1>4 DEF InsertProject, Row
  <2>2. /\ FirstMembers(u) \in [Users -> Roles \cup {None}]
        /\ FirstMembers(u)[u] # None
    BY <2>1, FirstIsOwner, Ranks
  <2>3. job' \in [Requests -> Job] /\ job'[r].project = p /\ job'[r].by = u /\ job'[r].name = job[r].name
    <3>1. \A j \in Job : [j EXCEPT !.project = p] \in Job
      BY DEF Job
    <3>2. job' = [job EXCEPT ![r] = [job[r] EXCEPT !.project = p]]
      BY <1>4 DEF InsertProject
    <3>3. job[r] \in Job
      OBVIOUS
    <3>4. job' \in [Requests -> Job] /\ job'[r] = [job[r] EXCEPT !.project = p]
      BY <3>1, <3>2, <3>3
    <3> QED
      BY <3>3, <3>4 DEF Job
  <2>4. /\ project' = [project EXCEPT ![p] = row] /\ role' = [role EXCEPT ![p] = FirstMembers(u)]
        /\ project[p] = None /\ pc' = [pc EXCEPT ![r] = "answered"]
        /\ \A q \in Requests : q # r => job'[q] = job[q]
    BY <1>4 DEF InsertProject, Goto
  <2>5. raced' \subseteq Requests /\ twins' \subseteq Projects /\ demoted' \subseteq Requests
    BY <1>4 DEF InsertProject, Counted
  <2> HIDE DEF u, row
  <2>6. \A q \in Projects : project'[q] # None <=> \E w \in Users : role'[q][w] # None
    BY <2>1, <2>2, <2>4
  <2>7. ProjectsTypeOK'
    BY <2>1, <2>2, <2>3, <2>4, <2>5, <2>6
  <2>8. ProjectsWorking'
    BY <2>1, <2>2, <2>3, <2>4
  <2> QED
    BY <2>7, <2>8
<1>5. ASSUME NEW r \in Requests, Rename(r) PROVE ProjectsTypeInv'
  <2> DEFINE p == job[r].project
             row == [project[p] EXCEPT !.name = job[r].name]
  <2>1. p \in Projects /\ row \in Row /\ row # None
    BY <1>5 DEF Rename, Row
  <2>2. project' = [project EXCEPT ![p].name = job[r].name]
    BY <1>5 DEF Rename
  <2>3. project' = [project EXCEPT ![p] = row]
    BY <2>1, <2>2
  <2>4. job' \in [Requests -> Job]
    BY <1>5, NoJobIsJob DEF Rename, Over
  <2> HIDE DEF row
  <2>5. project' \in [Projects -> Row \cup {None}] /\ \A q \in Projects : Exists(q)' <=> Exists(q)
    BY <1>5, <2>1, <2>3 DEF Rename
  <2>6. ProjectsTypeOK'
    BY <1>5, <2>4, <2>5 DEF Rename, Over, Goto
  <2>7. ProjectsWorking'
    BY <1>5, <2>5 DEF Rename, Over, Goto
  <2> QED
    BY <2>6, <2>7
<1>6. ASSUME NEW r \in Requests, FindMember(r) PROVE ProjectsTypeInv'
  BY <1>6 DEF FindMember, IsMember, Goto, tables
<1>7. ASSUME NEW r \in Requests, UpdateMember(r) PROVE ProjectsTypeInv'
  <2>1. job' \in [Requests -> Job]
    BY <1>7, NoJobIsJob DEF UpdateMember, Over
  <2>2. demoted' \subseteq Requests
    BY <1>7 DEF UpdateMember, LetIn
  <2>3. \A p \in Projects, v \in Users : role'[p][v] = None <=> role[p][v] = None
    BY <1>7 DEF UpdateMember
  <2>4. role' \in [Projects -> [Users -> Roles \cup {None}]]
    BY <1>7 DEF UpdateMember
  <2> QED
    BY <1>7, <2>1, <2>2, <2>3, <2>4 DEF UpdateMember, Over, Goto
<1>8. ASSUME NEW r \in Requests, AddMember(r) PROVE ProjectsTypeInv'
  <2>1. job' \in [Requests -> Job]
    BY <1>8, NoJobIsJob DEF AddMember, Over
  <2>2. raced' \subseteq Requests
    BY <1>8 DEF AddMember, Missed
  <2>3. /\ role' \in [Projects -> [Users -> Roles \cup {None}]]
        /\ \A p \in Projects, v \in Users : role[p][v] # None => role'[p][v] # None
        /\ \A p \in Projects, v \in Users :
               role'[p][v] # None => role[p][v] # None \/ p = job[r].project
    <3>1. job[r].project \in Projects /\ job[r].user \in Users /\ job[r].role \in Roles
      BY <1>8 DEF AddMember
    <3>2. CASE role' = role
      BY <3>2
    <3>3. CASE role' = [role EXCEPT ![job[r].project][job[r].user] = job[r].role]
      BY <3>1, <3>3
    <3> QED
      BY <1>8, <3>2, <3>3 DEF AddMember
  <2>4. project' = project /\ Exists(job[r].project) /\ twins' = twins /\ demoted' \subseteq demoted
    BY <1>8 DEF AddMember
  <2>5. /\ \A q \in Requests : (pc'[q] = pc[q] /\ job'[q] = job[q])
                                \/ pc'[q] \in {"over", "conflict"}
        /\ pc' \in [Requests -> {"idle", "insert", "find", "update", "add", "write",
                                 "answered", "conflict", "over"}]
    BY <1>8 DEF AddMember, Over, Goto
  <2>6. ProjectsTypeOK'
    BY <2>1, <2>2, <2>3, <2>4, <2>5
  <2>7. ProjectsWorking'
    BY <2>3, <2>4, <2>5
  <2> QED
    BY <2>6, <2>7
<1>9. ASSUME NEW r \in Requests, Fail(r) PROVE ProjectsTypeInv'
  <2>1. job' \in [Requests -> Job]
    BY <1>9, NoJobIsJob DEF Fail, Over
  <2> QED
    BY <1>9, <2>1 DEF Fail, Over, Goto, tables
<1>10. ASSUME NEW r \in Requests, Receive(r) PROVE ProjectsTypeInv'
  <2>1. job' \in [Requests -> Job]
    BY <1>10, NoJobIsJob DEF Receive, Over
  <2> QED
    BY <1>10, <2>1 DEF Receive, Over, Goto, tables, historyVars
<1>11. CASE UNCHANGED projectVars
  BY <1>11 DEF projectVars, tables, requestVars, historyVars
<1> QED
  BY <1>1, <1>2, <1>3, <1>4, <1>5, <1>6, <1>7, <1>8, <1>9, <1>10, <1>11
     DEF ProjectsNext, Ask, Handler

LEMMA ProjectsTyped == ProjectsSpec => []ProjectsTypeInv
  BY ProjectsTypeInit, ProjectsTypeStep, PTL DEF ProjectsSpec

-------------------------------------------------------------------------------
(***************************************************************************)
(* The API: keys                                                           *)
(***************************************************************************)

\* The key a request found free is free, unless it has raced.
CountInv ==
    \A r \in Requests : pc[r] = "insert" /\ r \notin raced => ~Taken(job[r].by, job[r].key)

KeysInv == CountInv /\ KeysDistinct

\* What no step but an insertion disturbs: no project gets another key, and
\* who is about to insert and has not raced has looked before.
LEMMA KeysStand ==
    /\ KeysInv
    /\ \A p \in Projects :
           /\ Exists(p)' <=> Exists(p)
           /\ Exists(p) => /\ project'[p].workspace = project[p].workspace
                           /\ project'[p].key = project[p].key
    /\ twins' = twins
    /\ \A q \in Requests : pc'[q] = "insert" /\ q \notin raced' =>
           pc[q] = "insert" /\ q \notin raced /\ job'[q] = job[q]
    => KeysInv'
  BY DEF KeysInv, CountInv, KeysDistinct, Clash, Taken, InWorkspace

LEMMA KeysInit == ProjectsInit => KeysInv
  BY DEF ProjectsInit, KeysInv, CountInv, KeysDistinct

LEMMA KeysStep ==
    ProjectsTypeInv /\ KeysInv /\ [ProjectsNext]_projectVars => KeysInv'
<1> SUFFICES ASSUME ProjectsTypeInv, KeysInv, [ProjectsNext]_projectVars PROVE KeysInv'
  OBVIOUS
<1> USE DEF ProjectsTypeInv, ProjectsTypeOK
<1>1. ASSUME NEW r \in Requests, NEW u \in Users, NEW k \in Keys, NEW n \in Names,
             CountKey(r, u, k, n)
      PROVE  KeysInv'
  <2>1. /\ project' = project /\ twins' = twins
        /\ \A q \in Requests : q # r => pc'[q] = pc[q] /\ job'[q] = job[q]
        /\ job'[r].by = u /\ job'[r].key = k
        /\ (~Taken(u, k) /\ raced' = raced) \/ raced' = raced \cup {r}
    BY <1>1 DEF CountKey, LetThrough, Goto, NoJob, tables
  <2> QED
    BY <2>1 DEF KeysInv, CountInv, KeysDistinct, Clash, Exists, Taken, InWorkspace
<1>2. ASSUME NEW r \in Requests, NEW u \in Users, NEW p \in Projects, NEW n \in Names,
             CheckRename(r, u, p, n)
      PROVE  KeysInv'
  BY <1>2, KeysStand DEF CheckRename, LetThrough, Goto, tables, Exists
<1>3. ASSUME NEW r \in Requests, NEW u \in Users, NEW p \in Projects, NEW v \in Users,
             NEW l \in Asked, CheckMember(r, u, p, v, l)
      PROVE  KeysInv'
  BY <1>3, KeysStand DEF CheckMember, LetThrough, Goto, tables, Exists
<1>4. ASSUME NEW r \in Requests, NEW p \in Projects, InsertProject(r, p) PROVE KeysInv'
  <2> DEFINE u == job[r].by
             k == job[r].key
  <2>1. /\ pc[r] = "insert" /\ ~Exists(p) /\ Exists(p)'
        /\ project'[p].workspace = u /\ project'[p].key = k
        /\ \A q \in Projects : q # p => project'[q] = project[q]
    <3>1. u \in Users /\ k \in Keys /\ job[r].name \in Names /\ pc[r] = "insert" /\ ~Exists(p)
      BY <1>4 DEF InsertProject, ProjectsWorking
    <3>2. project' = [project EXCEPT ![p] =
                         [workspace |-> u, key |-> k, name |-> job[r].name]]
      BY <1>4 DEF InsertProject
    <3>3. [workspace |-> u, key |-> k, name |-> job[r].name] # None
      BY <3>1, NoneIsNothing DEF Row
    <3> QED
      BY <3>1, <3>2, <3>3 DEF Exists
  <2>2. /\ twins \subseteq twins'
        /\ r \in raced => p \in twins'
        /\ raced' = (raced \cup Counted(u, k)) \ {r}
        /\ pc'[r] = "answered"
        /\ \A q \in Requests : q # r => pc'[q] = pc[q] /\ job'[q] = job[q]
    BY <1>4 DEF InsertProject, Goto
  <2> HIDE DEF u, k
  <2>3. CountInv'
    <3> SUFFICES ASSUME NEW q \in Requests, pc'[q] = "insert", q \notin raced',
                        NEW x \in Projects, Exists(x)',
                        project'[x].workspace = job'[q].by, project'[x].key = job'[q].key
                 PROVE  FALSE
      BY DEF CountInv, Taken, InWorkspace
    <3>1. q # r /\ pc[q] = "insert" /\ job'[q] = job[q] /\ q \notin raced /\ q \notin Counted(u, k)
      BY <2>2
    <3>2. CASE x = p
      BY <2>1, <3>1, <3>2 DEF Counted
    <3>3. CASE x # p
      BY <2>1, <3>1, <3>3 DEF KeysInv, CountInv, Taken, InWorkspace, Exists
    <3> QED
      BY <3>2, <3>3
  <2>4. ASSUME NEW q \in Projects, q # p, Exists(q), project[q].workspace = u, project[q].key = k
        PROVE  p \in twins'
    <3>1. Taken(u, k)
      BY <2>4 DEF Taken, InWorkspace
    <3>2. r \in raced
      BY <2>1, <3>1 DEF KeysInv, CountInv, u, k
    <3> QED
      BY <2>2, <3>2
  <2>5. KeysDistinct'
    <3> SUFFICES ASSUME NEW x \in Projects, NEW y \in Projects, Clash(x, y)', x # y
                 PROVE  x \in twins' \/ y \in twins'
      BY DEF KeysDistinct
    <3>1. CASE x = p \/ y = p
      BY <2>1, <2>4, <3>1 DEF Clash, Exists
    <3>2. CASE x # p /\ y # p
      BY <2>1, <2>2, <3>2 DEF KeysInv, KeysDistinct, Clash, Exists
    <3> QED
      BY <3>1, <3>2
  <2> QED
    BY <2>3, <2>5 DEF KeysInv
<1>5. ASSUME NEW r \in Requests, Rename(r) PROVE KeysInv'
  <2>1. \A p \in Projects :
           /\ Exists(p)' <=> Exists(p)
           /\ Exists(p) => /\ project'[p].workspace = project[p].workspace
                           /\ project'[p].key = project[p].key
    <3>1. /\ project' = [project EXCEPT ![job[r].project].name = job[r].name]
          /\ job[r].project \in Projects /\ project[job[r].project] \in Row /\ job[r].name \in Names
      BY <1>5 DEF Rename, ProjectsWorking, Exists
    <3> DEFINE row == [project[job[r].project] EXCEPT !.name = job[r].name]
    <3>2. /\ row \in Row /\ row.workspace = project[job[r].project].workspace
          /\ row.key = project[job[r].project].key
      BY <3>1 DEF Row
    <3>3. project' = [project EXCEPT ![job[r].project] = row]
      BY <3>1
    <3> HIDE DEF row
    <3> QED
      BY <3>1, <3>2, <3>3, NoneIsNothing DEF Exists
  <2>2. /\ twins' = twins /\ raced' = raced /\ pc' = [pc EXCEPT ![r] = "over"]
        /\ \A q \in Requests : q # r => job'[q] = job[q]
    BY <1>5 DEF Rename, Over, Goto
  <2> QED
    BY <2>1, <2>2, KeysStand
<1>6. ASSUME NEW r \in Requests, FindMember(r) PROVE KeysInv'
  <2>1. /\ UNCHANGED <<project, twins, job>> /\ raced \subseteq raced'
        /\ pc' = [pc EXCEPT ![r] = "update"] \/ pc' = [pc EXCEPT ![r] = "add"]
    BY <1>6 DEF FindMember, Goto, tables
  <2> QED
    BY <2>1, KeysStand DEF Exists
<1>7. ASSUME NEW r \in Requests, UpdateMember(r) PROVE KeysInv'
  BY <1>7, KeysStand DEF UpdateMember, Over, Goto, Exists
<1>8. ASSUME NEW r \in Requests, AddMember(r) PROVE KeysInv'
  <2>1. /\ UNCHANGED <<project, twins>> /\ raced \subseteq raced' \cup {r}
        /\ pc' = [pc EXCEPT ![r] = "over"] \/ pc' = [pc EXCEPT ![r] = "conflict"]
        /\ job' = [job EXCEPT ![r] = NoJob]
    BY <1>8 DEF AddMember, Over, Goto
  <2> QED
    BY <2>1, KeysStand DEF Exists
<1>9. ASSUME NEW r \in Requests, Fail(r) PROVE KeysInv'
  <2>1. /\ UNCHANGED <<project, twins>> /\ raced' = raced \ {r}
        /\ pc' = [pc EXCEPT ![r] = "over"] /\ job' = [job EXCEPT ![r] = NoJob]
    BY <1>9 DEF Fail, Over, Goto, tables
  <2> QED
    BY <2>1, KeysStand DEF Exists
<1>10. ASSUME NEW r \in Requests, Receive(r) PROVE KeysInv'
  BY <1>10, KeysStand DEF Receive, Over, Goto, tables, historyVars, Exists
<1>11. CASE UNCHANGED projectVars
  BY <1>11, KeysStand DEF projectVars, tables, requestVars, historyVars, Exists
<1> QED
  BY <1>1, <1>2, <1>3, <1>4, <1>5, <1>6, <1>7, <1>8, <1>9, <1>10, <1>11
     DEF ProjectsNext, Ask, Handler

-------------------------------------------------------------------------------
(***************************************************************************)
(* The API: members                                                        *)
(***************************************************************************)

\* A user that was looked for and not found is no member, unless another
\* request has come in between.
AddInv ==
    \A r \in Requests :
        pc[r] = "add" /\ r \notin raced => role[job[r].project][job[r].user] = None

MembersInv == AddInv /\ ConflictsAreRaces

\* What a step leaves alone that brings no request to add or to a conflict, and
\* makes nobody a member of a project that was there.
LEMMA MembersStand ==
    /\ ProjectsTypeInv /\ MembersInv
    /\ \A p \in Projects, v \in Users : Exists(p) /\ role[p][v] = None => role'[p][v] = None
    /\ \A q \in Requests :
           /\ pc'[q] = "add" => pc[q] = "add" /\ job'[q] = job[q]
           /\ pc'[q] = "conflict" => pc[q] = "conflict"
           /\ pc'[q] \in {"add", "conflict"} /\ q \in raced => q \in raced'
    => MembersInv'
<1> SUFFICES ASSUME ProjectsTypeInv, MembersInv,
                    \A p \in Projects, v \in Users :
                        Exists(p) /\ role[p][v] = None => role'[p][v] = None,
                    \A q \in Requests :
                       /\ pc'[q] = "add" => pc[q] = "add" /\ job'[q] = job[q]
                       /\ pc'[q] = "conflict" => pc[q] = "conflict"
                       /\ pc'[q] \in {"add", "conflict"} /\ q \in raced => q \in raced'
             PROVE  MembersInv'
  OBVIOUS
<1>1. \A q \in Requests : pc[q] = "add" =>
          job[q].project \in Projects /\ job[q].user \in Users /\ Exists(job[q].project)
  BY DEF ProjectsTypeInv, ProjectsWorking
<1> QED
  BY <1>1 DEF MembersInv, AddInv, ConflictsAreRaces

LEMMA MembersInit == ProjectsInit => MembersInv
  BY DEF ProjectsInit, MembersInv, AddInv, ConflictsAreRaces

LEMMA MembersStep ==
    ProjectsTypeInv /\ MembersInv /\ [ProjectsNext]_projectVars => MembersInv'
<1> SUFFICES ASSUME ProjectsTypeInv, MembersInv, [ProjectsNext]_projectVars PROVE MembersInv'
  OBVIOUS
<1>0. /\ pc \in [Requests -> {"idle", "insert", "find", "update", "add", "write",
                             "answered", "conflict", "over"}]
      /\ job \in [Requests -> Job]
      /\ role \in [Projects -> [Users -> Roles \cup {None}]]
  BY DEF ProjectsTypeInv, ProjectsTypeOK
<1>1. ASSUME NEW r \in Requests, NEW u \in Users, NEW k \in Keys, NEW n \in Names,
             CountKey(r, u, k, n)
      PROVE  MembersInv'
  BY <1>0, <1>1, MembersStand DEF CountKey, LetThrough, Goto, tables
<1>2. ASSUME NEW r \in Requests, NEW u \in Users, NEW p \in Projects, NEW n \in Names,
             CheckRename(r, u, p, n)
      PROVE  MembersInv'
  BY <1>0, <1>2, MembersStand DEF CheckRename, LetThrough, Goto, tables
<1>3. ASSUME NEW r \in Requests, NEW u \in Users, NEW p \in Projects, NEW v \in Users,
             NEW l \in Asked, CheckMember(r, u, p, v, l)
      PROVE  MembersInv'
  BY <1>0, <1>3, MembersStand DEF CheckMember, LetThrough, Goto, tables
<1>4. ASSUME NEW r \in Requests, NEW p \in Projects, InsertProject(r, p) PROVE MembersInv'
  <2>1. /\ ~Exists(p) /\ role' = [role EXCEPT ![p] = FirstMembers(job[r].by)]
        /\ pc' = [pc EXCEPT ![r] = "answered"]
        /\ \A q \in Requests : q # r => job'[q] = job[q] /\ (q \in raced => q \in raced')
    BY <1>0, <1>4 DEF InsertProject, Goto
  <2> QED
    BY <1>0, <2>1, MembersStand
<1>5. ASSUME NEW r \in Requests, Rename(r) PROVE MembersInv'
  BY <1>0, <1>5, MembersStand DEF Rename, Over, Goto
<1>6. ASSUME NEW r \in Requests, FindMember(r) PROVE MembersInv'
  <2>1. /\ UNCHANGED <<role, job>>
        /\ \A q \in Requests : q # r => pc'[q] = pc[q] /\ (q \in raced => q \in raced')
        /\ pc'[r] \in {"update", "add"}
        /\ pc'[r] = "add" => r \in raced' \/ role[job[r].project][job[r].user] = None
    BY <1>0, <1>6 DEF FindMember, IsMember, Goto, tables
  <2> QED
    BY <2>1 DEF MembersInv, AddInv, ConflictsAreRaces
<1>7. ASSUME NEW r \in Requests, UpdateMember(r) PROVE MembersInv'
  <2>1. /\ \A p \in Projects, v \in Users : role[p][v] = None => role'[p][v] = None
        /\ raced' = raced /\ pc' = [pc EXCEPT ![r] = "over"] /\ job' = [job EXCEPT ![r] = NoJob]
    BY <1>0, <1>7 DEF UpdateMember, Over, Goto, ProjectsTypeInv, ProjectsWorking
  <2> QED
    BY <1>0, <2>1, MembersStand
<1>8. ASSUME NEW r \in Requests, AddMember(r) PROVE MembersInv'
  <2> DEFINE p == job[r].project
             v == job[r].user
  <2>1. /\ pc[r] = "add" /\ p \in Projects /\ v \in Users
        /\ \A q \in Requests : q # r => pc'[q] = pc[q] /\ job'[q] = job[q]
    BY <1>0, <1>8 DEF AddMember, Over, Goto, ProjectsTypeInv, ProjectsWorking
  <2>2. CASE role[p][v] = None
    <3>1. /\ role' = [role EXCEPT ![p][v] = job[r].role]
          /\ raced' = (raced \cup Missed(p, v)) \ {r}
          /\ pc'[r] = "over"
      BY <1>0, <1>8, <2>2 DEF AddMember, Over, Goto
    <3> HIDE DEF p, v
    <3>2. AddInv'
      <4> SUFFICES ASSUME NEW q \in Requests, pc'[q] = "add", q \notin raced'
                   PROVE  role'[job'[q].project][job'[q].user] = None
        BY DEF AddInv
      <4>1. /\ q # r /\ pc[q] = "add" /\ job'[q] = job[q] /\ q \notin raced
            /\ q \notin Missed(p, v)
        BY <2>1, <3>1
      <4>2. role[job[q].project][job[q].user] = None
        BY <4>1 DEF MembersInv, AddInv
      <4>3. /\ job[q].project # p \/ job[q].user # v
            /\ job[q].project \in Projects /\ job[q].user \in Users
        BY <4>1 DEF Missed, ProjectsTypeInv, ProjectsWorking
      <4> QED
        BY <1>0, <2>1, <3>1, <4>1, <4>2, <4>3
    <3>3. ConflictsAreRaces'
      BY <2>1, <3>1 DEF MembersInv, ConflictsAreRaces
    <3> QED
      BY <3>2, <3>3 DEF MembersInv
  <2>3. CASE role[p][v] # None
    <3>1. UNCHANGED <<role, raced>> /\ pc'[r] = "conflict"
      BY <1>0, <1>8, <2>3 DEF AddMember, Over, Goto
    <3>2. r \in raced
      BY <2>1, <2>3 DEF MembersInv, AddInv
    <3> QED
      BY <2>1, <3>1, <3>2 DEF MembersInv, AddInv, ConflictsAreRaces
  <2> QED
    BY <2>2, <2>3
<1>9. ASSUME NEW r \in Requests, Fail(r) PROVE MembersInv'
  BY <1>0, <1>9, MembersStand DEF Fail, Over, Goto, tables
<1>10. ASSUME NEW r \in Requests, Receive(r) PROVE MembersInv'
  BY <1>0, <1>10, MembersStand DEF Receive, Over, Goto, tables, historyVars
<1>11. CASE UNCHANGED projectVars
  BY <1>11 DEF projectVars, tables, requestVars, historyVars, MembersInv, AddInv, ConflictsAreRaces
<1> QED
  BY <1>1, <1>2, <1>3, <1>4, <1>5, <1>6, <1>7, <1>8, <1>9, <1>10, <1>11
     DEF ProjectsNext, Ask, Handler

-------------------------------------------------------------------------------
(***************************************************************************)
(* The API: who may administer a project                                   *)
(***************************************************************************)

\* Whoever was let in for the role has it, unless it was taken meanwhile.
DemotedInv ==
    \A r \in Requests :
        pc[r] \in {"find", "update", "add", "write"} /\ r \notin demoted =>
            MayAdminister(job[r].by, job[r].project)

AdminInv == ProjectsTypeInv /\ DemotedInv

\* What a step leaves alone that takes the role of nobody.
LEMMA AdminsStand ==
    /\ ProjectsTypeInv /\ DemotedInv
    /\ \A p \in Projects, v \in Users :
           Exists(p) /\ role[p][v] # None => role'[p][v] = role[p][v]
    /\ \A q \in Requests :
           pc'[q] \in {"find", "update", "add", "write"} /\ q \notin demoted' =>
               /\ pc[q] \in {"find", "update", "add", "write"} /\ q \notin demoted
               /\ job'[q] = job[q]
    => DemotedInv'
<1> SUFFICES ASSUME ProjectsTypeInv, DemotedInv,
                    \A p \in Projects, v \in Users :
                        Exists(p) /\ role[p][v] # None => role'[p][v] = role[p][v],
                    NEW q \in Requests,
                    pc[q] \in {"find", "update", "add", "write"}, q \notin demoted,
                    job'[q] = job[q]
             PROVE  MayAdminister(job[q].by, job[q].project)'
  BY DEF DemotedInv
<1>1. job[q].project \in Projects /\ job[q].by \in Users /\ Exists(job[q].project)
  BY DEF ProjectsTypeInv, ProjectsWorking
<1>2. MayAdminister(job[q].by, job[q].project)
  BY DEF DemotedInv
<1> QED
  BY <1>1, <1>2 DEF MayAdminister

LEMMA DemotedInit == ProjectsInit => DemotedInv
  BY DEF ProjectsInit, DemotedInv

LEMMA DemotedStep == AdminInv /\ [ProjectsNext]_projectVars => DemotedInv'
<1> SUFFICES ASSUME ProjectsTypeInv, DemotedInv, [ProjectsNext]_projectVars PROVE DemotedInv'
  BY DEF AdminInv
<1>0. /\ pc \in [Requests -> {"idle", "insert", "find", "update", "add", "write",
                             "answered", "conflict", "over"}]
      /\ job \in [Requests -> Job]
      /\ role \in [Projects -> [Users -> Roles \cup {None}]]
  BY DEF ProjectsTypeInv, ProjectsTypeOK
<1>1. ASSUME NEW r \in Requests, NEW u \in Users, NEW k \in Keys, NEW n \in Names,
             CountKey(r, u, k, n)
      PROVE  DemotedInv'
  BY <1>0, <1>1, AdminsStand DEF CountKey, LetThrough, Goto, tables
<1>2. ASSUME NEW r \in Requests, NEW u \in Users, NEW p \in Projects, NEW n \in Names,
             CheckRename(r, u, p, n)
      PROVE  DemotedInv'
  <2>1. /\ MayAdminister(u, p) /\ role' = role /\ demoted' = demoted
        /\ job'[r].by = u /\ job'[r].project = p
        /\ \A q \in Requests : q # r => pc'[q] = pc[q] /\ job'[q] = job[q]
    BY <1>0, <1>2 DEF CheckRename, LetThrough, Goto, NoJob, tables
  <2> QED
    BY <2>1 DEF DemotedInv, MayAdminister
<1>3. ASSUME NEW r \in Requests, NEW u \in Users, NEW p \in Projects, NEW v \in Users,
             NEW l \in Asked, CheckMember(r, u, p, v, l)
      PROVE  DemotedInv'
  <2>1. /\ MayAdminister(u, p) /\ role' = role /\ demoted' = demoted
        /\ job'[r].by = u /\ job'[r].project = p
        /\ \A q \in Requests : q # r => pc'[q] = pc[q] /\ job'[q] = job[q]
    BY <1>0, <1>3 DEF CheckMember, LetThrough, Goto, NoJob, tables
  <2> QED
    BY <2>1 DEF DemotedInv, MayAdminister
<1>4. ASSUME NEW r \in Requests, NEW p \in Projects, InsertProject(r, p) PROVE DemotedInv'
  <2>1. /\ ~Exists(p) /\ role' = [role EXCEPT ![p] = FirstMembers(job[r].by)]
        /\ pc' = [pc EXCEPT ![r] = "answered"] /\ demoted' = demoted
        /\ \A q \in Requests : q # r => job'[q] = job[q]
    BY <1>0, <1>4 DEF InsertProject, Goto
  <2> QED
    BY <1>0, <2>1, AdminsStand
<1>5. ASSUME NEW r \in Requests, Rename(r) PROVE DemotedInv'
  BY <1>0, <1>5, AdminsStand DEF Rename, Over, Goto
<1>6. ASSUME NEW r \in Requests, FindMember(r) PROVE DemotedInv'
  <2>1. /\ UNCHANGED <<role, job, demoted>> /\ pc[r] = "find"
        /\ \A q \in Requests : q # r => pc'[q] = pc[q]
    BY <1>0, <1>6 DEF FindMember, Goto, tables
  <2> QED
    BY <2>1, AdminsStand
<1>7. ASSUME NEW r \in Requests, UpdateMember(r) PROVE DemotedInv'
  <2> DEFINE p == job[r].project
             v == job[r].user
             l == job[r].role
  <2>1. /\ p \in Projects /\ v \in Users
        /\ pc' = [pc EXCEPT ![r] = "over"] /\ job' = [job EXCEPT ![r] = NoJob]
    BY <1>0, <1>7 DEF UpdateMember, Over, Goto, ProjectsTypeInv, ProjectsWorking
  <2>2. CASE role' = role /\ demoted' = demoted \ {r}
    BY <1>0, <2>1, <2>2, AdminsStand
  <2>3. CASE /\ role' = [role EXCEPT ![p][v] = l]
             /\ demoted' = (demoted \cup LetIn(p, v, l)) \ {r}
    <3>1. l \in Roles
      BY <1>0, <1>7 DEF UpdateMember, ProjectsTypeInv, ProjectsWorking, Job
    <3> HIDE DEF p, v, l
    <3> SUFFICES ASSUME NEW q \in Requests, pc'[q] \in {"find", "update", "add", "write"},
                        q \notin demoted'
                 PROVE  MayAdminister(job[q].by, job[q].project)'
      BY DEF DemotedInv
    <3>2. /\ q # r /\ job'[q] = job[q] /\ pc'[q] = pc[q] /\ q \notin demoted
          /\ q \notin LetIn(p, v, l)
      BY <1>0, <2>1, <2>3
    <3>3. job[q].project \in Projects /\ job[q].by \in Users
      BY <3>2 DEF ProjectsTypeInv, ProjectsWorking
    <3>4. MayAdminister(job[q].by, job[q].project)
      BY <3>2 DEF DemotedInv
    <3>5. CASE job[q].project = p /\ job[q].by = v
      <4>1. ~(Rank[l] < Rank["admin"])
        BY <3>2, <3>5 DEF LetIn
      <4>2. Rank[l] >= Rank["admin"]
        BY <3>1, <4>1, Ranks, OwnerIsAdmin
      <4>3. role'[p][v] = l /\ l # None
        BY <1>0, <2>1, <2>3, <3>1, NoneIsNothing
      <4> QED
        BY <3>2, <3>5, <4>2, <4>3 DEF MayAdminister
    <3>6. CASE ~(job[q].project = p /\ job[q].by = v)
      <4>1. role'[job[q].project][job[q].by] = role[job[q].project][job[q].by]
        BY <1>0, <2>1, <2>3, <3>3, <3>6
      <4> QED
        BY <3>2, <3>4, <4>1 DEF MayAdminister
    <3> QED
      BY <3>5, <3>6
  <2> QED
    BY <1>7, <2>2, <2>3 DEF UpdateMember
<1>8. ASSUME NEW r \in Requests, AddMember(r) PROVE DemotedInv'
  <2>1. /\ pc'[r] \in {"over", "conflict"} /\ demoted' = demoted \ {r}
        /\ \A q \in Requests : q # r => pc'[q] = pc[q] /\ job'[q] = job[q]
    BY <1>0, <1>8 DEF AddMember, Over, Goto
  <2>2. \A p \in Projects, v \in Users : role[p][v] # None => role'[p][v] = role[p][v]
    <3>1. job[r].project \in Projects /\ job[r].user \in Users
      BY <1>8 DEF AddMember, ProjectsTypeInv, ProjectsWorking
    <3> QED
      BY <1>0, <1>8, <3>1 DEF AddMember
  <2> QED
    BY <2>1, <2>2, AdminsStand
<1>9. ASSUME NEW r \in Requests, Fail(r) PROVE DemotedInv'
  BY <1>0, <1>9, AdminsStand DEF Fail, Over, Goto, tables
<1>10. ASSUME NEW r \in Requests, Receive(r) PROVE DemotedInv'
  BY <1>0, <1>10, AdminsStand DEF Receive, Over, Goto, tables, historyVars
<1>11. CASE UNCHANGED projectVars
  BY <1>11 DEF projectVars, tables, requestVars, historyVars, DemotedInv, MayAdminister
<1> QED
  BY <1>1, <1>2, <1>3, <1>4, <1>5, <1>6, <1>7, <1>8, <1>9, <1>10, <1>11
     DEF ProjectsNext, Ask, Handler

\* A step that takes the last admin of a project is an update of that user's
\* role, by a request that is the user's own or has lost the right.
LEMMA LastAdmin ==
    AdminInv /\ [ProjectsNext]_projectVars =>
        \A p \in Projects : Admins(p) # {} /\ Admins(p)' = {} =>
            \E r \in Requests :
                /\ pc[r] = "update" /\ pc'[r] = "over" /\ job[r].project = p
                /\ job[r].by = job[r].user \/ r \in demoted
<1> SUFFICES ASSUME ProjectsTypeInv, DemotedInv, [ProjectsNext]_projectVars,
                    NEW p \in Projects, NEW w \in Admins(p), Admins(p)' = {}
             PROVE  \E r \in Requests :
                        /\ pc[r] = "update" /\ pc'[r] = "over" /\ job[r].project = p
                        /\ job[r].by = job[r].user \/ r \in demoted
  BY DEF AdminInv
<1>0. /\ pc \in [Requests -> {"idle", "insert", "find", "update", "add", "write",
                             "answered", "conflict", "over"}]
      /\ role \in [Projects -> [Users -> Roles \cup {None}]]
  BY DEF ProjectsTypeInv, ProjectsTypeOK
<1>1. w \in Users /\ role[p][w] # None /\ Rank[role[p][w]] >= Rank["admin"]
  BY DEF Admins
<1>2. role'[p][w] # role[p][w]
  BY <1>1 DEF Admins
<1>3. \A r \in Requests : ~AddMember(r)
  <2> SUFFICES ASSUME NEW r \in Requests, AddMember(r) PROVE FALSE
    OBVIOUS
  <2>1. job[r].project \in Projects /\ job[r].user \in Users
    BY DEF AddMember, ProjectsTypeInv, ProjectsWorking
  <2> QED
    BY <1>0, <1>1, <1>2, <2>1 DEF AddMember
<1>4. \A r \in Requests, x \in Projects : ~InsertProject(r, x)
  <2> SUFFICES ASSUME NEW r \in Requests, NEW x \in Projects, InsertProject(r, x) PROVE FALSE
    OBVIOUS
  <2>1. ~Exists(x) /\ role' = [role EXCEPT ![x] = FirstMembers(job[r].by)]
    BY DEF InsertProject
  <2>2. Exists(p)
    BY <1>1 DEF ProjectsTypeInv, ProjectsTypeOK, NoOrphans
  <2> QED
    BY <1>0, <1>2, <2>1, <2>2
<1>5. PICK r \in Requests : UpdateMember(r)
  BY <1>2, <1>3, <1>4
     DEF ProjectsNext, Ask, Handler, CountKey, CheckRename, CheckMember, LetThrough, Rename,
         FindMember, Fail, Receive, projectVars, tables
<1> DEFINE v == job[r].user
           u == job[r].by
<1>6. /\ pc[r] = "update" /\ pc'[r] = "over" /\ v \in Users /\ u \in Users
      /\ job[r].project \in Projects
      /\ role' = [role EXCEPT ![job[r].project][v] = job[r].role]
  BY <1>0, <1>2, <1>5 DEF UpdateMember, Over, Goto, ProjectsTypeInv, ProjectsWorking
<1>7. job[r].project = p
  BY <1>0, <1>1, <1>2, <1>6
<1>8. ASSUME u # v, r \notin demoted PROVE FALSE
  <2>1. MayAdminister(u, p)
    BY <1>6, <1>7, <1>8 DEF DemotedInv
  <2>2. role'[p][u] = role[p][u]
    BY <1>0, <1>6, <1>7, <1>8
  <2>3. u \in Admins(p)'
    BY <1>6, <2>1, <2>2 DEF MayAdminister, Admins
  <2> QED
    BY <2>3
<1> QED
  BY <1>6, <1>7, <1>8

LEMMA AdminsTyped == ProjectsSpec => []AdminInv
<1>1. ProjectsInit => AdminInv
  BY ProjectsTypeInit, DemotedInit DEF AdminInv
<1>2. AdminInv /\ [ProjectsNext]_projectVars => AdminInv'
  BY ProjectsTypeStep, DemotedStep DEF AdminInv
<1> QED
  BY <1>1, <1>2, PTL DEF ProjectsSpec

-------------------------------------------------------------------------------
(***************************************************************************)
(* Shell implements the API                                                *)
(***************************************************************************)

\* What happens in the tab is no step of the API.
LEMMA TabLeavesProjects == TabStep => UNCHANGED projectVars
  BY DEF TabStep, Follow, Go, Visit, ReadProject, ShowProject, FetchFails, Workspaces, ReadList,
         ShowList, LoadFails, Toggle, projectVars

LEMMA StepOfProjects == [Next]_vars => [ProjectsNext]_projectVars
<1> SUFFICES ASSUME [Next]_vars PROVE [ProjectsNext]_projectVars
  OBVIOUS
<1>1. CASE TabStep
  BY <1>1, TabLeavesProjects
<1>2. ASSUME NEW r \in Requests, AskElsewhere(r) PROVE ProjectsNext
  BY <1>2 DEF AskElsewhere, ProjectsNext
<1>3. ASSUME NEW r \in Requests, Serve(r) PROVE ProjectsNext
  BY <1>3 DEF Serve, ProjectsNext
<1>4. ASSUME NEW r \in Requests, Created(r) PROVE ProjectsNext
  BY <1>4 DEF Created, ProjectsNext
<1>5. ASSUME NEW r \in Requests, AnswerElsewhere(r) PROVE ProjectsNext
  BY <1>5 DEF AnswerElsewhere, ProjectsNext
<1>6. ASSUME NEW r \in Requests, AnswerLost(r) PROVE ProjectsNext
  BY <1>6 DEF AnswerLost, ProjectsNext
<1>7. ASSUME NEW r \in Requests, NEW k \in Keys, NEW n \in Names, CreateProject(r, k, n)
      PROVE  ProjectsNext
  BY <1>7, MeAssumption DEF CreateProject, ProjectsNext, Ask
<1>8. CASE UNCHANGED vars
  BY <1>8 DEF vars
<1> QED
  BY <1>1, <1>2, <1>3, <1>4, <1>5, <1>6, <1>7, <1>8 DEF Next

\* The tab is one more client of the API: whatever it does, and whatever the
\* user does in it, the tables and the requests behave as they do with any
\* other clients (components/shell and app/(app)/projects over the handlers of
\* handlers/projects.go).
THEOREM TabIsClient == Spec => ProjectsSpec
<1>1. Init => ProjectsInit
  BY DEF Init
<1> QED
  BY <1>1, StepOfProjects, PTL DEF Spec, ProjectsSpec

-------------------------------------------------------------------------------
(***************************************************************************)
(* What holds of the API whatever the tab does                              *)
(***************************************************************************)

\* CreateProject: two projects of a workspace have one key only if the count of
\* the second raced with the insertion of the first, or failed.
THEOREM KeysAreDistinct == Spec => []KeysDistinct
<1>1. ProjectsSpec => []KeysInv
  BY KeysInit, KeysStep, ProjectsTyped, PTL DEF ProjectsSpec
<1>2. KeysInv => KeysDistinct
  BY DEF KeysInv
<1> QED
  BY <1>1, <1>2, TabIsClient, PTL

\* AddProjectMember: the unique index refuses only those who raced.
THEOREM ConflictsRaced == Spec => []ConflictsAreRaces
<1>1. ProjectsSpec => []MembersInv
  BY MembersInit, MembersStep, ProjectsTyped, PTL DEF ProjectsSpec
<1>2. MembersInv => ConflictsAreRaces
  BY DEF MembersInv
<1> QED
  BY <1>1, <1>2, TabIsClient, PTL

\* AddProjectMember: a project loses its last admin by that user's own request,
\* or by one that had lost the right after the check.
THEOREM LockOutsAreKnown == Spec => LockedOutKnowingly
<1>1. ProjectsSpec => LockedOutKnowingly
  <2>1. AdminInv /\ [ProjectsNext]_projectVars =>
            [\A p \in Projects : Admins(p) # {} /\ Admins(p)' = {} =>
                \E r \in Requests :
                    /\ pc[r] = "update" /\ pc'[r] = "over" /\ job[r].project = p
                    /\ job[r].by = job[r].user \/ r \in demoted]_projectVars
    BY LastAdmin
  <2> QED
    BY <2>1, AdminsTyped, PTL DEF ProjectsSpec, LockedOutKnowingly
<1> QED
  BY <1>1, TabIsClient, PTL

-------------------------------------------------------------------------------
(***************************************************************************)
(* Sequences: what the tab does to fetches and loads                       *)
(***************************************************************************)

LEMMA Elements ==
    ASSUME NEW S, NEW s \in Seq(S)
    PROVE  Len(s) \in Nat /\ DOMAIN s = 1..Len(s) /\ \A i \in DOMAIN s : s[i] \in S
  OBVIOUS

\* One element is replaced, or every one.
LEMMA Replaced ==
    ASSUME NEW S, NEW s \in Seq(S), NEW i \in DOMAIN s, NEW x \in S
    PROVE  [s EXCEPT ![i] = x] \in Seq(S)
<1>1. i \in 1..Len(s)
  BY Elements
<1> QED
  BY <1>1, ExceptSeq

LEMMA Concatenated ==
    ASSUME NEW S, NEW a \in Seq(S), NEW b \in Seq(S)
    PROVE  /\ a \o b \in Seq(S) /\ Len(a \o b) = Len(a) + Len(b)
           /\ \A j \in 1..(Len(a) + Len(b)) :
                  (a \o b)[j] = IF j <= Len(a) THEN a[j] ELSE b[j - Len(a)]
  OBVIOUS

LEMMA Mapped ==
    ASSUME NEW S, NEW T, NEW s \in Seq(S), NEW m, m = [i \in DOMAIN s |-> m[i]],
           \A i \in DOMAIN s : m[i] \in T
    PROVE  m \in Seq(T) /\ DOMAIN m = DOMAIN s
<1>1. Len(s) \in Nat /\ DOMAIN s = 1..Len(s)
  BY Elements
<1> DEFINE n == Len(s)
<1>2. m \in [1..n -> T]
  BY <1>1
<1> HIDE DEF n
<1>3. n \in Nat
  BY <1>1 DEF n
<1>4. m \in Seq(T)
  BY <1>2, <1>3, SeqDef, Zenon
<1> QED
  BY <1>1, <1>2, <1>4 DEF n

LEMMA Appended ==
    ASSUME NEW S, NEW s \in Seq(S), NEW x \in S
    PROVE  /\ Append(s, x) \in Seq(S)
           /\ \A j \in DOMAIN Append(s, x) : Append(s, x)[j] = x \/ (j \in DOMAIN s /\ Append(s, x)[j] = s[j])
           /\ \E j \in DOMAIN Append(s, x) : Append(s, x)[j] = x
<1>1. /\ Append(s, x) \in Seq(S) /\ Len(Append(s, x)) = Len(s) + 1
      /\ \A j \in 1..Len(s) : Append(s, x)[j] = s[j]
      /\ Append(s, x)[Len(s) + 1] = x
  BY AppendProperties
<1>2. Len(s) \in Nat /\ DOMAIN s = 1..Len(s) /\ DOMAIN Append(s, x) = 1..(Len(s) + 1)
  BY <1>1, Elements
<1> QED
  BY <1>1, <1>2

\* One element is taken out: what is left are the others.
LEMMA Removed ==
    ASSUME NEW S, NEW s \in Seq(S), NEW i \in DOMAIN s
    PROVE  /\ RemoveAt(s, i) \in Seq(S)
           /\ \A j \in DOMAIN RemoveAt(s, i) : \E k \in DOMAIN s : k # i /\ RemoveAt(s, i)[j] = s[k]
           /\ \A k \in DOMAIN s : k # i => \E j \in DOMAIN RemoveAt(s, i) : RemoveAt(s, i)[j] = s[k]
<1> DEFINE front == SubSeq(s, 1, i - 1)
           back == SubSeq(s, i + 1, Len(s))
           n == Len(s)
<1>1. n \in Nat /\ i \in 1..n /\ DOMAIN s = 1..n
  BY Elements
<1>2. /\ front \in Seq(S) /\ Len(front) = i - 1
      /\ \A j \in 1..(i - 1) : front[j] = s[j]
  OBVIOUS
<1>3. /\ back \in Seq(S) /\ Len(back) = n - i
      /\ \A j \in 1..(n - i) : back[j] = s[i + j]
  OBVIOUS
<1>4. RemoveAt(s, i) = front \o back
  BY DEF RemoveAt
<1>0. front \in Seq(S) /\ back \in Seq(S)
  BY <1>2, <1>3
<1> HIDE DEF front, back
<1>5. /\ front \o back \in Seq(S) /\ Len(front \o back) = Len(front) + Len(back)
      /\ \A j \in 1..(Len(front) + Len(back)) :
             (front \o back)[j] = IF j <= Len(front) THEN front[j] ELSE back[j - Len(front)]
  BY <1>0, Concatenated, Zenon
<1> DEFINE rest == RemoveAt(s, i)
<1>6. /\ rest \in Seq(S) /\ Len(rest) = n - 1
      /\ \A j \in 1..(n - 1) : rest[j] = IF j <= i - 1 THEN front[j] ELSE back[j - (i - 1)]
  BY <1>1, <1>2, <1>3, <1>4, <1>5
<1>7. DOMAIN rest = 1..(n - 1)
  BY <1>6, Elements
<1> HIDE DEF n, rest
<1>8. ASSUME NEW j \in 1..(n - 1) PROVE rest[j] = IF j < i THEN s[j] ELSE s[j + 1]
  <2>1. CASE j < i
    BY <1>1, <1>2, <1>6, <2>1
  <2>2. CASE ~(j < i)
    <3>1. j - (i - 1) \in 1..(n - i) /\ i + (j - (i - 1)) = j + 1
      BY <1>1, <2>2
    <3>2. back[j - (i - 1)] = s[j + 1]
      BY <1>3, <3>1 DEF n
    <3> QED
      BY <1>1, <1>6, <2>2, <3>2
  <2> QED
    BY <2>1, <2>2
<1>9. ASSUME NEW j \in DOMAIN rest PROVE \E k \in DOMAIN s : k # i /\ rest[j] = s[k]
  <2>1. j \in 1..(n - 1)
    BY <1>7, <1>9
  <2>2. CASE j < i
    BY <1>1, <1>8, <2>1, <2>2
  <2>3. CASE ~(j < i)
    <3>1. j + 1 \in 1..n /\ j + 1 # i
      BY <1>1, <2>1, <2>3
    <3> QED
      BY <1>1, <1>8, <2>1, <2>3, <3>1
  <2> QED
    BY <2>2, <2>3
<1>10. ASSUME NEW k \in DOMAIN s, k # i PROVE \E j \in DOMAIN rest : rest[j] = s[k]
  <2>1. CASE k < i
    BY <1>1, <1>7, <1>8, <2>1
  <2>2. CASE ~(k < i)
    <3>1. k - 1 \in 1..(n - 1) /\ ~(k - 1 < i) /\ (k - 1) + 1 = k
      BY <1>1, <1>10, <2>2
    <3> QED
      BY <1>7, <1>8, <3>1
  <2> QED
    BY <2>1, <2>2
<1> QED
  BY <1>6, <1>9, <1>10 DEF rest

-------------------------------------------------------------------------------
(***************************************************************************)
(* The tab: types                                                          *)
(***************************************************************************)

\* A fetch whose answer was read has a name.
Fetched == {f \in Fetch : f.read => f.name \in Names}

TabTypeInv ==
    /\ watched \in WatchedSets
    /\ path \in Projects \cup {None}
    /\ named \in Entry \cup {None}
    /\ fetches \in Seq(Fetched)
    /\ workspace \in BOOLEAN
    /\ mine \subseteq Requests
    /\ open \in BOOLEAN
    /\ shown \in [Lists -> SUBSET Item]
    /\ loads \in [Lists -> Seq(Load)]
    /\ doubt \in BOOLEAN
    /\ stale \in [Lists -> SUBSET Projects]
    /\ crossed \subseteq Projects

TypeInv == ProjectsTypeInv /\ TabTypeInv

LEMMA NewFetched == ASSUME NEW p \in Projects PROVE NewFetch(p) \in Fetched
  BY DEF NewFetch, Fetched, Fetch

LEMMA NewLoaded == NewLoad \in Load
  BY DEF NewLoad, Load

\* A project that is there has a name.
LEMMA EntryTyped ==
    ASSUME ProjectsTypeInv, NEW p \in Projects, Exists(p)
    PROVE  NewEntry(p) \in Entry /\ NewItem(p) \in Item /\ project[p].name \in Names
  BY DEF ProjectsTypeInv, ProjectsTypeOK, Exists, NewEntry, Entry, NewItem, Item, Row

\* The fetches that are left behind.
LEMMA SupersededTyped ==
    ASSUME fetches \in Seq(Fetched)
    PROVE  /\ Superseded \in Seq(Fetched)
           /\ \A i \in DOMAIN Superseded : ~Current(Superseded[i])
<1>1. \A f \in Fetched : [f EXCEPT !.current = FALSE, !.old = FALSE] \in Fetched
  BY DEF Fetched, Fetch
<1>2. \A f \in Fetched : [f EXCEPT !.current = FALSE, !.old = FALSE].current = FALSE
  BY DEF Fetched, Fetch
<1>3. \A i \in DOMAIN fetches : fetches[i] \in Fetched
  BY Elements
<1>4. \A i \in DOMAIN fetches :
          Superseded[i] = [fetches[i] EXCEPT !.current = FALSE, !.old = FALSE]
  BY DEF Superseded
<1>5. \A i \in DOMAIN fetches : Superseded[i] \in Fetched
  BY <1>1, <1>3, <1>4
<1>6. Superseded = [i \in DOMAIN fetches |-> Superseded[i]]
  BY DEF Superseded
<1>7. Superseded \in Seq(Fetched) /\ DOMAIN Superseded = DOMAIN fetches
  BY <1>5, <1>6, Mapped
<1> QED
  BY <1>2, <1>3, <1>4, <1>7 DEF Current

LEMMA FetchForTyped ==
    ASSUME fetches \in Seq(Fetched), NEW to \in Projects
    PROVE  FetchFor(to) \in Seq(Fetched)
<1>1. Superseded \in Seq(Fetched) /\ NewFetch(to) \in Fetched
  BY SupersededTyped, NewFetched
<1> QED
  BY <1>1, Appended DEF FetchFor

\* A list's loads are replaced, or one of them is.
LEMMA LoadsTyped ==
    ASSUME loads \in [Lists -> Seq(Load)], NEW v \in Lists
    PROVE  /\ \A s \in Seq(Load) : [loads EXCEPT ![v] = s] \in [Lists -> Seq(Load)]
           /\ \A i \in DOMAIN loads[v] : loads[v][i] \in Load /\ RemoveAt(loads[v], i) \in Seq(Load)
           /\ \A i \in DOMAIN loads[v], l \in Load : [loads[v] EXCEPT ![i] = l] \in Seq(Load)
<1>1. loads[v] \in Seq(Load)
  OBVIOUS
<1>2. \A i \in DOMAIN loads[v] : loads[v][i] \in Load
  BY <1>1, Elements
<1>3. \A i \in DOMAIN loads[v] : RemoveAt(loads[v], i) \in Seq(Load)
  BY <1>1, Removed
<1>4. \A i \in DOMAIN loads[v], l \in Load : [loads[v] EXCEPT ![i] = l] \in Seq(Load)
  BY <1>1, Replaced
<1> QED
  BY <1>2, <1>3, <1>4

LEMMA LazyLoadTyped ==
    ASSUME NEW left \in Seq(Load), NEW isOpen, NEW list
    PROVE  LazyLoad(left, isOpen, list) \in Seq(Load)
  BY NewLoaded, Appended DEF LazyLoad

LEMMA TabTypeInit == Init => TabTypeInv
<1> SUFFICES ASSUME Init PROVE TabTypeInv
  OBVIOUS
<1>1. fetches \in Seq(Fetched)
  <2>1. path # None => <<NewFetch(path)>> \in Seq(Fetched)
    BY NewFetched DEF Init
  <2>2. <<>> \in Seq(Fetched)
    OBVIOUS
  <2> QED
    BY <2>1, <2>2 DEF Init
<1>2. loads \in [Lists -> Seq(Load)]
  <2>1. <<NewLoad>> \in Seq(Load) /\ <<>> \in Seq(Load)
    BY NewLoaded
  <2> QED
    BY <2>1 DEF Init
<1> QED
  BY <1>1, <1>2 DEF Init, TabTypeInv

LEMMA VisitTyped ==
    ASSUME TypeInv, NEW to \in Projects \cup {None}, Visit(to), open' \in BOOLEAN
    PROVE  TabTypeInv'
<1>1. path' \in Projects \cup {None} /\ watched' = watched
  BY DEF TypeInv, TabTypeInv, Visit
<1>2. named' \in Entry \cup {None} /\ fetches' \in Seq(Fetched) /\ doubt' \in BOOLEAN
  <2>1. CASE UNCHANGED sidebarVars
    BY <2>1 DEF TypeInv, TabTypeInv, sidebarVars
  <2>2. CASE doubt' = FALSE /\ named' = None /\ fetches' = Superseded
    BY <2>2, SupersededTyped DEF TypeInv, TabTypeInv
  <2>3. CASE to # None /\ doubt' = FALSE /\ named' = named /\ fetches' = FetchFor(to)
    BY <2>3, FetchForTyped DEF TypeInv, TabTypeInv
  <2> QED
    BY <2>1, <2>2, <2>3 DEF Visit, SidebarVisits
<1>3. /\ workspace' \in BOOLEAN /\ mine' \subseteq Requests
      /\ shown' \in [Lists -> SUBSET Item] /\ loads' \in [Lists -> Seq(Load)]
      /\ stale' \in [Lists -> SUBSET Projects] /\ crossed' \subseteq Projects
  <2>1. CASE UNCHANGED <<workspace, mine, listVars>>
    BY <2>1 DEF TypeInv, TabTypeInv, listVars
  <2>2. CASE ~UNCHANGED <<workspace, mine, listVars>>
    <3>1. <<NewLoad>> \in Seq(Load) /\ <<>> \in Seq(Load)
      BY NewLoaded
    <3>2. /\ workspace' = FALSE /\ mine' = {}
          /\ shown' = [shown EXCEPT !["page"] = {}]
          /\ loads' = [loads EXCEPT !["page"] = IF to = None THEN <<NewLoad>> ELSE <<>>]
          /\ stale' = [stale EXCEPT !["page"] = Projects] /\ crossed' = {}
      BY <2>2 DEF Visit, PageVisits
    <3>3. loads' \in [Lists -> Seq(Load)]
      BY <3>1, <3>2, LoadsTyped DEF TypeInv, TabTypeInv, Lists
    <3> QED
      BY <3>2, <3>3 DEF TypeInv, TabTypeInv
  <2> QED
    BY <2>1, <2>2
<1> QED
  BY <1>1, <1>2, <1>3 DEF TypeInv, TabTypeInv

\* What a step of a list does to its loads.
LEMMA ListStepTyped ==
    ASSUME TypeInv, NEW v \in Lists, NEW i \in DOMAIN loads[v],
           Workspaces(v, i) \/ ReadList(v, i) \/ ShowList(v, i) \/ LoadFails(v, i)
    PROVE  TabTypeInv'
<1> DEFINE l == loads[v][i]
<1>0. loads \in [Lists -> Seq(Load)] /\ l \in Load /\ RemoveAt(loads[v], i) \in Seq(Load)
  BY LoadsTyped DEF TypeInv, TabTypeInv
<1>1. CASE Workspaces(v, i)
  <2>1. [l EXCEPT !.stage = "projects"] \in Load
    BY <1>0 DEF Load
  <2>2. loads' = [loads EXCEPT ![v] = [loads[v] EXCEPT ![i] = [l EXCEPT !.stage = "projects"]]]
    BY <1>1 DEF Workspaces
  <2> HIDE DEF l
  <2>3. loads' \in [Lists -> Seq(Load)]
    BY <1>0, <2>1, <2>2, LoadsTyped
  <2> QED
    BY <1>1, <2>3 DEF Workspaces, TypeInv, TabTypeInv, sidebarVars
<1>2. CASE ReadList(v, i)
  <2> DEFINE es == {NewItem(p) : p \in {q \in Projects : Mine(q)}}
             new == [l EXCEPT !.stage = "read", !.entries = es]
  <2>1. es \subseteq Item
    BY EntryTyped DEF Mine, TypeInv
  <2>2. new \in Load
    BY <1>0, <2>1 DEF Load
  <2>3. loads' = [loads EXCEPT ![v] = [loads[v] EXCEPT ![i] = new]]
    BY <1>2 DEF ReadList
  <2> HIDE DEF l, es, new
  <2>4. loads' \in [Lists -> Seq(Load)]
    BY <1>0, <2>2, <2>3, LoadsTyped
  <2> QED
    BY <1>2, <2>4 DEF ReadList, TypeInv, TabTypeInv, sidebarVars
<1>3. CASE ShowList(v, i)
  <2>1. l.entries \subseteq Item /\ l.old \subseteq Projects
    BY <1>0 DEF Load
  <2>2. \E s \in Seq(Load) : loads' = [loads EXCEPT ![v] = s]
    BY <1>0, <1>3, LazyLoadTyped DEF ShowList
  <2>3. loads' \in [Lists -> Seq(Load)]
    BY <1>0, <2>2, LoadsTyped
  <2>4. shown' = [shown EXCEPT ![v] = l.entries] /\ stale' = [stale EXCEPT ![v] = l.old]
    BY <1>3 DEF ShowList
  <2>5. crossed' \subseteq Projects
    <3>1. Ids(shown[v]) \subseteq Projects
      BY DEF Ids, Item, TypeInv, TabTypeInv
    <3>2. Awaited \subseteq Projects
      BY DEF Awaited, TypeInv, TabTypeInv, ProjectsTypeInv, ProjectsWorking
    <3> HIDE DEF l
    <3> QED
      BY <1>3, <3>1, <3>2 DEF ShowList, TypeInv, TabTypeInv
  <2> HIDE DEF l
  <2> QED
    BY <1>3, <2>1, <2>3, <2>4, <2>5 DEF ShowList, TypeInv, TabTypeInv, sidebarVars
<1>4. CASE LoadFails(v, i)
  <2>1. loads' = [loads EXCEPT ![v] = RemoveAt(loads[v], i)]
    BY <1>0, <1>4 DEF LoadFails
  <2>2. loads' \in [Lists -> Seq(Load)]
    BY <1>0, <2>1, LoadsTyped
  <2> QED
    BY <1>4, <2>2 DEF LoadFails, TypeInv, TabTypeInv, sidebarVars
<1> QED
  BY <1>1, <1>2, <1>3, <1>4

LEMMA SidebarStepTyped ==
    ASSUME TypeInv, NEW i \in DOMAIN fetches,
           ReadProject(i) \/ ShowProject(i) \/ FetchFails(i)
    PROVE  TabTypeInv'
<1> DEFINE f == fetches[i]
<1>0. /\ fetches \in Seq(Fetched) /\ f \in Fetched /\ f.project \in Projects
      /\ RemoveAt(fetches, i) \in Seq(Fetched)
  <2>1. fetches \in Seq(Fetched)
    BY DEF TypeInv, TabTypeInv
  <2>2. f \in Fetched
    BY <2>1, Elements
  <2>3. f.project \in Projects
    BY <2>2 DEF Fetched, Fetch
  <2> QED
    BY <2>1, <2>2, <2>3, Removed
<1>1. CASE ReadProject(i)
  <2> DEFINE new == [f EXCEPT !.read = TRUE, !.name = project[f.project].name]
  <2>1. role[f.project][Me] # None
    BY <1>1 DEF ReadProject
  <2>2. Exists(f.project)
    BY <1>0, <2>1, MeAssumption DEF TypeInv, ProjectsTypeInv, ProjectsTypeOK, NoOrphans
  <2>3. project[f.project].name \in Names
    BY <1>0, <2>2, EntryTyped DEF TypeInv
  <2>4. new \in Fetched
    BY <1>0, <2>3 DEF Fetched, Fetch
  <2>5. fetches' = [fetches EXCEPT ![i] = new]
    BY <1>1 DEF ReadProject
  <2> HIDE DEF new
  <2>6. fetches' \in Seq(Fetched)
    BY <1>0, <2>4, <2>5, Replaced
  <2> QED
    BY <1>1, <2>6 DEF ReadProject, TypeInv, TabTypeInv, listVars
<1>2. CASE ShowProject(i)
  <2>1. f.read
    BY <1>2 DEF ShowProject
  <2>2. [id |-> f.project, name |-> f.name] \in Entry
    BY <1>0, <2>1 DEF Fetched, Entry
  <2>3. (IF Current(f) THEN f.old ELSE ~Waiting) \in BOOLEAN
    BY <1>0 DEF Fetched, Fetch, Waiting
  <2> QED
    BY <1>0, <1>2, <2>2, <2>3 DEF ShowProject, TypeInv, TabTypeInv, listVars
<1>3. CASE FetchFails(i)
  <2>1. Current(f) \in BOOLEAN
    BY <1>0 DEF Fetched, Fetch, Current
  <2> QED
    BY <1>0, <1>3, <2>1 DEF FetchFails, TypeInv, TabTypeInv, listVars
<1> QED
  BY <1>1, <1>2, <1>3

\* What the history variables note of a change, one fetch and one load at a time.
LEMMA NoticedFetches ==
    ASSUME TypeInv, NEW ps, NEW told, Noticed(ps, told)
    PROVE  /\ fetches' \in Seq(Fetched) /\ DOMAIN fetches' = DOMAIN fetches
           /\ \A i \in DOMAIN fetches :
                  /\ fetches'[i].project = fetches[i].project /\ fetches'[i].name = fetches[i].name
                  /\ fetches'[i].current = fetches[i].current /\ fetches'[i].read = fetches[i].read
                  /\ fetches'[i].old = \/ fetches[i].old
                                       \/ /\ fetches[i].read /\ fetches[i].current
                                          /\ fetches[i].project \in ps
<1> DEFINE hit(f) == f.read /\ Current(f) /\ f.project \in ps
<1>1. \A i \in DOMAIN fetches : fetches[i] \in Fetched
  BY Elements DEF TypeInv, TabTypeInv
<1>2. \A f \in Fetched : LET g == [f EXCEPT !.old = TRUE] IN
          /\ g \in Fetched /\ g.project = f.project /\ g.name = f.name /\ g.current = f.current
          /\ g.read = f.read /\ g.old = TRUE
  BY DEF Fetched, Fetch
<1>3. fetches' = [i \in DOMAIN fetches |->
                     IF hit(fetches[i]) THEN [fetches[i] EXCEPT !.old = TRUE] ELSE fetches[i]]
  BY DEF Noticed
<1>4. \A i \in DOMAIN fetches :
          fetches'[i] = IF hit(fetches[i]) THEN [fetches[i] EXCEPT !.old = TRUE] ELSE fetches[i]
  BY <1>3
<1>5. \A i \in DOMAIN fetches : fetches'[i] \in Fetched
  BY <1>1, <1>2, <1>4
<1>6. fetches' = [i \in DOMAIN fetches |-> fetches'[i]]
  BY <1>3
<1>7. fetches' \in Seq(Fetched) /\ DOMAIN fetches' = DOMAIN fetches
  BY <1>5, <1>6, Mapped DEF TypeInv, TabTypeInv
<1>8. ASSUME NEW i \in DOMAIN fetches
      PROVE  /\ fetches'[i].project = fetches[i].project /\ fetches'[i].name = fetches[i].name
             /\ fetches'[i].current = fetches[i].current /\ fetches'[i].read = fetches[i].read
             /\ fetches'[i].old = \/ fetches[i].old
                                  \/ /\ fetches[i].read /\ fetches[i].current
                                     /\ fetches[i].project \in ps
  <2>1. fetches[i] \in Fetched /\ fetches[i].old \in BOOLEAN
    BY <1>1 DEF Fetched, Fetch
  <2>2. CASE hit(fetches[i])
    BY <1>2, <1>4, <2>1, <2>2 DEF Current
  <2>3. CASE ~hit(fetches[i])
    BY <1>4, <2>1, <2>3 DEF Current
  <2> QED
    BY <2>2, <2>3
<1> QED
  BY <1>7, <1>8

\* The loads that were read note what they have missed, and nothing else.
LEMMA OutdatedLoads ==
    ASSUME TypeInv, NEW ps \in SUBSET Projects, NEW v \in Lists
    PROVE  /\ Outdated(v, ps) \in Seq(Load) /\ DOMAIN Outdated(v, ps) = DOMAIN loads[v]
           /\ \A i \in DOMAIN loads[v] :
                  /\ Outdated(v, ps)[i].stage = loads[v][i].stage
                  /\ Outdated(v, ps)[i].entries = loads[v][i].entries
                  /\ loads[v][i].stage = "read" => Outdated(v, ps)[i].old = loads[v][i].old \cup ps
<1>1. \A l \in Load : LET m == [l EXCEPT !.old = @ \cup ps] IN
          /\ m \in Load /\ m.stage = l.stage /\ m.entries = l.entries /\ m.old = l.old \cup ps
  BY DEF Load
<1>2. loads[v] \in Seq(Load)
  BY DEF TypeInv, TabTypeInv
<1>3. \A i \in DOMAIN loads[v] : loads[v][i] \in Load
  BY <1>2, Elements
<1>4. PICK new : new = Outdated(v, ps)
  OBVIOUS
<1>5. new = [i \in DOMAIN loads[v] |->
                IF loads[v][i].stage = "read" THEN [loads[v][i] EXCEPT !.old = @ \cup ps]
                ELSE loads[v][i]]
  BY <1>4 DEF Outdated
<1>6. \A i \in DOMAIN loads[v] :
          new[i] = IF loads[v][i].stage = "read" THEN [loads[v][i] EXCEPT !.old = @ \cup ps]
                   ELSE loads[v][i]
  BY <1>5
<1>7. \A i \in DOMAIN loads[v] : new[i] \in Load
  BY <1>1, <1>3, <1>6
<1>8. new = [i \in DOMAIN loads[v] |-> new[i]]
  BY <1>5
<1>9. new \in Seq(Load) /\ DOMAIN new = DOMAIN loads[v]
  BY <1>2, <1>7, <1>8, Mapped
<1>10. ASSUME NEW i \in DOMAIN loads[v]
       PROVE  /\ new[i].stage = loads[v][i].stage
              /\ new[i].entries = loads[v][i].entries
              /\ loads[v][i].stage = "read" => new[i].old = loads[v][i].old \cup ps
  BY <1>1, <1>3, <1>6
<1> QED
  BY <1>4, <1>9, <1>10

LEMMA NoticedLoads ==
    ASSUME TypeInv, NEW ps \in SUBSET Projects, NEW told, Noticed(ps, told)
    PROVE  /\ loads' \in [Lists -> Seq(Load)]
           /\ \A v \in Lists :
                  loads'[v] = IF v = "page" /\ told THEN loads[v] ELSE Outdated(v, ps)
<1>1. \A v \in Lists : loads[v] \in Seq(Load) /\ Outdated(v, ps) \in Seq(Load)
  BY OutdatedLoads DEF TypeInv, TabTypeInv
<1> QED
  BY <1>1 DEF Noticed

\* What a request changes that the tab did not make.
ChangedBy == {p \in Projects : project'[p] # project[p] \/ role'[p][Me] # role[p][Me]}

LEMMA TabTypeStep == TypeInv /\ [Next]_vars => TabTypeInv'
<1> SUFFICES ASSUME TypeInv, [Next]_vars PROVE TabTypeInv'
  OBVIOUS
<1>1. ASSUME NEW to \in Projects \cup {None}, Follow(to) PROVE TabTypeInv'
  BY <1>1, VisitTyped DEF Follow, TypeInv, TabTypeInv
<1>2. ASSUME NEW to \in Projects \cup {None}, Go(to) PROVE TabTypeInv'
  BY <1>2, VisitTyped DEF Go
<1>3. ASSUME NEW i \in DOMAIN fetches, ReadProject(i) \/ ShowProject(i) \/ FetchFails(i)
      PROVE  TabTypeInv'
  BY <1>3, SidebarStepTyped
<1>4. ASSUME NEW v \in Lists, NEW i \in DOMAIN loads[v],
             Workspaces(v, i) \/ ReadList(v, i) \/ ShowList(v, i) \/ LoadFails(v, i)
      PROVE  TabTypeInv'
  BY <1>4, ListStepTyped
<1>5. CASE Toggle
  <2>1. "palette" \in Lists /\ loads["palette"] \in Seq(Load)
    BY DEF Lists, TypeInv, TabTypeInv
  <2>2. loads' = [loads EXCEPT !["palette"] = LazyLoad(loads["palette"], ~open, shown["palette"])]
    BY <1>5, <2>1 DEF Toggle, TypeInv, TabTypeInv
  <2>3. loads' \in [Lists -> Seq(Load)]
    BY <2>1, <2>2, LazyLoadTyped, LoadsTyped DEF TypeInv, TabTypeInv
  <2> QED
    BY <1>5, <2>3 DEF Toggle, TypeInv, TabTypeInv, sidebarVars
<1>6. ASSUME NEW r \in Requests, AskElsewhere(r) PROVE TabTypeInv'
  BY <1>6 DEF AskElsewhere, shellVars, sidebarVars, listVars, TypeInv, TabTypeInv
<1>7. ASSUME NEW r \in Requests, Serve(r) PROVE TabTypeInv'
  <2>1. Noticed(ChangedBy, r \in mine) /\ ChangedBy \in SUBSET Projects
    BY <1>7 DEF Serve, ChangedBy
  <2> HIDE DEF ChangedBy
  <2>2. fetches' \in Seq(Fetched)
    BY <2>1, NoticedFetches
  <2>3. loads' \in [Lists -> Seq(Load)]
    BY <2>1, NoticedLoads
  <2>4. doubt' \in BOOLEAN /\ stale' \in [Lists -> SUBSET Projects]
    BY <2>1 DEF Noticed, TypeInv, TabTypeInv
  <2> QED
    BY <1>7, <2>2, <2>3, <2>4 DEF Serve, TypeInv, TabTypeInv
<1>8. ASSUME NEW r \in Requests, Created(r) PROVE TabTypeInv'
  <2> DEFINE p == job[r].project
             n == job[r].name
             e == [id |-> p, name |-> n, double |-> p \in Ids(shown["page"])]
  <2>1. pc[r] = "answered"
    BY <1>8 DEF Created, Receive
  <2>2. p \in Projects /\ n \in Names
    BY <2>1 DEF TypeInv, ProjectsTypeInv, ProjectsWorking
  <2>3. e \in Item
    BY <2>2 DEF Item
  <2>4. /\ shown' = [shown EXCEPT !["page"] = @ \cup {e}]
        /\ stale' = [stale EXCEPT !["page"] = @ \cup {q \in {p} : project[p].name # n}]
    BY <1>8 DEF Created, Joined, TypeInv, TabTypeInv
  <2> HIDE DEF p, n, e
  <2>5. shown' \in [Lists -> SUBSET Item] /\ stale' \in [Lists -> SUBSET Projects]
    BY <2>2, <2>3, <2>4 DEF TypeInv, TabTypeInv, Lists
  <2> QED
    BY <1>8, <2>5 DEF Created, TypeInv, TabTypeInv, sidebarVars
<1>9. ASSUME NEW r \in Requests, AnswerElsewhere(r) PROVE TabTypeInv'
  BY <1>9 DEF AnswerElsewhere, shellVars, sidebarVars, listVars, TypeInv, TabTypeInv
<1>10. ASSUME NEW r \in Requests, AnswerLost(r) PROVE TabTypeInv'
  <2>1. PICK p : p = job[r].project
    OBVIOUS
  <2>2. p \in Projects
    BY <1>10, <2>1 DEF AnswerLost, Receive, TypeInv, ProjectsTypeInv, ProjectsWorking
  <2>3. /\ stale' = [stale EXCEPT !["page"] = @ \cup {p}]
        /\ loads' = [loads EXCEPT !["page"] = Outdated("page", {p})]
    BY <1>10, <2>1 DEF AnswerLost
  <2>4. "page" \in Lists /\ Outdated("page", {p}) \in Seq(Load)
    BY <2>2, OutdatedLoads DEF Lists
  <2>5. stale' \in [Lists -> SUBSET Projects] /\ loads' \in [Lists -> Seq(Load)]
    BY <2>2, <2>3, <2>4 DEF TypeInv, TabTypeInv
  <2> QED
    BY <1>10, <2>5 DEF AnswerLost, TypeInv, TabTypeInv, sidebarVars
<1>11. ASSUME NEW r \in Requests, NEW k \in Keys, NEW n \in Names, CreateProject(r, k, n)
       PROVE  TabTypeInv'
  BY <1>11 DEF CreateProject, TypeInv, TabTypeInv, sidebarVars, listVars
<1>12. CASE UNCHANGED vars
  BY <1>12 DEF vars, shellVars, sidebarVars, listVars, TypeInv, TabTypeInv
<1> QED
  BY <1>1, <1>2, <1>3, <1>4, <1>5, <1>6, <1>7, <1>8, <1>9, <1>10, <1>11, <1>12
     DEF Next, TabStep

LEMMA Typed == Spec => []TypeInv
<1>1. Init => TypeInv
  BY ProjectsTypeInit, TabTypeInit DEF Init, TypeInv
<1>2. TypeInv /\ [Next]_vars => TypeInv'
  BY ProjectsTypeStep, StepOfProjects, TabTypeStep DEF TypeInv
<1> QED
  BY <1>1, <1>2, PTL DEF Spec

\* Every project has a member, whatever fetch, load or request comes in between
\* ("Create the project and the owner membership atomically"), and what the tab
\* shows are names that were read: the type invariant.
THEOREM TypeCorrect == Spec => []TypeOK
<1>1. TypeInv => TypeOK
  <2> SUFFICES ASSUME TypeInv PROVE TypeOK
    OBVIOUS
  <2>1. \A i \in DOMAIN fetches : fetches[i] \in Fetch
    BY Elements DEF TypeInv, TabTypeInv, Fetched
  <2>2. \A v \in Lists : \A i \in DOMAIN loads[v] : loads[v][i] \in Load
    BY LoadsTyped DEF TypeInv, TabTypeInv
  <2> QED
    BY <2>1, <2>2 DEF TypeInv, ProjectsTypeInv, TabTypeInv, TypeOK
<1> QED
  BY <1>1, Typed, PTL

-------------------------------------------------------------------------------
(***************************************************************************)
(* The sidebar                                                             *)
(***************************************************************************)

\* A fetch that is not superseded is for the path, and what it has read is
\* true unless it is old; with none on its way the sidebar tells the path, or is
\* in doubt.
SidebarInv ==
    "sidebar" \in watched =>
        /\ \A i \in DOMAIN fetches : fetches[i].current =>
               /\ path # None /\ fetches[i].project = path
               /\ fetches[i].read /\ ~fetches[i].old => fetches[i].name = project[path].name
        /\ path # None /\ ~Waiting /\ ~doubt => named = NewEntry(path)

\* What no step disturbs that leaves the sidebar and the projects alone.
LEMMA SidebarStands ==
    ASSUME SidebarInv, watched' = watched, path' = path, fetches' = fetches, named' = named,
           doubt' = doubt, project' = project
    PROVE  SidebarInv'
  BY DEF SidebarInv, Waiting, Current, NewEntry

\* A step of the API from outside the tab, or of the tab's other parts.
LEMMA SidebarRest ==
    ASSUME SidebarInv, sidebarVars' = sidebarVars, watched' = watched, path' = path,
           project' = project
    PROVE  SidebarInv'
  BY SidebarStands DEF sidebarVars

LEMMA SidebarInit == Init => SidebarInv
<1> SUFFICES ASSUME Init, "sidebar" \in watched PROVE SidebarInv
  BY DEF SidebarInv
<1>1. CASE path = None
  BY <1>1 DEF Init, SidebarInv
<1>2. CASE path # None
  <2>1. fetches = <<NewFetch(path)>> /\ DOMAIN fetches = {1} /\ fetches[1] = NewFetch(path)
    BY <1>2 DEF Init
  <2>2. Waiting
    BY <2>1 DEF Waiting, Current, NewFetch
  <2> QED
    BY <1>2, <2>1, <2>2 DEF SidebarInv, NewFetch
<1> QED
  BY <1>1, <1>2

LEMMA SidebarVisit ==
    ASSUME TypeInv, SidebarInv, NEW to \in Projects \cup {None}, Visit(to)
    PROVE  SidebarInv'
<1> SUFFICES ASSUME "sidebar" \in watched PROVE SidebarInv'
  BY DEF SidebarInv, Visit
<1>1. path' = to /\ project' = project /\ watched' = watched
  <2>1. PathMatters
    BY DEF PathMatters
  <2> QED
    BY <2>1 DEF Visit, projectVars, tables
<1>2. CASE to = path
  <2>1. UNCHANGED sidebarVars
    BY <1>2 DEF Visit, SidebarVisits
  <2> QED
    BY <1>1, <1>2, <2>1, SidebarRest
<1>3. CASE to # path /\ to = None
  <2>1. fetches' = Superseded
    BY <1>3 DEF Visit, SidebarVisits
  <2>2. \A i \in DOMAIN fetches' : ~fetches'[i].current
    BY <2>1, SupersededTyped DEF TypeInv, TabTypeInv, Current
  <2> QED
    BY <1>1, <1>3, <2>2 DEF SidebarInv
<1>4. CASE to # path /\ to # None
  <2>1. fetches' = Append(Superseded, NewFetch(to))
    BY <1>4 DEF Visit, SidebarVisits, FetchFor
  <2>2. /\ Superseded \in Seq(Fetched) /\ NewFetch(to) \in Fetched
        /\ \A i \in DOMAIN Superseded : ~Superseded[i].current
    BY <1>4, SupersededTyped, NewFetched DEF TypeInv, TabTypeInv, Current
  <2>3. /\ \A j \in DOMAIN fetches' :
              fetches'[j] = NewFetch(to) \/ (j \in DOMAIN Superseded /\ fetches'[j] = Superseded[j])
        /\ \E j \in DOMAIN fetches' : fetches'[j] = NewFetch(to)
    BY <2>1, <2>2, Appended
  <2>4. /\ NewFetch(to).current /\ NewFetch(to).project = to /\ ~NewFetch(to).read
    BY DEF NewFetch
  <2>5. \A j \in DOMAIN fetches' : fetches'[j].current => fetches'[j] = NewFetch(to)
    BY <2>2, <2>3
  <2>6. Waiting'
    BY <2>3, <2>4 DEF Waiting, Current
  <2> QED
    BY <1>1, <1>4, <2>4, <2>5, <2>6 DEF SidebarInv
<1> QED
  BY <1>2, <1>3, <1>4

LEMMA SidebarFetch ==
    ASSUME TypeInv, SidebarInv, NEW i \in DOMAIN fetches,
           ReadProject(i) \/ ShowProject(i) \/ FetchFails(i)
    PROVE  SidebarInv'
<1> SUFFICES ASSUME "sidebar" \in watched PROVE SidebarInv'
  BY DEF SidebarInv, ReadProject, ShowProject, FetchFails
<1> DEFINE f == fetches[i]
<1>0. /\ fetches \in Seq(Fetched) /\ f \in Fetched /\ f.project \in Projects
      /\ project' = project /\ path' = path /\ watched' = watched
      /\ f.current \in BOOLEAN /\ f.old \in BOOLEAN
  <2>1. fetches \in Seq(Fetched)
    BY DEF TypeInv, TabTypeInv
  <2>2. f \in Fetched
    BY <2>1, Elements
  <2> QED
    BY <2>1, <2>2
       DEF Fetched, Fetch, ReadProject, ShowProject, FetchFails, projectVars, tables
<1>1. CASE ReadProject(i)
  <2> DEFINE new == [f EXCEPT !.read = TRUE, !.name = project[f.project].name]
  <2>1. /\ new.current = f.current /\ new.project = f.project
        /\ new.name = project[f.project].name
    BY <1>0 DEF Fetched, Fetch
  <2>2. fetches' = [fetches EXCEPT ![i] = new]
    BY <1>1 DEF ReadProject
  <2>3. named' = named /\ doubt' = doubt
    BY <1>1 DEF ReadProject
  <2> HIDE DEF new, f
  <2>4. /\ DOMAIN fetches' = DOMAIN fetches /\ fetches'[i] = new
        /\ \A j \in DOMAIN fetches : j # i => fetches'[j] = fetches[j]
    BY <2>2
  <2>5. Waiting' <=> Waiting
    BY <2>1, <2>4 DEF Waiting, Current, f
  <2> QED
    BY <1>0, <2>1, <2>3, <2>4, <2>5 DEF SidebarInv, NewEntry, f
<1>2. ASSUME fetches' = RemoveAt(fetches, i)
      PROVE  /\ \A j \in DOMAIN fetches' : fetches'[j].current =>
                    /\ path # None /\ fetches'[j].project = path
                    /\ fetches'[j].read /\ ~fetches'[j].old => fetches'[j].name = project[path].name
             /\ Waiting /\ ~f.current => Waiting'
  <2>1. /\ \A j \in DOMAIN fetches' : \E k \in DOMAIN fetches : fetches'[j] = fetches[k]
        /\ \A k \in DOMAIN fetches : k # i => \E j \in DOMAIN fetches' : fetches'[j] = fetches[k]
    BY <1>0, <1>2, Removed
  <2>2. Waiting /\ ~f.current => Waiting'
    BY <2>1 DEF Waiting, Current
  <2> QED
    BY <2>1, <2>2 DEF SidebarInv
<1>3. CASE ShowProject(i)
  <2>1. /\ fetches' = RemoveAt(fetches, i) /\ f.read
        /\ named' = [id |-> f.project, name |-> f.name]
        /\ doubt' = IF f.current THEN f.old ELSE ~Waiting
    BY <1>3 DEF ShowProject, Current
  <2>2. path # None /\ ~Waiting' /\ ~doubt' => named' = NewEntry(path)
    <3> SUFFICES ASSUME path # None, ~Waiting', ~doubt' PROVE named' = NewEntry(path)
      OBVIOUS
    <3>1. f.current
      BY <1>0, <1>2, <2>1
    <3>2. ~f.old
      BY <2>1, <3>1
    <3>3. f.project = path /\ f.name = project[path].name
      BY <2>1, <3>1, <3>2 DEF SidebarInv
    <3> QED
      BY <2>1, <3>3 DEF NewEntry
  <2> QED
    BY <1>0, <1>2, <2>1, <2>2 DEF SidebarInv, NewEntry
<1>4. CASE FetchFails(i)
  <2>1. /\ fetches' = RemoveAt(fetches, i) /\ named' = named
        /\ doubt' = (doubt \/ f.current)
    BY <1>4 DEF FetchFails, Current
  <2>2. path # None /\ ~Waiting' /\ ~doubt' => named' = NewEntry(path)
    <3> SUFFICES ASSUME path # None, ~Waiting', ~doubt' PROVE named' = NewEntry(path)
      OBVIOUS
    <3>1. ~doubt /\ ~f.current
      BY <2>1
    <3>2. ~Waiting
      BY <1>2, <2>1, <3>1
    <3> QED
      BY <2>1, <3>1, <3>2 DEF SidebarInv
  <2> QED
    BY <1>0, <1>2, <2>1, <2>2 DEF SidebarInv, NewEntry
<1> QED
  BY <1>1, <1>3, <1>4

\* A request of whomever changes the project of the path only if the fetch that
\* has read it, or else the sidebar, notes it.
LEMMA SidebarServe ==
    ASSUME TypeInv, SidebarInv, NEW r \in Requests, Serve(r)
    PROVE  SidebarInv'
<1> SUFFICES ASSUME "sidebar" \in watched PROVE SidebarInv'
  BY DEF SidebarInv, Serve
<1>1. /\ Noticed(ChangedBy, r \in mine) /\ watched' = watched /\ path' = path /\ named' = named
      /\ path # None /\ path \notin ChangedBy => project'[path] = project[path]
      /\ doubt' = (doubt \/ (path \in ChangedBy /\ ~Waiting))
  BY DEF Serve, ChangedBy, Noticed, TypeInv, TabTypeInv
<1> HIDE DEF ChangedBy
<1>2. /\ DOMAIN fetches' = DOMAIN fetches
      /\ \A i \in DOMAIN fetches :
             /\ fetches'[i].project = fetches[i].project /\ fetches'[i].name = fetches[i].name
             /\ fetches'[i].current = fetches[i].current /\ fetches'[i].read = fetches[i].read
             /\ fetches'[i].old = \/ fetches[i].old
                                  \/ /\ fetches[i].read /\ fetches[i].current
                                     /\ fetches[i].project \in ChangedBy
  BY <1>1, NoticedFetches
<1>3. Waiting' <=> Waiting
  BY <1>2 DEF Waiting, Current
<1>4. ASSUME NEW i \in DOMAIN fetches', fetches'[i].current
      PROVE  /\ path # None /\ fetches'[i].project = path
             /\ fetches'[i].read /\ ~fetches'[i].old => fetches'[i].name = project'[path].name
  <2>1. i \in DOMAIN fetches /\ fetches[i].current
    BY <1>2, <1>4
  <2>2. path # None /\ fetches[i].project = path
    BY <2>1 DEF SidebarInv
  <2>3. ASSUME fetches'[i].read, ~fetches'[i].old PROVE fetches'[i].name = project'[path].name
    <3>1. fetches[i].read /\ ~fetches[i].old /\ path \notin ChangedBy
      BY <1>2, <2>1, <2>2, <2>3
    <3>2. fetches[i].name = project[path].name
      BY <2>1, <3>1 DEF SidebarInv
    <3> QED
      BY <1>1, <1>2, <2>1, <2>2, <3>1, <3>2
  <2> QED
    BY <1>2, <2>1, <2>2, <2>3
<1>5. ASSUME path # None, ~Waiting', ~doubt' PROVE named' = NewEntry(path)'
  <2>1. ~Waiting /\ ~doubt /\ path \notin ChangedBy
    BY <1>1, <1>3, <1>5
  <2>2. named = NewEntry(path)
    BY <1>5, <2>1 DEF SidebarInv
  <2> QED
    BY <1>1, <1>5, <2>1, <2>2 DEF NewEntry
<1> QED
  BY <1>1, <1>4, <1>5 DEF SidebarInv

LEMMA SidebarStep == TypeInv /\ SidebarInv /\ [Next]_vars => SidebarInv'
<1> SUFFICES ASSUME TypeInv, SidebarInv, [Next]_vars PROVE SidebarInv'
  OBVIOUS
<1>1. ASSUME NEW to \in Projects \cup {None}, Follow(to) \/ Go(to) PROVE SidebarInv'
  BY <1>1, SidebarVisit DEF Follow, Go
<1>2. ASSUME NEW i \in DOMAIN fetches, ReadProject(i) \/ ShowProject(i) \/ FetchFails(i)
      PROVE  SidebarInv'
  BY <1>2, SidebarFetch
<1>3. ASSUME NEW v \in Lists, NEW i \in DOMAIN loads[v],
             Workspaces(v, i) \/ ReadList(v, i) \/ ShowList(v, i) \/ LoadFails(v, i)
      PROVE  SidebarInv'
  BY <1>3, SidebarRest DEF Workspaces, ReadList, ShowList, LoadFails, projectVars, tables
<1>4. CASE Toggle
  BY <1>4, SidebarRest DEF Toggle, projectVars, tables
<1>5. ASSUME NEW r \in Requests, AskElsewhere(r) PROVE SidebarInv'
  BY <1>5, SidebarRest
     DEF AskElsewhere, Ask, CountKey, CheckRename, CheckMember, LetThrough, tables, shellVars
<1>6. ASSUME NEW r \in Requests, Serve(r) PROVE SidebarInv'
  BY <1>6, SidebarServe
<1>7. ASSUME NEW r \in Requests, Created(r) PROVE SidebarInv'
  BY <1>7, SidebarRest DEF Created, Receive, tables
<1>8. ASSUME NEW r \in Requests, AnswerElsewhere(r) \/ AnswerLost(r) PROVE SidebarInv'
  BY <1>8, SidebarRest DEF AnswerElsewhere, AnswerLost, Receive, tables, shellVars
<1>9. ASSUME NEW r \in Requests, NEW k \in Keys, NEW n \in Names, CreateProject(r, k, n)
      PROVE  SidebarInv'
  BY <1>9, SidebarRest DEF CreateProject, CountKey, LetThrough, tables
<1>10. CASE UNCHANGED vars
  BY <1>10, SidebarRest DEF vars, shellVars, projectVars, tables
<1> QED
  BY <1>1, <1>2, <1>3, <1>4, <1>5, <1>6, <1>7, <1>8, <1>9, <1>10 DEF Next, TabStep

\* components/shell/sidebar.tsx: however the answers to its fetches cross, the
\* sidebar that waits for nothing names the project of the path, but for the
\* doubts that are listed.
THEOREM SidebarIsRight == Spec => []SidebarTellsProject
<1>1. Spec => []SidebarInv
  BY SidebarInit, SidebarStep, Typed, PTL DEF Spec
<1>2. SidebarInv => SidebarTellsProject
  BY DEF SidebarInv, SidebarTellsProject
<1> QED
  BY <1>1, <1>2, PTL

-------------------------------------------------------------------------------
(***************************************************************************)
(* The lists                                                               *)
(***************************************************************************)

\* A list tells nothing false of a project.
Tells(list, p) == \A e \in list : e.id = p => Mine(p) /\ e.name = project[p].name

\* The answer that will bring a project to the page is on its way.
Coming(p) == \E r \in mine : pc[r] = "answered" /\ job[r].project = p

\* The requests of the page are creations by its user, one at a time, and what
\* they have created is the user's.
MineInv ==
    /\ \A r \in mine :
           /\ pc[r] \in {"insert", "answered", "over"}
           /\ pc[r] \in {"insert", "answered"} => job[r].by = Me
           /\ pc[r] = "answered" => Mine(job[r].project)
    /\ \A r, q \in mine : InFlight(r) /\ InFlight(q) => r = q

\* A load of list v has read what is true, but for what has changed since.  A
\* project the page created meanwhile may be missing: it is listed, or to come.
Knows(v, l) ==
    /\ \A e \in l.entries : Exists(e.id) /\ e.double = FALSE
    /\ \A p \in Projects \ l.old :
           /\ Tells(l.entries, p)
           /\ Mine(p) => \/ p \in Ids(l.entries)
                         \/ v = "page" /\ (Coming(p) \/ p \in Ids(shown["page"]))

LoadsInv ==
    /\ \A i, j \in DOMAIN loads["page"] : i = j
    /\ \A v \in Lists : \A i \in DOMAIN loads[v] :
           loads[v][i].stage = "read" => Knows(v, loads[v][i])

\* What list v shows of a project is true, and one that is the user's is shown,
\* to come, or was crossed.
Right(v, p) ==
    /\ Tells(shown[v], p)
    /\ Mine(p) => \/ p \in Ids(shown[v])
                  \/ v = "page" /\ (Coming(p) \/ p \in crossed)

ShownInv == \A v \in Lists : \A p \in Projects \ stale[v] : Right(v, p)

\* Only what was crossed is listed twice, or will be.
OnceInv ==
    /\ \A v \in Lists : \A e \in shown[v] :
           /\ Exists(e.id)
           /\ (v = "page" /\ e.id \in crossed) \/ e.double = FALSE
    /\ \A p \in Projects \ crossed : Coming(p) => p \notin Ids(shown["page"])

ListInv == MineInv /\ LoadsInv /\ ShownInv /\ OnceInv

LEMMA ListInit == Init => ListInv
<1> SUFFICES ASSUME Init PROVE ListInv
  OBVIOUS
<1>1. MineInv /\ \A p : ~Coming(p)
  BY DEF Init, MineInv, Coming
<1>2. \A v \in Lists : loads[v] = <<NewLoad>> \/ loads[v] = <<>>
  BY DEF Init
<1>3. LoadsInv
  <2>1. "page" \in Lists
    BY DEF Lists
  <2>2. \A v \in Lists : \A i, j \in DOMAIN loads[v] : i = j /\ loads[v][i] = NewLoad
    BY <1>2
  <2> QED
    BY <2>1, <2>2 DEF LoadsInv, NewLoad
<1>4. ShownInv /\ OnceInv
  BY <1>1 DEF Init, ShownInv, OnceInv, Ids, Lists
<1> QED
  BY <1>1, <1>3, <1>4 DEF ListInv

-------------------------------------------------------------------------------
(***************************************************************************)
(* What lists keep                                                         *)
(***************************************************************************)

\* A project is as it was for the tab.
Same(p) == (Mine(p)' <=> Mine(p)) /\ project'[p].name = project[p].name

LEMMA AllSame ==
    ASSUME project' = project, role' = role
    PROVE  \A p : Same(p) /\ (Exists(p)' <=> Exists(p))
  BY DEF Same, Mine, Exists

\* A load that was read has noted what changed, or the change is one the page
\* will be told of.
LEMMA StillKnows ==
    ASSUME NEW v \in Lists, NEW l \in Load, NEW m, Knows(v, l),
           m.entries = l.entries, l.old \subseteq m.old,
           \A p \in Projects : Exists(p) => Exists(p)',
           \A p \in Projects \ m.old :
               \/ /\ Same(p)
                  /\ \/ v # "page"
                     \/ Coming(p) \/ p \in Ids(shown["page"]) => Coming(p)' \/ p \in Ids(shown["page"])'
               \/ ~Exists(p) /\ v = "page" /\ Coming(p)'
    PROVE  Knows(v, m)'
<1>1. \A e \in m.entries : e.id \in Projects /\ Exists(e.id) /\ Exists(e.id)' /\ e.double = FALSE
  <2>1. \A e \in l.entries : e.id \in Projects
    BY DEF Load, Item
  <2> QED
    BY <2>1 DEF Knows
<1>2. ASSUME NEW p \in Projects \ m.old
      PROVE  /\ Tells(m.entries, p)'
             /\ Mine(p)' => \/ p \in Ids(m.entries)
                            \/ v = "page" /\ (Coming(p)' \/ p \in Ids(shown["page"])')
  <2>1. /\ Tells(l.entries, p)
        /\ Mine(p) => \/ p \in Ids(l.entries)
                      \/ v = "page" /\ (Coming(p) \/ p \in Ids(shown["page"]))
    BY DEF Knows
  <2>2. CASE ~Exists(p) /\ v = "page" /\ Coming(p)'
    BY <1>1, <2>2 DEF Tells
  <2>3. CASE ~(~Exists(p) /\ v = "page" /\ Coming(p)')
    <3>1. /\ Same(p)
          /\ \/ v # "page"
             \/ Coming(p) \/ p \in Ids(shown["page"]) => Coming(p)' \/ p \in Ids(shown["page"])'
      BY <1>2, <2>3
    <3> QED
      BY <2>1, <3>1 DEF Tells, Same
  <2> QED
    BY <2>2, <2>3
<1>3. \A e \in m.entries : Exists(e.id)' /\ e.double = FALSE
  BY <1>1
<1> QED
  BY <1>2, <1>3 DEF Knows, Exists, Ids

\* Nothing changes, and a load that was read was read before or just now.
LEMMA LoadsRest ==
    ASSUME TypeInv, LoadsInv, project' = project, role' = role,
           \A i, j \in DOMAIN loads'["page"] : i = j,
           \/ \A j \in DOMAIN loads'["page"] : loads'["page"][j].stage # "read"
           \/ \A p \in Projects : Coming(p) \/ p \in Ids(shown["page"])
                                      => Coming(p)' \/ p \in Ids(shown["page"])',
           \A v \in Lists : \A j \in DOMAIN loads'[v] : loads'[v][j].stage = "read" =>
               \/ \E i \in DOMAIN loads[v] : loads'[v][j] = loads[v][i]
               \/ loads'[v][j].entries = {NewItem(p) : p \in {q \in Projects : Mine(q)}}
    PROVE  LoadsInv'
<1> SUFFICES ASSUME NEW v \in Lists, NEW j \in DOMAIN loads'[v], loads'[v][j].stage = "read"
             PROVE  Knows(v, loads[v][j])'
  BY DEF LoadsInv
<1>1. PICK m : m = loads'[v][j]
  OBVIOUS
<1>2. \A p : Same(p) /\ (Exists(p)' <=> Exists(p))
  BY AllSame
<1>3. \/ v # "page"
      \/ \A p \in Projects : Coming(p) \/ p \in Ids(shown["page"])
                                 => Coming(p)' \/ p \in Ids(shown["page"])'
  OBVIOUS
<1>4. ASSUME NEW i \in DOMAIN loads[v], m = loads[v][i] PROVE Knows(v, m)'
  <2>1. PICK l : l = loads[v][i]
    OBVIOUS
  <2>2. l \in Load /\ l = m
    BY <1>4, <2>1, LoadsTyped DEF TypeInv, TabTypeInv
  <2>3. Knows(v, loads[v][i])
    BY <1>1, <1>4 DEF LoadsInv
  <2>4. Knows(v, l)
    BY <2>1, <2>3
  <2> QED
    BY <1>2, <1>3, <2>2, <2>4, StillKnows
<1>5. ASSUME m.entries = {NewItem(p) : p \in {q \in Projects : Mine(q)}} PROVE Knows(v, m)'
  <2>1. \A e \in m.entries : \E p \in Projects : Mine(p) /\ e = NewItem(p)
    BY <1>5
  <2>2. \A p \in Projects : Mine(p) => NewItem(p) \in m.entries
    BY <1>5
  <2>3. \A p : NewItem(p).id = p /\ NewItem(p).name = project[p].name /\ NewItem(p).double = FALSE
    BY DEF NewItem
  <2>4. \A e \in m.entries : Exists(e.id) /\ e.double = FALSE
    BY <2>1, <2>3 DEF Mine
  <2>5. \A p \in Projects : Tells(m.entries, p) /\ (Mine(p) => p \in Ids(m.entries))
    BY <2>1, <2>2, <2>3 DEF Tells, Ids
  <2> QED
    BY <1>2, <2>4, <2>5 DEF Knows, Exists, Tells, Same, Ids
<1>6. Knows(v, m)'
  BY <1>1, <1>4, <1>5
<1> QED
  BY <1>1, <1>6 DEF Knows, Tells, Ids

LEMMA ShownRests ==
    ASSUME ShownInv, OnceInv, project' = project, role' = role,
           shown' = shown, stale' = stale, crossed' = crossed,
           \A p \in Projects : Coming(p)' <=> Coming(p)
    PROVE  ShownInv' /\ OnceInv'
<1>1. \A p : Same(p) /\ (Exists(p)' <=> Exists(p))
  BY AllSame
<1>2. ShownInv'
  BY <1>1 DEF ShownInv, Right, Tells, Same, Ids
<1>3. OnceInv'
  BY <1>1 DEF OnceInv, Ids
<1> QED
  BY <1>2, <1>3

\* The page's requests are untouched, or all forgotten.
LEMMA MineRests ==
    ASSUME MineInv, project' = project, role' = role, mine' \in {mine, {}}, pc' = pc, job' = job
    PROVE  /\ MineInv'
           /\ IF mine' = mine THEN \A p : Coming(p)' <=> Coming(p) ELSE \A p : ~Coming(p)'
  BY AllSame DEF MineInv, Coming, InFlight, Mine, Exists

\* A step that does nothing to the lists.
LEMMA ListRests ==
    ASSUME TypeInv, ListInv, project' = project, role' = role, MineInv',
           \A p \in Projects : Coming(p)' <=> Coming(p), listVars' = listVars
    PROVE  ListInv'
<1>1. shown' = shown /\ stale' = stale /\ crossed' = crossed /\ loads' = loads
  BY DEF listVars
<1>2. LoadsInv /\ ShownInv /\ OnceInv
  BY DEF ListInv
<1>3. \A i, j \in DOMAIN loads'["page"] : i = j
  BY <1>1, <1>2 DEF LoadsInv
<1>4. \A p \in Projects : Coming(p) \/ p \in Ids(shown["page"])
                              => Coming(p)' \/ p \in Ids(shown["page"])'
  BY <1>1 DEF Ids
<1>5. LoadsInv'
  BY <1>1, <1>2, <1>3, <1>4, LoadsRest
<1>6. ShownInv' /\ OnceInv'
  BY <1>1, <1>2, ShownRests
<1> QED
  BY <1>5, <1>6 DEF ListInv

-------------------------------------------------------------------------------
(***************************************************************************)
(* What the tab does to its lists                                          *)
(***************************************************************************)

\* The page is mounted or unmounted, and starts anew.
LEMMA ListVisit ==
    ASSUME TypeInv, ListInv, NEW to \in Projects \cup {None}, Visit(to)
    PROVE  ListInv'
<1>1. project' = project /\ role' = role /\ pc' = pc /\ job' = job
  BY DEF Visit, projectVars, tables, requestVars
<1>2. CASE UNCHANGED <<workspace, mine, listVars>>
  BY <1>1, <1>2, MineRests, ListRests DEF ListInv
<1>3. CASE ~UNCHANGED <<workspace, mine, listVars>>
  <2>1. /\ mine' = {} /\ crossed' = {}
        /\ shown' = [shown EXCEPT !["page"] = {}]
        /\ loads' = [loads EXCEPT !["page"] = IF to = None THEN <<NewLoad>> ELSE <<>>]
        /\ stale' = [stale EXCEPT !["page"] = Projects]
    BY <1>3 DEF Visit, PageVisits
  <2>2. MineInv' /\ \A p : ~Coming(p)'
    BY <1>1, <2>1, MineRests DEF ListInv, Coming
  <2>3. \A i, j \in DOMAIN loads'["page"] : i = j /\ loads'["page"][i].stage # "read"
    <3>1. loads'["page"] = <<NewLoad>> \/ loads'["page"] = <<>>
      BY <2>1 DEF TypeInv, TabTypeInv, Lists
    <3> QED
      BY <3>1 DEF NewLoad
  <2>4. /\ stale'["page"] = Projects /\ shown'["page"] = {}
        /\ \A v \in Lists : v # "page" =>
               loads'[v] = loads[v] /\ shown'[v] = shown[v] /\ stale'[v] = stale[v]
    BY <2>1 DEF TypeInv, TabTypeInv, Lists
  <2>5. LoadsInv'
    <3>1. \A v \in Lists : \A j \in DOMAIN loads'[v] : loads'[v][j].stage = "read" =>
              \E i \in DOMAIN loads[v] : loads'[v][j] = loads[v][i]
      BY <2>3, <2>4
    <3> QED
      BY <1>1, <2>3, <3>1, LoadsRest DEF ListInv
  <2>6. ShownInv'
    <3> SUFFICES ASSUME NEW v \in Lists, NEW p \in Projects \ stale'[v] PROVE Right(v, p)'
      BY DEF ShownInv
    <3>1. v # "page" /\ shown'[v] = shown[v] /\ p \in Projects \ stale[v]
      BY <2>4
    <3> QED
      BY <1>1, <3>1, AllSame DEF ListInv, ShownInv, Right, Tells, Same, Ids
  <2>7. OnceInv'
    <3>1. \A v \in Lists : \A e \in shown'[v] : Exists(e.id) /\ e.double = FALSE
      BY <2>4 DEF ListInv, OnceInv
    <3> QED
      BY <1>1, <2>2, <3>1 DEF OnceInv, Exists
  <2> QED
    BY <2>2, <2>5, <2>6, <2>7 DEF ListInv
<1> QED
  BY <1>2, <1>3

\* A list is lazily loaded anew: nothing more is read.
LEMMA LazyLoadUnread ==
    ASSUME NEW left \in Seq(Load), NEW isOpen, NEW list
    PROVE  \A j \in DOMAIN LazyLoad(left, isOpen, list) :
               LazyLoad(left, isOpen, list)[j].stage = "read" =>
                   \E i \in DOMAIN left : LazyLoad(left, isOpen, list)[j] = left[i]
<1>1. \A j \in DOMAIN Append(left, NewLoad) :
          \/ Append(left, NewLoad)[j] = NewLoad
          \/ j \in DOMAIN left /\ Append(left, NewLoad)[j] = left[j]
  BY NewLoaded, Appended
<1>2. NewLoad.stage # "read"
  BY DEF NewLoad
<1> QED
  BY <1>1, <1>2 DEF LazyLoad

\* A step that only goes on with loads.
LEMMA ListGoesOn ==
    ASSUME TypeInv, ListInv, project' = project, role' = role, mine' = mine, pc' = pc, job' = job,
           shown' = shown, stale' = stale, crossed' = crossed,
           \A i, j \in DOMAIN loads'["page"] : i = j,
           \A v \in Lists : \A j \in DOMAIN loads'[v] : loads'[v][j].stage = "read" =>
               \/ \E i \in DOMAIN loads[v] : loads'[v][j] = loads[v][i]
               \/ loads'[v][j].entries = {NewItem(p) : p \in {q \in Projects : Mine(q)}}
    PROVE  ListInv'
<1>1. MineInv' /\ \A p : Coming(p)' <=> Coming(p)
  BY MineRests DEF ListInv
<1>2. \A p \in Projects : Coming(p) \/ p \in Ids(shown["page"])
                              => Coming(p)' \/ p \in Ids(shown["page"])'
  BY <1>1 DEF Ids
<1>3. LoadsInv'
  BY <1>2, LoadsRest DEF ListInv
<1>4. ShownInv' /\ OnceInv'
  BY <1>1, ShownRests DEF ListInv
<1> QED
  BY <1>1, <1>3, <1>4 DEF ListInv

LEMMA ListToggle == ASSUME TypeInv, ListInv, Toggle PROVE ListInv'
<1>1. /\ project' = project /\ role' = role /\ pc' = pc /\ job' = job /\ mine' = mine
      /\ shown' = shown /\ stale' = stale /\ crossed' = crossed
  BY DEF Toggle, projectVars, tables, requestVars
<1>2. /\ loads["palette"] \in Seq(Load) /\ "page" \in Lists
      /\ loads'["palette"] = LazyLoad(loads["palette"], ~open, shown["palette"])
      /\ \A v \in Lists : v # "palette" => loads'[v] = loads[v]
  BY DEF Toggle, TypeInv, TabTypeInv, Lists
<1>3. \A j \in DOMAIN loads'["palette"] : loads'["palette"][j].stage = "read" =>
          \E i \in DOMAIN loads["palette"] : loads'["palette"][j] = loads["palette"][i]
  BY <1>2, LazyLoadUnread
<1>4. \A v \in Lists : \A j \in DOMAIN loads'[v] : loads'[v][j].stage = "read" =>
          \E i \in DOMAIN loads[v] : loads'[v][j] = loads[v][i]
  BY <1>2, <1>3
<1>5. \A i, j \in DOMAIN loads'["page"] : i = j
  BY <1>2 DEF ListInv, LoadsInv
<1> QED
  BY <1>1, <1>4, <1>5, ListGoesOn

\* The list of the page or of the palette is shown.  A project the page has
\* created that the list does not have is still to come, or crossed it.
LEMMA ListShows ==
    ASSUME TypeInv, ListInv, NEW v \in Lists, NEW i \in DOMAIN loads[v], ShowList(v, i)
    PROVE  ListInv'
<1> DEFINE rest == RemoveAt(loads[v], i)
<1>1. PICK l : l = loads[v][i]
  OBVIOUS
<1>2. /\ project' = project /\ role' = role /\ pc' = pc /\ job' = job /\ mine' = mine
      /\ loads \in [Lists -> Seq(Load)] /\ loads[v] \in Seq(Load) /\ l \in Load
  <2>1. loads \in [Lists -> Seq(Load)] /\ l \in Load
    BY <1>1, LoadsTyped DEF TypeInv, TabTypeInv
  <2> QED
    BY <2>1 DEF ShowList, projectVars, tables, requestVars
<1>3. /\ l.stage = "read"
      /\ shown' = [shown EXCEPT ![v] = l.entries]
      /\ stale' = [stale EXCEPT ![v] = l.old]
      /\ loads' = [loads EXCEPT ![v] =
                      IF v = "palette" /\ shown[v] # {} THEN LazyLoad(rest, open, l.entries) ELSE rest]
      /\ crossed' = IF v # "page" THEN crossed
                    ELSE (Ids(shown[v]) \ Ids(l.entries)) \cup (Awaited \cap Ids(l.entries))
  BY <1>1 DEF ShowList
<1>4. /\ rest \in Seq(Load)
      /\ \A j \in DOMAIN rest : \E k \in DOMAIN loads[v] : k # i /\ rest[j] = loads[v][k]
  BY <1>2, Removed
<1>5. Knows(v, l)
  <2>1. Knows(v, loads[v][i])
    BY <1>1, <1>3 DEF ListInv, LoadsInv
  <2> QED
    BY <1>1, <2>1
<1> HIDE DEF rest
<1>6. MineInv' /\ \A p : Coming(p)' <=> Coming(p)
  BY <1>2, MineRests DEF ListInv
<1>7. /\ shown'[v] = l.entries /\ stale'[v] = l.old
      /\ \A w \in Lists : w # v => /\ shown'[w] = shown[w] /\ stale'[w] = stale[w]
                                   /\ loads'[w] = loads[w]
      /\ loads'[v] = rest \/ loads'[v] = LazyLoad(rest, open, l.entries)
      /\ v = "page" => loads'[v] = rest
  BY <1>2, <1>3 DEF TypeInv, TabTypeInv
<1>8. \A p : Coming(p) <=> p \in Awaited
  BY DEF Coming, Awaited
<1>9. LoadsInv'
  <2>1. \A j \in DOMAIN LazyLoad(rest, open, l.entries) :
            LazyLoad(rest, open, l.entries)[j].stage = "read" =>
                \E k \in DOMAIN rest : LazyLoad(rest, open, l.entries)[j] = rest[k]
    BY <1>4, LazyLoadUnread
  <2>2. \A w \in Lists : \A j \in DOMAIN loads'[w] : loads'[w][j].stage = "read" =>
            \E k \in DOMAIN loads[w] : loads'[w][j] = loads[w][k]
    BY <1>4, <1>7, <2>1
  <2>3. CASE v = "page"
    <3>1. DOMAIN loads'["page"] = {}
      BY <1>4, <1>7, <2>3 DEF ListInv, LoadsInv
    <3> QED
      BY <1>2, <2>2, <3>1, LoadsRest DEF ListInv
  <2>4. CASE v # "page"
    <3>1. "page" \in Lists
      BY DEF Lists
    <3>2. loads'["page"] = loads["page"] /\ shown'["page"] = shown["page"]
      BY <1>7, <2>4, <3>1
    <3>3. \A p \in Projects : Coming(p) \/ p \in Ids(shown["page"])
                                  => Coming(p)' \/ p \in Ids(shown["page"])'
      BY <1>6, <3>2 DEF Ids
    <3>4. \A j, k \in DOMAIN loads'["page"] : j = k
      BY <3>2 DEF ListInv, LoadsInv
    <3> QED
      BY <1>2, <2>2, <3>3, <3>4, LoadsRest DEF ListInv
  <2> QED
    BY <2>3, <2>4
<1>10. ShownInv'
  <2> SUFFICES ASSUME NEW w \in Lists, NEW p \in Projects \ stale'[w] PROVE Right(w, p)'
    BY DEF ShownInv
  <2>1. CASE w # v
    <3>1. /\ shown'[w] = shown[w] /\ Right(w, p)
          /\ w = "page" => crossed' = crossed
      BY <1>3, <1>7, <2>1 DEF ListInv, ShownInv
    <3> QED
      BY <1>2, <1>6, <3>1, AllSame DEF Right, Tells, Same, Ids
  <2>2. CASE w = v
    <3>1. /\ Tells(l.entries, p)
          /\ Mine(p) => \/ p \in Ids(l.entries)
                        \/ v = "page" /\ (Coming(p) \/ p \in Ids(shown["page"]))
      BY <1>5, <1>7, <2>2 DEF Knows
    <3>2. Mine(p) => \/ p \in Ids(l.entries)
                     \/ v = "page" /\ (Coming(p) \/ p \in crossed')
      BY <1>3, <3>1
    <3>3. Tells(shown[w], p)'
      BY <1>2, <1>7, <2>2, <3>1, AllSame DEF Tells, Same
    <3>4. (Mine(p)' <=> Mine(p)) /\ Ids(shown[w])' = Ids(l.entries)
      BY <1>2, <1>7, <2>2, AllSame DEF Same, Ids
    <3> QED
      BY <1>6, <2>2, <3>2, <3>3, <3>4 DEF Right
  <2> QED
    BY <2>1, <2>2
<1>11. OnceInv'
  <2>1. \A w \in Lists : \A e \in shown'[w] :
            Exists(e.id) /\ ((w = "page" /\ e.id \in crossed') \/ e.double = FALSE)
    BY <1>3, <1>5, <1>7 DEF ListInv, OnceInv, Knows
  <2>2. \A p \in Projects \ crossed' : Coming(p) => p \notin Ids(shown["page"])'
    <3>1. CASE v = "page"
      <4>1. Ids(shown["page"])' = Ids(l.entries)
        BY <1>7, <3>1 DEF Ids
      <4> QED
        BY <1>3, <1>8, <3>1, <4>1
    <3>2. CASE v # "page"
      <4>1. Ids(shown["page"])' = Ids(shown["page"]) /\ crossed' = crossed
        BY <1>3, <1>7, <3>2 DEF Ids, Lists
      <4> QED
        BY <4>1 DEF ListInv, OnceInv
    <3> QED
      BY <3>1, <3>2
  <2>3. \A w \in Lists : \A e \in shown'[w] :
            Exists(e.id)' /\ ((w = "page" /\ e.id \in crossed') \/ e.double = FALSE)
    BY <1>2, <2>1 DEF Exists
  <2> QED
    BY <1>6, <2>2, <2>3 DEF OnceInv, Exists
<1> QED
  BY <1>6, <1>9, <1>10, <1>11 DEF ListInv

LEMMA ListLoads ==
    ASSUME TypeInv, ListInv, NEW v \in Lists, NEW i \in DOMAIN loads[v],
           Workspaces(v, i) \/ ReadList(v, i) \/ LoadFails(v, i)
    PROVE  ListInv'
<1> DEFINE l == loads[v][i]
<1>0. /\ project' = project /\ role' = role /\ pc' = pc /\ job' = job /\ mine' = mine
      /\ shown' = shown /\ stale' = stale /\ crossed' = crossed
      /\ loads \in [Lists -> Seq(Load)] /\ loads[v] \in Seq(Load) /\ l \in Load
      /\ "page" \in Lists
  <2>1. loads \in [Lists -> Seq(Load)] /\ l \in Load
    BY LoadsTyped DEF TypeInv, TabTypeInv
  <2> QED
    BY <2>1 DEF Workspaces, ReadList, LoadFails, projectVars, tables, requestVars, Lists
<1>1. \A j, k \in DOMAIN loads["page"] : j = k
  BY DEF ListInv, LoadsInv
<1>2. CASE Workspaces(v, i)
  <2> DEFINE new == [l EXCEPT !.stage = "projects"]
  <2>1. loads' = [loads EXCEPT ![v] = [loads[v] EXCEPT ![i] = new]]
    BY <1>2 DEF Workspaces
  <2>2. new.stage # "read"
    BY <1>0 DEF Load
  <2> HIDE DEF l, new
  <2>3. \A w \in Lists : \A j \in DOMAIN loads'[w] : loads'[w][j].stage = "read" =>
            \E k \in DOMAIN loads[w] : loads'[w][j] = loads[w][k]
    BY <1>0, <2>1, <2>2
  <2>4. \A j, k \in DOMAIN loads'["page"] : j = k
    BY <1>0, <1>1, <2>1
  <2> QED
    BY <1>0, <2>3, <2>4, ListGoesOn
<1>3. CASE ReadList(v, i)
  <2> DEFINE es == {NewItem(p) : p \in {q \in Projects : Mine(q)}}
             new == [l EXCEPT !.stage = "read", !.entries = es]
  <2>1. loads' = [loads EXCEPT ![v] = [loads[v] EXCEPT ![i] = new]]
    BY <1>3 DEF ReadList
  <2>2. new.entries = es
    BY <1>0 DEF Load
  <2> HIDE DEF l, es, new
  <2>3. \A w \in Lists : \A j \in DOMAIN loads'[w] :
            loads'[w][j] = new \/ \E k \in DOMAIN loads[w] : loads'[w][j] = loads[w][k]
    BY <1>0, <2>1
  <2>4. \A w \in Lists : \A j \in DOMAIN loads'[w] :
            \/ \E k \in DOMAIN loads[w] : loads'[w][j] = loads[w][k]
            \/ loads'[w][j].entries = {NewItem(p) : p \in {q \in Projects : Mine(q)}}
    BY <2>2, <2>3 DEF es
  <2>5. \A j, k \in DOMAIN loads'["page"] : j = k
    BY <1>0, <1>1, <2>1
  <2> QED
    BY <1>0, <2>4, <2>5, ListGoesOn
<1>4. CASE LoadFails(v, i)
  <2> DEFINE rest == RemoveAt(loads[v], i)
  <2>1. loads' = [loads EXCEPT ![v] = rest]
    BY <1>0, <1>4 DEF LoadFails
  <2>2. \A j \in DOMAIN rest : \E k \in DOMAIN loads[v] : k # i /\ rest[j] = loads[v][k]
    BY <1>0, Removed
  <2> HIDE DEF rest
  <2>3. \A w \in Lists : \A j \in DOMAIN loads'[w] : \E k \in DOMAIN loads[w] : loads'[w][j] = loads[w][k]
    BY <1>0, <2>1, <2>2
  <2>4. \A j, k \in DOMAIN loads'["page"] : j = k
    <3>1. CASE v = "page"
      <4>1. DOMAIN rest = {}
        BY <1>1, <2>2, <3>1
      <4> QED
        BY <1>0, <2>1, <3>1, <4>1
    <3>2. CASE v # "page"
      BY <1>0, <1>1, <2>1, <3>2
    <3> QED
      BY <3>1, <3>2
  <2> QED
    BY <1>0, <2>3, <2>4, ListGoesOn
<1> QED
  BY <1>2, <1>3, <1>4

-------------------------------------------------------------------------------
(***************************************************************************)
(* What requests do to the lists                                           *)
(***************************************************************************)

\* Somebody asks for something, not through the tab: no request of the page's.
LEMMA ListAsks ==
    ASSUME TypeInv, ListInv, NEW r \in Requests, AskElsewhere(r)
    PROVE  ListInv'
<1>1. /\ project' = project /\ role' = role /\ mine' = mine /\ listVars' = listVars
      /\ pc[r] = "idle" /\ \A q \in Requests : q # r => pc'[q] = pc[q] /\ job'[q] = job[q]
  BY DEF AskElsewhere, Ask, CountKey, CheckRename, CheckMember, LetThrough, Goto, tables,
         shellVars, TypeInv, ProjectsTypeInv, ProjectsTypeOK
<1>2. \A q \in mine : q \in Requests /\ q # r /\ pc'[q] = pc[q] /\ job'[q] = job[q]
  BY <1>1 DEF ListInv, MineInv, TypeInv, TabTypeInv
<1>3. MineInv'
  BY <1>1, <1>2, AllSame DEF ListInv, MineInv, InFlight, Mine, Exists
<1>4. \A p : Coming(p)' <=> Coming(p)
  BY <1>1, <1>2 DEF Coming
<1> QED
  BY <1>1, <1>3, <1>4, ListRests

\* The page asks: a creation, by its user, and the only one.
LEMMA ListCreates ==
    ASSUME TypeInv, ListInv, NEW r \in Requests, NEW k \in Keys, NEW n \in Names,
           CreateProject(r, k, n)
    PROVE  ListInv'
<1>1. /\ project' = project /\ role' = role /\ mine' = mine \cup {r} /\ listVars' = listVars
      /\ pc[r] = "idle" /\ pc'[r] = "insert" /\ job'[r].by = Me
      /\ \A q \in Requests : q # r => pc'[q] = pc[q] /\ job'[q] = job[q]
      /\ \A q \in mine : ~InFlight(q)
  BY DEF CreateProject, CountKey, LetThrough, Goto, NoJob, tables, listVars, TypeInv,
         ProjectsTypeInv, ProjectsTypeOK
<1>2. \A q \in mine : q \in Requests /\ q # r /\ pc'[q] = pc[q] /\ job'[q] = job[q]
  BY <1>1 DEF ListInv, MineInv, TypeInv, TabTypeInv
<1>3. MineInv'
  BY <1>1, <1>2, AllSame DEF ListInv, MineInv, InFlight, Mine, Exists
<1>4. \A p : Coming(p)' <=> Coming(p)
  BY <1>1, <1>2 DEF Coming
<1> QED
  BY <1>1, <1>3, <1>4, ListRests

\* An answer nobody waits for.
LEMMA ListElsewhere ==
    ASSUME TypeInv, ListInv, NEW r \in Requests, AnswerElsewhere(r)
    PROVE  ListInv'
<1>1. /\ project' = project /\ role' = role /\ mine' = mine /\ listVars' = listVars
      /\ r \notin mine /\ \A q \in Requests : q # r => pc'[q] = pc[q] /\ job'[q] = job[q]
  BY DEF AnswerElsewhere, Receive, Over, Goto, tables, shellVars, TypeInv, ProjectsTypeInv,
         ProjectsTypeOK
<1>2. \A q \in mine : q \in Requests /\ q # r /\ pc'[q] = pc[q] /\ job'[q] = job[q]
  BY <1>1 DEF TypeInv, TabTypeInv
<1>3. MineInv'
  BY <1>1, <1>2, AllSame DEF ListInv, MineInv, InFlight, Mine, Exists
<1>4. \A p : Coming(p)' <=> Coming(p)
  BY <1>1, <1>2 DEF Coming
<1> QED
  BY <1>1, <1>3, <1>4, ListRests

\* The page has its answer: no other was to come.
LEMMA Answered ==
    ASSUME TypeInv, MineInv, NEW r \in mine, Receive(r), mine' = mine
    PROVE  /\ project' = project /\ role' = role /\ MineInv'
           /\ job[r].project \in Projects /\ job[r].name \in Names /\ Mine(job[r].project)
           /\ \A p : Coming(p) => p = job[r].project
           /\ \A p : ~Coming(p)'
<1>1. r \in Requests /\ mine \subseteq Requests
  BY DEF TypeInv, TabTypeInv
<1>2. /\ project' = project /\ role' = role /\ pc[r] = "answered" /\ pc'[r] = "over"
      /\ \A q \in Requests : q # r => pc'[q] = pc[q] /\ job'[q] = job[q]
  BY <1>1 DEF Receive, Over, Goto, tables, TypeInv, ProjectsTypeInv, ProjectsTypeOK
<1>3. job[r].project \in Projects /\ job[r].name \in Names /\ Mine(job[r].project)
  BY <1>1, <1>2 DEF MineInv, TypeInv, ProjectsTypeInv, ProjectsWorking
<1>4. \A q \in mine : pc[q] = "answered" => q = r
  BY <1>2 DEF MineInv, InFlight
<1>5. MineInv'
  BY <1>1, <1>2, AllSame DEF MineInv, InFlight, Mine, Exists
<1>6. \A p : Coming(p) => p = job[r].project
  BY <1>4 DEF Coming
<1>7. \A p : ~Coming(p)'
  BY <1>1, <1>2, <1>4 DEF Coming
<1> QED
  BY <1>2, <1>3, <1>5, <1>6, <1>7

\* The answer to a creation brings the project to the page.
LEMMA ListCreated ==
    ASSUME TypeInv, ListInv, NEW r \in Requests, Created(r)
    PROVE  ListInv'
<1>1. PICK p, n : p = job[r].project /\ n = job[r].name
  OBVIOUS
<1>2. /\ project' = project /\ role' = role /\ MineInv'
      /\ p \in Projects /\ n \in Names /\ Mine(p)
      /\ \A q : Coming(q) => q = p
      /\ \A q : ~Coming(q)'
  BY <1>1, Answered DEF Created, ListInv
<1>3. PICK e : e = [id |-> p, name |-> n, double |-> p \in Ids(shown["page"])]
  OBVIOUS
<1>4. e.id = p /\ e.name = n /\ (p \notin Ids(shown["page"]) => e.double = FALSE)
  <2>1. CASE p \in Ids(shown["page"])
    BY <1>3, <2>1
  <2>2. CASE p \notin Ids(shown["page"])
    <3>1. (p \in Ids(shown["page"])) = FALSE
      BY <2>2
    <3> QED
      BY <1>3, <3>1, Zenon
  <2> QED
    BY <2>1, <2>2
<1>5. /\ loads' = loads /\ crossed' = crossed /\ "page" \in Lists
      /\ shown' = [shown EXCEPT !["page"] = @ \cup {e}]
      /\ stale' = [stale EXCEPT !["page"] = @ \cup {q \in {p} : project[p].name # n}]
  BY <1>1, <1>3 DEF Created, Joined, TypeInv, TabTypeInv, Lists
<1>6. /\ shown'["page"] = shown["page"] \cup {e}
      /\ stale["page"] \subseteq stale'["page"]
      /\ p \notin stale'["page"] => project[p].name = n
      /\ \A v \in Lists : v # "page" => shown'[v] = shown[v] /\ stale'[v] = stale[v]
  BY <1>5 DEF TypeInv, TabTypeInv
<1>7. Ids(shown["page"])' = Ids(shown["page"]) \cup {p}
  BY <1>4, <1>6 DEF Ids
<1>8. LoadsInv'
  <2>1. \A q \in Projects : Coming(q) \/ q \in Ids(shown["page"])
                                => Coming(q)' \/ q \in Ids(shown["page"])'
    BY <1>2, <1>7
  <2>2. \A i, j \in DOMAIN loads'["page"] : i = j
    BY <1>5 DEF ListInv, LoadsInv
  <2> QED
    BY <1>2, <1>5, <2>1, <2>2, LoadsRest DEF ListInv
<1>9. ShownInv'
  <2> SUFFICES ASSUME NEW v \in Lists, NEW q \in Projects \ stale'[v] PROVE Right(v, q)'
    BY DEF ShownInv
  <2>1. Right(v, q)
    BY <1>6 DEF ListInv, ShownInv
  <2>2. CASE v # "page"
    BY <1>2, <1>6, <2>1, <2>2, AllSame DEF Right, Tells, Same, Ids
  <2>3. CASE v = "page"
    <3>1. \A x \in shown'["page"] : x.id = q => Mine(q) /\ x.name = project[q].name
      BY <1>2, <1>4, <1>6, <2>1, <2>3 DEF Right, Tells
    <3>2. Tells(shown[v], q)'
      BY <1>2, <2>3, <3>1, AllSame DEF Tells, Same
    <3>3. Mine(q)' => q \in Ids(shown[v])' \/ q \in crossed'
      BY <1>2, <1>5, <1>7, <2>1, <2>3, AllSame DEF Right, Same
    <3> QED
      BY <2>3, <3>2, <3>3 DEF Right
  <2> QED
    BY <2>2, <2>3
<1>10. OnceInv'
  <2>1. p \notin crossed => p \notin Ids(shown["page"])
    <3>1. Coming(p)
      BY <1>1 DEF Created, Receive, Coming
    <3> QED
      BY <1>2, <3>1 DEF ListInv, OnceInv
  <2>2. Exists(p) /\ (p \in crossed \/ e.double = FALSE)
    BY <1>2, <1>4, <2>1 DEF Mine
  <2>3. \A v \in Lists : \A x \in shown'[v] :
            Exists(x.id) /\ ((v = "page" /\ x.id \in crossed) \/ x.double = FALSE)
    BY <1>4, <1>6, <2>2 DEF ListInv, OnceInv
  <2> QED
    BY <1>2, <1>5, <2>3 DEF OnceInv, Exists
<1> QED
  BY <1>2, <1>8, <1>9, <1>10 DEF ListInv

\* The answer is lost: lists and loads note the project it was about.
LEMMA ListLost ==
    ASSUME TypeInv, ListInv, NEW r \in Requests, AnswerLost(r)
    PROVE  ListInv'
<1>1. PICK p : p = job[r].project
  OBVIOUS
<1>2. /\ project' = project /\ role' = role /\ MineInv' /\ p \in Projects
      /\ \A q : Coming(q) => q = p
      /\ \A q : ~Coming(q)'
  BY <1>1, Answered DEF AnswerLost, ListInv
<1>3. /\ shown' = shown /\ crossed' = crossed /\ "page" \in Lists
      /\ stale' = [stale EXCEPT !["page"] = @ \cup {p}]
      /\ loads' = [loads EXCEPT !["page"] = Outdated("page", {p})]
  BY <1>1 DEF AnswerLost, Lists
<1>4. /\ stale'["page"] = stale["page"] \cup {p} /\ loads'["page"] = Outdated("page", {p})
      /\ \A v \in Lists : v # "page" => stale'[v] = stale[v] /\ loads'[v] = loads[v]
  BY <1>3 DEF TypeInv, TabTypeInv
<1>5. /\ DOMAIN Outdated("page", {p}) = DOMAIN loads["page"]
      /\ \A i \in DOMAIN loads["page"] :
             /\ Outdated("page", {p})[i].stage = loads["page"][i].stage
             /\ Outdated("page", {p})[i].entries = loads["page"][i].entries
             /\ loads["page"][i].stage = "read" =>
                    Outdated("page", {p})[i].old = loads["page"][i].old \cup {p}
  BY <1>2, <1>3, OutdatedLoads
<1>6. \A q : Same(q) /\ (Exists(q)' <=> Exists(q))
  BY <1>2, AllSame
<1>7. LoadsInv'
  <2>1. \A i, j \in DOMAIN loads'["page"] : i = j
    BY <1>4, <1>5 DEF ListInv, LoadsInv
  <2>2. ASSUME NEW v \in Lists, NEW j \in DOMAIN loads'[v], loads'[v][j].stage = "read"
        PROVE  Knows(v, loads[v][j])'
    <3>1. PICK l, m : l = loads[v][j] /\ m = loads'[v][j]
      OBVIOUS
    <3>2. /\ j \in DOMAIN loads[v] /\ l.stage = "read" /\ m.entries = l.entries
          /\ m.old = IF v = "page" THEN l.old \cup {p} ELSE l.old
      BY <1>4, <1>5, <2>2, <3>1
    <3>3. l \in Load
      BY <3>1, <3>2, LoadsTyped DEF TypeInv, TabTypeInv
    <3>4. Knows(v, loads[v][j])
      BY <3>1, <3>2 DEF ListInv, LoadsInv
    <3>5. Knows(v, l)
      BY <3>1, <3>4
    <3>6. l.old \subseteq m.old
      BY <3>2
    <3>7. \A q \in Projects \ m.old :
              /\ Same(q)
              /\ \/ v # "page"
                 \/ Coming(q) \/ q \in Ids(shown["page"]) => Coming(q)' \/ q \in Ids(shown["page"])'
      BY <1>2, <1>3, <1>6, <3>2 DEF Ids
    <3>8. Knows(v, m)'
      BY <1>6, <3>2, <3>3, <3>5, <3>6, <3>7, StillKnows
    <3> QED
      BY <3>1, <3>8 DEF Knows, Tells, Ids
  <2> QED
    BY <2>1, <2>2 DEF LoadsInv
<1>8. ShownInv'
  <2> SUFFICES ASSUME NEW v \in Lists, NEW q \in Projects \ stale'[v] PROVE Right(v, q)'
    BY DEF ShownInv
  <2>1. Right(v, q) /\ (v = "page" => q # p)
    BY <1>4 DEF ListInv, ShownInv
  <2> QED
    BY <1>2, <1>3, <1>6, <2>1 DEF Right, Tells, Same, Ids
<1>9. OnceInv'
  BY <1>2, <1>3, <1>6 DEF ListInv, OnceInv
<1> QED
  BY <1>2, <1>7, <1>8, <1>9 DEF ListInv

-------------------------------------------------------------------------------
(***************************************************************************)
(* What the API does to the lists                                          *)
(***************************************************************************)

\* No request takes a project from a user: nobody's membership ends.
LEMMA MineStays ==
    ASSUME TypeInv, NEW r \in Requests, Handler(r), NEW p, Mine(p), p \in Projects
    PROVE  Mine(p)'
<1>0. /\ project \in [Projects -> Row \cup {None}]
      /\ role \in [Projects -> [Users -> Roles \cup {None}]]
      /\ Me \in Users
  BY MeAssumption DEF TypeInv, ProjectsTypeInv, ProjectsTypeOK
<1>1. ASSUME NEW x \in Projects, InsertProject(r, x) PROVE Mine(p)'
  <2>1. p # x /\ project'[p] = project[p] /\ role'[p] = role[p]
    BY <1>0, <1>1 DEF InsertProject, Mine, Exists
  <2> QED
    BY <2>1 DEF Mine, Exists
<1>2. CASE Rename(r)
  <2> DEFINE x == job[r].project
             row == [project[x] EXCEPT !.name = job[r].name]
  <2>1. x \in Projects /\ project[x] \in Row /\ job[r].name \in Names
    BY <1>0, <1>2 DEF Rename, TypeInv, ProjectsTypeInv, ProjectsWorking, Exists
  <2>2. row \in Row /\ row.workspace = project[x].workspace
    BY <2>1 DEF Row
  <2>3. project' = [project EXCEPT ![x] = row] /\ role' = role
    BY <1>0, <1>2, <2>1 DEF Rename
  <2> HIDE DEF x, row
  <2> QED
    BY <1>0, <2>1, <2>2, <2>3, NoneIsNothing DEF Mine, Exists
<1>3. CASE UpdateMember(r)
  <2>1. job[r].role \in Roles /\ job[r].project \in Projects /\ job[r].user \in Users
    BY <1>3 DEF UpdateMember, TypeInv, ProjectsTypeInv, ProjectsWorking
  <2>2. \/ role' = role
        \/ role' = [role EXCEPT ![job[r].project][job[r].user] = job[r].role]
    BY <1>3 DEF UpdateMember
  <2>3. role[p][Me] # None => role'[p][Me] # None
    BY <1>0, <2>1, <2>2, NoneIsNothing
  <2> QED
    BY <1>3, <2>3 DEF UpdateMember, Mine, Exists
<1>4. CASE AddMember(r)
  <2>1. job[r].role \in Roles /\ job[r].project \in Projects /\ job[r].user \in Users
    BY <1>4 DEF AddMember, TypeInv, ProjectsTypeInv, ProjectsWorking
  <2>2. \/ role' = role
        \/ role' = [role EXCEPT ![job[r].project][job[r].user] = job[r].role]
    BY <1>4 DEF AddMember
  <2>3. role[p][Me] # None => role'[p][Me] # None
    BY <1>0, <2>1, <2>2, NoneIsNothing
  <2> QED
    BY <1>4, <2>3 DEF AddMember, Mine, Exists
<1>5. CASE FindMember(r) \/ Fail(r)
  BY <1>5 DEF FindMember, Fail, tables, Mine, Exists
<1> QED
  BY <1>1, <1>2, <1>3, <1>4, <1>5 DEF Handler

\* A handler changes its own request only, and none that is answered.
LEMMA HandlerChanges ==
    ASSUME TypeInv, NEW r \in Requests, Handler(r)
    PROVE  /\ pc[r] # "answered"
           /\ \A q \in Requests : q # r => pc'[q] = pc[q] /\ job'[q] = job[q]
  BY DEF Handler, InsertProject, Rename, FindMember, UpdateMember, AddMember, Fail, Over, Goto,
         TypeInv, ProjectsTypeInv, ProjectsTypeOK

LEMMA HandlerInFlight ==
    ASSUME NEW r \in Requests, Handler(r) PROVE InFlight(r)
  BY DEF Handler, InsertProject, Rename, FindMember, UpdateMember, AddMember, Fail, InFlight

\* A request of the page's is served: the insertion, of which the page will be
\* told, or a failure.
LEMMA PageServed ==
    ASSUME TypeInv, ListInv, NEW r \in mine, Handler(r)
    PROVE  \/ /\ UNCHANGED <<project, role>> /\ pc'[r] = "over"
           \/ \E p \in Projects :
                  /\ ~Exists(p) /\ Mine(p)'
                  /\ pc'[r] = "answered" /\ job'[r].by = Me /\ job'[r].project = p
                  /\ \A q \in Projects : q # p => project'[q] = project[q] /\ role'[q] = role[q]
<1>0. r \in Requests /\ pc[r] \in {"insert", "answered", "over"}
  BY DEF TypeInv, TabTypeInv, ListInv, MineInv
<1>1. Fail(r) \/ \E p \in Projects : InsertProject(r, p)
  BY <1>0 DEF Handler, Rename, FindMember, UpdateMember, AddMember
<1>2. CASE Fail(r)
  BY <1>0, <1>2 DEF Fail, Over, Goto, tables, TypeInv, ProjectsTypeInv, ProjectsTypeOK
<1>3. ASSUME NEW p \in Projects, InsertProject(r, p)
      PROVE  /\ ~Exists(p) /\ Mine(p)'
             /\ pc'[r] = "answered" /\ job'[r].by = Me /\ job'[r].project = p
             /\ \A q \in Projects : q # p => project'[q] = project[q] /\ role'[q] = role[q]
  <2>1. pc[r] = "insert" /\ job[r].by = Me
    BY <1>3 DEF InsertProject, ListInv, MineInv
  <2>2. job[r].key \in Keys /\ job[r].name \in Names
    BY <1>0, <2>1 DEF TypeInv, ProjectsTypeInv, ProjectsWorking
  <2> DEFINE row == [workspace |-> Me, key |-> job[r].key, name |-> job[r].name]
  <2>3. row \in Row /\ row.workspace = Me
    BY <2>2, MeAssumption DEF Row
  <2>4. /\ project' = [project EXCEPT ![p] = row]
        /\ role' = [role EXCEPT ![p] = FirstMembers(Me)]
        /\ pc' = [pc EXCEPT ![r] = "answered"] /\ job' = [job EXCEPT ![r].project = p]
        /\ ~Exists(p)
    BY <1>3, <2>1 DEF InsertProject, Goto
  <2> HIDE DEF row
  <2>5. FirstMembers(Me)[Me] = "owner" /\ "owner" # None
    BY FirstIsOwner, MeAssumption, NoneIsNothing, Ranks
  <2>6. Mine(p)'
    BY <2>3, <2>4, <2>5, NoneIsNothing
       DEF Mine, Exists, TypeInv, ProjectsTypeInv, ProjectsTypeOK
  <2>7. job'[r].by = Me /\ job'[r].project = p /\ pc'[r] = "answered"
    <3>1. /\ job \in [Requests -> Job] /\ job[r] \in Job
          /\ \A j \in Job : [j EXCEPT !.project = p].by = j.by /\ [j EXCEPT !.project = p].project = p
      BY <1>0 DEF Job, TypeInv, ProjectsTypeInv, ProjectsTypeOK
    <3>2. job'[r] = [job[r] EXCEPT !.project = p]
      BY <1>0, <2>4, <3>1
    <3> QED
      BY <1>0, <2>1, <2>4, <3>1, <3>2 DEF TypeInv, ProjectsTypeInv, ProjectsTypeOK
  <2>8. \A q \in Projects : q # p => project'[q] = project[q] /\ role'[q] = role[q]
    BY <2>4 DEF TypeInv, ProjectsTypeInv, ProjectsTypeOK
  <2> QED
    BY <2>4, <2>6, <2>7, <2>8
<1> QED
  BY <1>1, <1>2, <1>3

\* A project that is there stays there.
LEMMA ProjectsStay ==
    ASSUME TypeInv, NEW r \in Requests, Handler(r), NEW p \in Projects, Exists(p)
    PROVE  Exists(p)'
<1>1. ASSUME NEW x \in Projects, InsertProject(r, x) PROVE Exists(p)'
  BY <1>1 DEF InsertProject, Exists, TypeInv, ProjectsTypeInv, ProjectsTypeOK
<1>2. CASE Rename(r)
  <2> DEFINE x == job[r].project
             row == [project[x] EXCEPT !.name = job[r].name]
  <2>1. x \in Projects /\ project[x] \in Row /\ job[r].name \in Names
    BY <1>2 DEF Rename, TypeInv, ProjectsTypeInv, ProjectsTypeOK, ProjectsWorking, Exists
  <2>2. row \in Row
    BY <2>1 DEF Row
  <2>3. project' = [project EXCEPT ![x] = row]
    BY <1>2, <2>1 DEF Rename, TypeInv, ProjectsTypeInv, ProjectsTypeOK
  <2> HIDE DEF x, row
  <2> QED
    BY <2>1, <2>2, <2>3, NoneIsNothing DEF Exists, TypeInv, ProjectsTypeInv, ProjectsTypeOK
<1>3. CASE FindMember(r) \/ UpdateMember(r) \/ AddMember(r) \/ Fail(r)
  BY <1>3 DEF FindMember, UpdateMember, AddMember, Fail, tables, Exists
<1> QED
  BY <1>1, <1>2, <1>3 DEF Handler

\* The page's requests after one of anybody was served.
LEMMA MineServed ==
    ASSUME TypeInv, ListInv, NEW r \in Requests, Handler(r), mine' = mine
    PROVE  MineInv' /\ \A p \in Projects : Coming(p) => Coming(p)'
<1>1. /\ pc[r] # "answered" /\ mine \subseteq Requests /\ MineInv
      /\ \A q \in Requests : q # r => pc'[q] = pc[q] /\ job'[q] = job[q]
  BY HandlerChanges DEF TypeInv, TabTypeInv, ListInv
<1>2. \A p \in Projects : Mine(p) => Mine(p)'
  BY MineStays
<1>3. \A p \in Projects : Coming(p) => Coming(p)'
  BY <1>1 DEF Coming
<1>4. ASSUME NEW q \in mine
      PROVE  /\ pc'[q] \in {"insert", "answered", "over"}
             /\ pc'[q] \in {"insert", "answered"} => job'[q].by = Me
             /\ pc'[q] = "answered" => Mine(job[q].project)'
  <2>1. CASE q # r
    <3>1. /\ q \in Requests /\ pc'[q] = pc[q] /\ job'[q] = job[q]
      BY <1>1, <2>1
    <3>2. /\ pc[q] \in {"insert", "answered", "over"}
          /\ pc[q] \in {"insert", "answered"} => job[q].by = Me
          /\ pc[q] = "answered" => Mine(job[q].project)
      BY <1>1 DEF MineInv
    <3>3. pc[q] = "answered" => job[q].project \in Projects
      BY <3>1 DEF TypeInv, ProjectsTypeInv, ProjectsWorking
    <3>4. ASSUME pc'[q] = "answered" PROVE Mine(job[q].project)'
      <4>1. PICK p \in Projects : p = job[q].project
        BY <3>1, <3>3, <3>4
      <4>2. job'[q].project = p /\ Mine(p)
        BY <3>1, <3>2, <3>4, <4>1 DEF Mine, Exists
      <4>3. Mine(p)'
        BY <1>2, <4>2
      <4> QED
        BY <4>2, <4>3 DEF Mine, Exists
    <3> QED
      BY <3>1, <3>2, <3>4
  <2>2. CASE q = r
    <3>1. CASE pc'[r] = "over"
      BY <2>2, <3>1
    <3>2. CASE pc'[r] # "over"
      <4>1. PICK p \in Projects :
                Mine(p)' /\ pc'[r] = "answered" /\ job'[r].by = Me /\ job'[r].project = p
        BY <2>2, <3>2, PageServed
      <4>2. Mine(job[r].project)'
        BY <4>1 DEF Mine, Exists
      <4> QED
        BY <2>2, <4>1, <4>2
    <3> QED
      BY <3>1, <3>2
  <2> QED
    BY <2>1, <2>2
<1>5. ASSUME NEW q \in mine, pc'[q] \notin {"idle", "conflict", "over"} PROVE InFlight(q)
  <2>1. CASE q # r
    BY <1>1, <1>5, <2>1 DEF InFlight
  <2>2. CASE q = r
    BY <2>2, HandlerInFlight DEF InFlight
  <2> QED
    BY <2>1, <2>2
<1>6. \A q, s \in mine : pc'[q] \notin {"idle", "conflict", "over"}
                             /\ pc'[s] \notin {"idle", "conflict", "over"} => q = s
  BY <1>1, <1>5 DEF MineInv
<1>7. MineInv'
  BY <1>4, <1>6 DEF MineInv, InFlight
<1> QED
  BY <1>3, <1>7

\* What a request of the API changes the lists note, but for the project that a
\* request of the page creates: it is new, and the page will be told.
LEMMA ServedProjects ==
    ASSUME TypeInv, ListInv, NEW r \in Requests, Serve(r), NEW p \in Projects
    PROVE  \/ Same(p)
           \/ p \in ChangedBy /\ r \notin mine
           \/ p \in ChangedBy /\ r \in mine /\ ~Exists(p) /\ Coming(p)'
<1>1. Handler(r) /\ mine' = mine
  BY DEF Serve
<1>2. CASE p \notin ChangedBy
  BY <1>2 DEF ChangedBy, Same, Mine, Exists
<1>3. CASE p \in ChangedBy /\ r \in mine
  <2>1. ~UNCHANGED <<project, role>>
    BY <1>3 DEF ChangedBy
  <2>2. PICK x \in Projects :
            /\ ~Exists(x) /\ pc'[r] = "answered" /\ job'[r].project = x
            /\ \A q \in Projects : q # x => project'[q] = project[q] /\ role'[q] = role[q]
    BY <1>1, <1>3, <2>1, PageServed
  <2>3. x = p
    BY <1>3, <2>2 DEF ChangedBy
  <2> QED
    BY <1>1, <1>3, <2>2, <2>3 DEF Coming
<1> QED
  BY <1>2, <1>3

\* The answer a request of the page brings is to what it created just now.
LEMMA ServedComing ==
    ASSUME TypeInv, ListInv, NEW r \in Requests, Serve(r), NEW p \in Projects, Coming(p)'
    PROVE  Coming(p) \/ ~Exists(p)
<1>1. Handler(r) /\ mine' = mine
  BY DEF Serve
<1>2. PICK q \in mine : pc'[q] = "answered" /\ job'[q].project = p
  BY <1>1 DEF Coming
<1>3. CASE q # r
  BY <1>1, <1>2, <1>3, HandlerChanges DEF Coming, TypeInv, TabTypeInv
<1>4. CASE q = r
  BY <1>1, <1>2, <1>4, PageServed
<1> QED
  BY <1>3, <1>4

LEMMA ListServe ==
    ASSUME TypeInv, ListInv, NEW r \in Requests, Serve(r)
    PROVE  ListInv'
<1>1. /\ Handler(r) /\ Noticed(ChangedBy, r \in mine) /\ ChangedBy \in SUBSET Projects
      /\ mine' = mine /\ shown' = shown /\ crossed' = crossed
  BY DEF Serve, ChangedBy
<1>2. MineInv' /\ \A p \in Projects : Coming(p) => Coming(p)'
  BY <1>1, MineServed
<1>3. \A p \in Projects : Exists(p) => Exists(p)'
  BY <1>1, ProjectsStay
<1>4. \A p \in Projects : \/ Same(p)
                          \/ p \in ChangedBy /\ r \notin mine
                          \/ p \in ChangedBy /\ r \in mine /\ ~Exists(p) /\ Coming(p)'
  BY ServedProjects
<1>5. PICK ps \in SUBSET Projects : ps = ChangedBy
  BY <1>1
<1>6. /\ Noticed(ps, r \in mine)
      /\ \A p \in Projects : \/ Same(p)
                             \/ p \in ps /\ r \notin mine
                             \/ p \in ps /\ r \in mine /\ ~Exists(p) /\ Coming(p)'
  BY <1>1, <1>4, <1>5
<1>7. \A v \in Lists : /\ stale'[v] = IF v = "page" /\ r \in mine THEN stale[v] ELSE stale[v] \cup ps
                       /\ loads'[v] = IF v = "page" /\ r \in mine THEN loads[v] ELSE Outdated(v, ps)
  BY <1>6, NoticedLoads DEF Noticed
<1>8. \A v \in Lists :
          /\ DOMAIN Outdated(v, ps) = DOMAIN loads[v]
          /\ \A i \in DOMAIN loads[v] :
                 /\ Outdated(v, ps)[i].stage = loads[v][i].stage
                 /\ Outdated(v, ps)[i].entries = loads[v][i].entries
                 /\ loads[v][i].stage = "read" => Outdated(v, ps)[i].old = loads[v][i].old \cup ps
  BY OutdatedLoads
<1>9. LoadsInv'
  <2>1. \A i, j \in DOMAIN loads'["page"] : i = j
    BY <1>7, <1>8 DEF ListInv, LoadsInv, Lists
  <2>2. ASSUME NEW v \in Lists, NEW j \in DOMAIN loads'[v], loads'[v][j].stage = "read"
        PROVE  Knows(v, loads[v][j])'
    <3>1. PICK l, m : l = loads[v][j] /\ m = loads'[v][j]
      OBVIOUS
    <3>2. /\ j \in DOMAIN loads[v] /\ l.stage = "read" /\ m.entries = l.entries
          /\ m.old = IF v = "page" /\ r \in mine THEN l.old ELSE l.old \cup ps
      <4>1. CASE v = "page" /\ r \in mine
        BY <1>7, <2>2, <3>1, <4>1
      <4>2. CASE ~(v = "page" /\ r \in mine)
        <5>1. loads'[v] = Outdated(v, ps)
          BY <1>7, <4>2
        <5>2. j \in DOMAIN loads[v]
          BY <1>8, <2>2, <5>1
        <5>3. l.stage = "read" /\ m.entries = l.entries /\ m.old = l.old \cup ps
          BY <1>8, <2>2, <3>1, <5>1, <5>2
        <5> QED
          BY <4>2, <5>2, <5>3
      <4> QED
        BY <4>1, <4>2
    <3>3. l \in Load
      BY <3>1, <3>2, LoadsTyped DEF TypeInv, TabTypeInv
    <3>4. Knows(v, loads[v][j])
      BY <3>1, <3>2 DEF ListInv, LoadsInv
    <3>5. Knows(v, l)
      BY <3>1, <3>4
    <3>6. l.old \subseteq m.old
      BY <3>2
    <3>7. \A q \in Projects \ m.old :
              \/ /\ Same(q)
                 /\ \/ v # "page"
                    \/ Coming(q) \/ q \in Ids(shown["page"]) => Coming(q)' \/ q \in Ids(shown["page"])'
              \/ ~Exists(q) /\ v = "page" /\ Coming(q)'
      <4>1. \A q \in Projects : Coming(q) \/ q \in Ids(shown["page"])
                                    => Coming(q)' \/ q \in Ids(shown["page"])'
        BY <1>1, <1>2 DEF Ids
      <4> QED
        BY <1>6, <3>2, <4>1
    <3>8. Knows(v, m)'
      BY <1>3, <3>2, <3>3, <3>5, <3>6, <3>7, StillKnows
    <3> QED
      BY <3>1, <3>8 DEF Knows, Tells, Ids
  <2> QED
    BY <2>1, <2>2 DEF LoadsInv
<1>10. \A v \in Lists : \A e \in shown[v] : e.id \in Projects /\ Exists(e.id)
  BY DEF ListInv, OnceInv, TypeInv, TabTypeInv, Item
<1>11. ShownInv'
  <2> SUFFICES ASSUME NEW v \in Lists, NEW q \in Projects \ stale'[v] PROVE Right(v, q)'
    BY DEF ShownInv
  <2>1. Right(v, q) /\ (q \in ps => v = "page" /\ r \in mine)
    BY <1>7 DEF ListInv, ShownInv
  <2>2. CASE Same(q)
    BY <1>1, <1>2, <2>1, <2>2 DEF Right, Tells, Same, Ids
  <2>3. CASE ~Same(q)
    <3>1. v = "page" /\ ~Exists(q) /\ Coming(q)'
      BY <1>6, <2>1, <2>3
    <3>2. \A e \in shown'[v] : e.id # q
      BY <1>1, <1>10, <3>1
    <3> QED
      BY <3>1, <3>2 DEF Right, Tells
  <2> QED
    BY <2>2, <2>3
<1>12. OnceInv'
  <2>1. \A v \in Lists : \A e \in shown[v] :
            /\ Exists(e.id)'
            /\ (v = "page" /\ e.id \in crossed) \/ e.double = FALSE
    BY <1>3, <1>10 DEF ListInv, OnceInv
  <2>2. ASSUME NEW p \in Projects \ crossed, Coming(p)' PROVE p \notin Ids(shown["page"])
    <3>1. CASE Coming(p)
      BY <2>2, <3>1 DEF ListInv, OnceInv
    <3>2. CASE ~Exists(p)
      BY <1>10, <3>2 DEF Ids, Lists
    <3> QED
      BY <2>2, <3>1, <3>2, ServedComing
  <2> QED
    BY <1>1, <2>1, <2>2 DEF OnceInv, Exists, Ids
<1> QED
  BY <1>2, <1>9, <1>11, <1>12 DEF ListInv

LEMMA ListStep == TypeInv /\ ListInv /\ [Next]_vars => ListInv'
<1> SUFFICES ASSUME TypeInv, ListInv, [Next]_vars PROVE ListInv'
  OBVIOUS
<1>1. ASSUME UNCHANGED <<project, role, pc, job, mine>>, listVars' = listVars PROVE ListInv'
  BY <1>1, MineRests, ListRests DEF ListInv
<1>2. ASSUME NEW to \in Projects \cup {None}, Follow(to) \/ Go(to) PROVE ListInv'
  BY <1>2, ListVisit DEF Follow, Go
<1>3. ASSUME NEW i \in DOMAIN fetches, ReadProject(i) \/ ShowProject(i) \/ FetchFails(i)
      PROVE  ListInv'
  BY <1>1, <1>3 DEF ReadProject, ShowProject, FetchFails, projectVars, tables, requestVars
<1>4. ASSUME NEW v \in Lists, NEW i \in DOMAIN loads[v],
             Workspaces(v, i) \/ ReadList(v, i) \/ LoadFails(v, i)
      PROVE  ListInv'
  BY <1>4, ListLoads
<1>5. ASSUME NEW v \in Lists, NEW i \in DOMAIN loads[v], ShowList(v, i) PROVE ListInv'
  BY <1>5, ListShows
<1>6. CASE Toggle
  BY <1>6, ListToggle
<1>7. ASSUME NEW r \in Requests, AskElsewhere(r) PROVE ListInv'
  BY <1>7, ListAsks
<1>8. ASSUME NEW r \in Requests, Serve(r) PROVE ListInv'
  BY <1>8, ListServe
<1>9. ASSUME NEW r \in Requests, Created(r) PROVE ListInv'
  BY <1>9, ListCreated
<1>10. ASSUME NEW r \in Requests, AnswerElsewhere(r) PROVE ListInv'
  BY <1>10, ListElsewhere
<1>11. ASSUME NEW r \in Requests, AnswerLost(r) PROVE ListInv'
  BY <1>11, ListLost
<1>12. ASSUME NEW r \in Requests, NEW k \in Keys, NEW n \in Names, CreateProject(r, k, n)
       PROVE  ListInv'
  BY <1>12, ListCreates
<1>13. CASE UNCHANGED vars
  BY <1>1, <1>13 DEF vars, shellVars, projectVars, tables, requestVars
<1> QED
  BY <1>2, <1>3, <1>4, <1>5, <1>6, <1>7, <1>8, <1>9, <1>10, <1>11, <1>12, <1>13 DEF Next, TabStep

\* app/(app)/projects/page.tsx and components/shell/command-palette.tsx: however
\* loads, creations and their answers cross, a list that waits for nothing has
\* the user's projects once and with their names.  Excepted are what changed
\* elsewhere after the list was read, what was created and its answer lost, or
\* renamed before the answer; and what the page itself created while its list was
\* on the way, which a list read too early wipes out and one read too late shows
\* twice: of those only the name is claimed.
THEOREM ListsAreRight == Spec => []SettledListsAreRight
<1>1. Spec => []ListInv
  BY ListInit, ListStep, Typed, PTL DEF Spec
<1>2. TypeInv /\ ListInv => SettledListsAreRight
  <2> DEFINE here(v, p) == {e \in shown[v] : e.id = p}
             right(p) == {NewItem(q) : q \in {q \in {p} : Mine(q)}}
  <2> SUFFICES ASSUME TypeInv, ListInv, NEW v \in Lists, Settled(v), NEW p \in Projects \ stale[v]
               PROVE  IF v = "page" /\ p \in crossed
                      THEN \A e \in here(v, p) : Mine(p) /\ e.name = project[p].name
                      ELSE here(v, p) = right(p)
    BY DEF SettledListsAreRight
  <2>1. Right(v, p) /\ (v = "page" => ~Coming(p))
    BY DEF Settled, Coming, InFlight, ListInv, ShownInv
  <2>2. \A e \in here(v, p) : Mine(p) /\ e.name = project[p].name
    BY <2>1 DEF Right, Tells
  <2>3. ASSUME ~(v = "page" /\ p \in crossed) PROVE here(v, p) = right(p)
    <3>1. ASSUME NEW e \in here(v, p) PROVE e = NewItem(p) /\ Mine(p)
      <4>1. e \in Item /\ e.id = p /\ e.name = project[p].name
        BY <2>2 DEF TypeInv, TabTypeInv
      <4>2. e.double = FALSE
        BY <2>3, <4>1 DEF ListInv, OnceInv
      <4> QED
        BY <2>2, <4>1, <4>2 DEF Item, NewItem
    <3>2. Mine(p) => \E e \in shown[v] : e.id = p
      BY <2>1, <2>3 DEF Right, Ids
    <3>3. Mine(p) => NewItem(p) \in here(v, p)
      BY <3>1, <3>2
    <3>4. \A e : e \in right(p) <=> Mine(p) /\ e = NewItem(p)
      <4>1. \A q : q \in {x \in {p} : Mine(x)} <=> q = p /\ Mine(p)
        OBVIOUS
      <4> QED
        BY <4>1
    <3> HIDE DEF here, right
    <3>5. \A e : e \in here(v, p) <=> e \in right(p)
      BY <3>1, <3>3, <3>4
    <3>6. here(v, p) \subseteq right(p) /\ right(p) \subseteq here(v, p)
      BY <3>5
    <3> QED
      BY <3>6
  <2> QED
    BY <2>2, <2>3
<1> QED
  BY <1>1, <1>2, Typed, PTL
===============================================================================
