-------------------------------- MODULE Projects --------------------------------
(***************************************************************************)
(* Projects and their members at the API (handlers/projects.go,            *)
(* handlers/permissions.go).                                               *)
(*                                                                         *)
(* A user has one workspace, made at registration, and no handler adds     *)
(* another member to it: the workspace of a project is the user who        *)
(* created it.  The handlers look, and write in a later statement: a key   *)
(* that was free, a member who was not there and a role that sufficed may  *)
(* have changed in between.  The history variables are `raced`, requests   *)
(* whose last look is out of date or failed, `demoted`, requests whose     *)
(* user has lost the role they were let in with, and `twins`, projects     *)
(* created by a request that had raced.                                    *)
(***************************************************************************)
EXTENDS Integers

CONSTANTS
    Users,
    Projects,   \* identities of rows
    Keys, Names,
    Asked,      \* bound: the roles that are asked for
    Others,     \* bound: the roles at first of those who did not create a project
    Requests,   \* what is asked of the API, once each
    None        \* no row, no role

\* projectRoleRank.
Rank == [viewer |-> 1, member |-> 2, admin |-> 3, owner |-> 4]
Roles == DOMAIN Rank

Row == [workspace : Users, key : Keys, name : Names]

ASSUME AskedAssumption == Asked \subseteq Roles
ASSUME OthersAssumption == Others \subseteq (Roles \ {"owner"}) \cup {None}
ASSUME NoneAssumption ==
    /\ None \notin Users /\ None \notin Projects /\ None \notin Keys /\ None \notin Names
    /\ None \notin Roles /\ None \notin Row

VARIABLES
    project,    \* the projects table: a row, or None
    role,       \* the project_members table: the role of a user, or None
    pc, job,    \* where a request is, and what it asks
    raced, demoted, twins

tables == <<project, role>>
requestVars == <<pc, job>>
historyVars == <<raced, demoted, twins>>
projectVars == <<tables, requestVars, historyVars>>

Job == [kind : {"", "create", "rename", "member"}, by : Users \cup {None},
        project : Projects \cup {None}, user : Users \cup {None},
        key : Keys \cup {None}, name : Names \cup {None}, role : Roles \cup {None}]

NoJob == [kind |-> "", by |-> None, project |-> None, user |-> None,
          key |-> None, name |-> None, role |-> None]

Exists(p) == project[p] # None

Clash(p, q) ==
    /\ Exists(p) /\ Exists(q)
    /\ project[p].workspace = project[q].workspace /\ project[p].key = project[q].key

\* Any projects whose creators have not been given another role.
ProjectsInit ==
    /\ project \in [Projects -> Row \cup {None}]
    /\ role \in [Projects -> [Users -> Others \cup {"owner", None}]]
    /\ \A p \in Projects :
           IF Exists(p)
           THEN \A u \in Users : IF u = project[p].workspace THEN role[p][u] = "owner"
                                ELSE role[p][u] \in Others
           ELSE role[p] = [u \in Users |-> None]
    /\ \A p, q \in Projects : Clash(p, q) => p = q
    /\ pc = [r \in Requests |-> "idle"]
    /\ job = [r \in Requests |-> NoJob]
    /\ raced = {} /\ demoted = {} /\ twins = {}

-------------------------------------------------------------------------------

Goto(r, l) == pc' = [pc EXCEPT ![r] = l]

\* The request ends.  What it was about is of no more interest.
Over(r, l) ==
    /\ Goto(r, l)
    /\ job' = [job EXCEPT ![r] = NoJob]

\* A request is let in, and goes on at l.  One that is refused changes nothing.
LetThrough(r, l, j) ==
    /\ pc[r] = "idle"
    /\ Goto(r, l)
    /\ job' = [job EXCEPT ![r] = j]
    /\ UNCHANGED <<tables, demoted, twins>>

-------------------------------------------------------------------------------
(***************************************************************************)
(* CreateProject                                                           *)
(***************************************************************************)

InWorkspace(u, k) ==
    {p \in Projects : Exists(p) /\ project[p].workspace = u /\ project[p].key = k}

\* The count is not looked at.
NeverTaken(u, k) == FALSE

Taken(u, k) == InWorkspace(u, k) # {}

\* Is there a project with that key?  An error of the count reads as a no.
CountKey(r, u, k, n) ==
    /\ LetThrough(r, "insert", [NoJob EXCEPT !.kind = "create", !.by = u, !.key = k, !.name = n])
    /\ \/ ~Taken(u, k) /\ UNCHANGED raced
       \/ raced' = raced \cup {r}

\* Requests that have counted this key of this workspace before now.
Counted(u, k) ==
    {q \in Requests : pc[q] = "insert" /\ job[q].by = u /\ job[q].key = k}

\* Members of a project that has just been created.
OwnerRow(u) == [v \in Users |-> IF v = u THEN "owner" ELSE None]

\* The project is there, and its owner is not yet.
NoOwnerRow(u) == [v \in Users |-> None]

FirstMembers(u) == OwnerRow(u)

\* The transaction of project and owner.
InsertProject(r, p) ==
    LET u == job[r].by
        k == job[r].key IN
    /\ pc[r] = "insert" /\ ~Exists(p)
    /\ project' = [project EXCEPT ![p] = [workspace |-> u, key |-> k, name |-> job[r].name]]
    /\ role' = [role EXCEPT ![p] = FirstMembers(u)]
    /\ Goto(r, "answered")
    /\ job' = [job EXCEPT ![r].project = p]
    /\ twins' = IF r \in raced THEN twins \cup {p} ELSE twins
    /\ raced' = (raced \cup Counted(u, k)) \ {r}
    /\ UNCHANGED demoted

-------------------------------------------------------------------------------
(***************************************************************************)
(* UpdateProject and AddProjectMember                                      *)
(***************************************************************************)

\* Every member may.
AnyMember(u, p) == role[p][u] # None

\* roleAtLeast(role, "admin") of the member that loadProjectForMember found.
MayAdminister(u, p) == role[p][u] # None /\ Rank[role[p][u]] >= Rank["admin"]

Admins(p) == {u \in Users : role[p][u] # None /\ Rank[role[p][u]] >= Rank["admin"]}

\* Both begin with loadProjectForMember and the check of the role.  A project
\* that is not there has no members.
CheckRename(r, u, p, n) ==
    /\ MayAdminister(u, p)
    /\ LetThrough(r, "write", [NoJob EXCEPT !.kind = "rename", !.by = u, !.project = p, !.name = n])
    /\ UNCHANGED raced

CheckMember(r, u, p, v, l) ==
    /\ MayAdminister(u, p)
    /\ LetThrough(r, "find", [NoJob EXCEPT !.kind = "member", !.by = u, !.project = p,
                                          !.user = v, !.role = l])
    /\ UNCHANGED raced

\* Updates of the name.  Archiving, description and lead are such columns too.
Rename(r) ==
    /\ pc[r] = "write"
    /\ project' = [project EXCEPT ![job[r].project].name = job[r].name]
    /\ Over(r, "over")
    /\ demoted' = demoted \ {r}
    /\ UNCHANGED <<role, raced, twins>>

\* First is not asked, or its answer not looked at.
NeverThere(p, v) == FALSE

IsMember(p, v) == role[p][v] # None

\* First of the member; any error of it reads as a no.
FindMember(r) ==
    /\ pc[r] = "find"
    /\ LET there == IsMember(job[r].project, job[r].user) IN
       \/ there /\ Goto(r, "update") /\ UNCHANGED raced
       \/ ~there /\ Goto(r, "add") /\ UNCHANGED raced
       \/ Goto(r, "add") /\ raced' = raced \cup {r}
    /\ UNCHANGED <<tables, job, demoted, twins>>

\* Requests v was let in with, if role l would not have done.
LetIn(p, v, l) ==
    {q \in Requests : /\ pc[q] \in {"find", "update", "add", "write"}
                      /\ job[q].by = v /\ job[q].project = p
                      /\ Rank[l] < Rank["admin"]}

\* Update of the role, whose error is ignored.
UpdateMember(r) ==
    LET p == job[r].project
        v == job[r].user
        l == job[r].role IN
    /\ pc[r] = "update"
    /\ Over(r, "over")
    /\ \/ /\ role' = [role EXCEPT ![p][v] = l]
          /\ demoted' = (demoted \cup LetIn(p, v, l)) \ {r}
       \/ UNCHANGED role /\ demoted' = demoted \ {r}
    /\ UNCHANGED <<project, raced, twins>>

\* Requests that looked for this member before now, and found none.
Missed(p, v) ==
    {q \in Requests : pc[q] = "add" /\ job[q].project = p /\ job[q].user = v}

\* Create, against the unique index on project and user.
AddMember(r) ==
    LET p == job[r].project
        v == job[r].user IN
    /\ pc[r] = "add"
    /\ \/ /\ role[p][v] = None
          /\ role' = [role EXCEPT ![p][v] = job[r].role]
          /\ raced' = (raced \cup Missed(p, v)) \ {r}
          /\ Over(r, "over")
       \/ /\ role[p][v] # None
          /\ Over(r, "conflict")
          /\ UNCHANGED <<role, raced>>
    /\ demoted' = demoted \ {r}
    /\ UNCHANGED <<project, twins>>

\* An error of any statement, or a lost request.
Fail(r) ==
    /\ pc[r] \in {"insert", "find", "write", "add"}
    /\ Over(r, "over")
    /\ raced' = raced \ {r}
    /\ demoted' = demoted \ {r}
    /\ UNCHANGED <<tables, twins>>

\* The answer to a creation reaches whoever asked, or nobody.
Receive(r) ==
    /\ pc[r] = "answered"
    /\ Over(r, "over")
    /\ UNCHANGED <<tables, historyVars>>

-------------------------------------------------------------------------------

\* Somebody asks the API for something.
Ask(r) ==
    \E u \in Users :
        \/ \E k \in Keys, n \in Names : CountKey(r, u, k, n)
        \/ \E p \in Projects :
               \/ \E n \in Names : CheckRename(r, u, p, n)
               \/ \E v \in Users, l \in Asked : CheckMember(r, u, p, v, l)

Handler(r) ==
    \/ \E p \in Projects : InsertProject(r, p)
    \/ Rename(r) \/ FindMember(r) \/ UpdateMember(r) \/ AddMember(r) \/ Fail(r)

ProjectsNext == \E r \in Requests : Ask(r) \/ Handler(r) \/ Receive(r)

ProjectsSpec == ProjectsInit /\ [][ProjectsNext]_projectVars

-------------------------------------------------------------------------------
(***************************************************************************)
(* Properties                                                              *)
(***************************************************************************)

\* "Create the project and the owner membership atomically": every project has
\* a member, and nobody is a member of a project that is not there.
NoOrphans == \A p \in Projects : Exists(p) <=> \E u \in Users : role[p][u] # None

ProjectsTypeOK ==
    /\ project \in [Projects -> Row \cup {None}]
    /\ role \in [Projects -> [Users -> Roles \cup {None}]]
    /\ pc \in [Requests -> {"idle", "insert", "find", "update", "add", "write",
                            "answered", "conflict", "over"}]
    /\ job \in [Requests -> Job]
    /\ raced \subseteq Requests
    /\ demoted \subseteq Requests
    /\ twins \subseteq Projects
    /\ NoOrphans

\* Two projects of a workspace have one key only if the second was counted
\* before the first was inserted, or the count failed.
KeysDistinct ==
    \A p, q \in Projects : Clash(p, q) /\ p # q => p \in twins \/ q \in twins

\* An admin's call to add somebody fails for the unique index only if another
\* call had added the same user meanwhile, or the look-up failed: never because
\* the user was a member already.
ConflictsAreRaces == \A r \in Requests : pc[r] = "conflict" => r \in raced

\* A project loses the last who may administer it only by that user's own
\* request, or when two requests overlap: the one who asked had lost the right
\* after the check.  Nobody else's request can, and nothing forbids the former.
LockedOutKnowingly ==
    [][\A p \in Projects : Admins(p) # {} /\ Admins(p)' = {} =>
        \E r \in Requests :
            /\ pc[r] = "update" /\ pc'[r] = "over" /\ job[r].project = p
            /\ job[r].by = job[r].user \/ r \in demoted]_projectVars
===============================================================================
