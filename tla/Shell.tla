--------------------------------- MODULE Shell ---------------------------------
(***************************************************************************)
(* One browser tab of the user Me over the projects of the API: the page   *)
(* that lists the projects (app/(app)/projects/page.tsx), the sidebar and  *)
(* the command palette (components/shell).  The latter two live as long as *)
(* the tab, the page as long as it is shown.  Each fetches on its own and  *)
(* hears of nothing that happens later.                                    *)
(*                                                                         *)
(* Effects start fetches and none is cancelled when its effect runs again. *)
(* A list is the set of its items; `double` tells the second of two items  *)
(* of one project.  The history variables are `doubt`, the sidebar may be  *)
(* wrong, `stale`, the projects a list may be wrong about, and `crossed`,  *)
(* those the page created while its list was on the way, whose answers     *)
(* came before a list without them, or are to come after one with them.    *)
(***************************************************************************)
EXTENDS Projects, Sequences, SequencesExt

CONSTANTS
    Me,
    WatchedSets,    \* bound: the parts of the tab that are followed together
    MaxFetches,     \* bound: fetches of the sidebar on their way
    MaxLoads        \* bound: loads of a list on their way

ASSUME MeAssumption == Me \in Users
ASSUME WatchedAssumption == WatchedSets \subseteq SUBSET {"page", "sidebar", "palette"}

Lists == {"page", "palette"}

VARIABLES
    watched,
    path,           \* the project in the path, None on /projects or if nobody looks
    named,          \* the sidebar's project: its id and name, or None
    fetches,        \* of the sidebar, in the order they were sent
    workspace,      \* the page knows its workspace
    mine,           \* requests of the page that is shown now
    open,           \* the palette is open
    shown,          \* projects of the page and of the palette
    loads,          \* of a list, in the order they were begun
    doubt, stale, crossed

sidebarVars == <<named, fetches, doubt>>
listVars == <<shown, loads, stale, crossed>>
shellVars == <<watched, path, sidebarVars, workspace, mine, open, listVars>>
vars == <<projectVars, shellVars>>

Entry == [id : Projects, name : Names]

NewEntry(p) == [id |-> p, name |-> project[p].name]

Item == [id : Projects, name : Names, double : BOOLEAN]

NewItem(p) == [id |-> p, name |-> project[p].name, double |-> FALSE]

Ids(items) == {e.id : e \in items}

Fetch == [project : Projects, current : BOOLEAN, read : BOOLEAN, name : Names \cup {None},
          old : BOOLEAN]

NewFetch(p) == [project |-> p, current |-> TRUE, read |-> FALSE, name |-> None, old |-> FALSE]

Load == [stage : {"workspaces", "projects", "read"}, entries : SUBSET Item,
         old : SUBSET Projects]

NewLoad == [stage |-> "workspaces", entries |-> {}, old |-> {}]

\* The palette does not look at the project in the path.
PathMatters == watched # {"palette"}

Init ==
    /\ ProjectsInit
    /\ watched \in WatchedSets
    /\ path \in {p \in Projects : PathMatters /\ Exists(p)} \cup {None}
    /\ named = None
    /\ fetches = IF "sidebar" \in watched /\ path # None THEN <<NewFetch(path)>> ELSE <<>>
    /\ workspace = FALSE
    /\ mine = {}
    /\ open = FALSE
    /\ shown = [v \in Lists |-> {}]
    /\ loads = [v \in Lists |-> IF v = "page" /\ v \in watched /\ path = None
                                THEN <<NewLoad>> ELSE <<>>]
    /\ doubt = FALSE
    /\ stale = [v \in Lists |-> Projects]
    /\ crossed = {}

InFlight(r) == pc[r] \notin {"idle", "conflict", "over"}

Current(f) == f.current

\* An answer to the sidebar is on its way that will be the right one.
Waiting == \E i \in DOMAIN fetches : Current(fetches[i])

-------------------------------------------------------------------------------
(***************************************************************************)
(* Navigation                                                              *)
(***************************************************************************)

Superseded ==
    [i \in DOMAIN fetches |-> [fetches[i] EXCEPT !.current = FALSE, !.old = FALSE]]

\* The sidebar asks for a project only while it has none.
FetchFirst(to) == IF named = None THEN Append(Superseded, NewFetch(to)) ELSE Superseded

\* The effect runs for every new projectId; the answers to the former go on.
FetchFor(to) == Append(Superseded, NewFetch(to))

\* Until the answer, the sidebar shows the project it had.
SidebarVisits(to) ==
    IF "sidebar" \notin watched \/ to = path THEN UNCHANGED sidebarVars
    ELSE /\ doubt' = FALSE
         /\ IF to = None THEN named' = None /\ fetches' = Superseded
            ELSE /\ Len(fetches) < MaxFetches
                 /\ fetches' = FetchFor(to) /\ UNCHANGED named

\* The page is mounted, with a load, or unmounted: it forgets everything.
PageVisits(to) ==
    IF "page" \notin watched \/ to = path \/ None \notin {to, path}
    THEN UNCHANGED <<workspace, mine, listVars>>
    ELSE /\ workspace' = FALSE
         /\ mine' = {}
         /\ shown' = [shown EXCEPT !["page"] = {}]
         /\ loads' = [loads EXCEPT !["page"] = IF to = None THEN <<NewLoad>> ELSE <<>>]
         /\ stale' = [stale EXCEPT !["page"] = Projects]
         /\ crossed' = {}

Visit(to) ==
    /\ to # None => Exists(to)
    /\ path' = IF PathMatters THEN to ELSE path
    /\ SidebarVisits(to)
    /\ PageVisits(to)
    /\ UNCHANGED <<projectVars, watched>>

\* A link of the page or of the sidebar, or the address bar.
Follow(to) == PathMatters /\ ~open /\ to # path /\ Visit(to) /\ UNCHANGED open

\* An item of the palette, which closes: "Projects", or a project of its list.
Go(to) ==
    /\ open
    /\ to = None \/ \E e \in shown["palette"] : e.id = to
    /\ Visit(to)
    /\ open' = FALSE

-------------------------------------------------------------------------------
(***************************************************************************)
(* The sidebar                                                             *)
(***************************************************************************)

\* GetProject.
ReadProject(i) ==
    LET p == fetches[i].project IN
    /\ ~fetches[i].read
    /\ role[p][Me] # None
    /\ fetches' = [fetches EXCEPT ![i].read = TRUE, ![i].name = project[p].name]
    /\ UNCHANGED <<projectVars, watched, path, named, workspace, mine, open, listVars, doubt>>

\* then(setProject): the answer is shown, whichever project the path has now.
ShowProject(i) ==
    LET f == fetches[i] IN
    /\ f.read
    /\ named' = [id |-> f.project, name |-> f.name]
    /\ doubt' = IF Current(f) THEN f.old ELSE ~Waiting
    /\ fetches' = RemoveAt(fetches, i)
    /\ UNCHANGED <<projectVars, watched, path, workspace, mine, open, listVars>>

\* catch(() => {}): no member, an error or a lost answer.  What is shown stays.
FetchFails(i) ==
    /\ doubt' = (doubt \/ Current(fetches[i]))
    /\ fetches' = RemoveAt(fetches, i)
    /\ UNCHANGED <<projectVars, watched, path, named, workspace, mine, open, listVars>>

-------------------------------------------------------------------------------
(***************************************************************************)
(* The lists                                                               *)
(***************************************************************************)

\* ListWorkspaces.  The page offers "New project" from now on.
Workspaces(v, i) ==
    /\ loads[v][i].stage = "workspaces"
    /\ loads' = [loads EXCEPT ![v][i].stage = "projects"]
    /\ workspace' = (workspace \/ v = "page")
    /\ UNCHANGED <<projectVars, watched, path, sidebarVars, mine, open, shown, stale, crossed>>

\* ListProjects: of the workspace, those the caller is a member of.
Mine(p) == Exists(p) /\ project[p].workspace = Me /\ role[p][Me] # None

ReadList(v, i) ==
    /\ loads[v][i].stage = "projects"
    /\ loads' = [loads EXCEPT ![v][i].stage = "read",
                              ![v][i].entries = {NewItem(p) : p \in {q \in Projects : Mine(q)}}]
    /\ UNCHANGED <<projectVars, watched, path, sidebarVars, workspace, mine, open, shown, stale,
                   crossed>>

\* The lazy load of the palette, when it opens or its list becomes empty.
LazyLoad(left, isOpen, list) == IF isOpen /\ list = {} THEN Append(left, NewLoad) ELSE left

\* Projects the page has created, and not heard of yet.
Awaited == {job[r].project : r \in {q \in mine : pc[q] = "answered"}}

\* setProjects: the list is what was read, whatever came meanwhile.
ShowList(v, i) ==
    LET l == loads[v][i]
        left == RemoveAt(loads[v], i) IN
    /\ l.stage = "read"
    /\ shown' = [shown EXCEPT ![v] = l.entries]
    /\ loads' = [loads EXCEPT ![v] =
           IF v = "palette" /\ shown[v] # {} THEN LazyLoad(left, open, l.entries) ELSE left]
    /\ stale' = [stale EXCEPT ![v] = l.old]
    /\ crossed' = IF v # "page" THEN crossed
                  ELSE (Ids(shown[v]) \ Ids(l.entries)) \cup (Awaited \cap Ids(l.entries))
    /\ UNCHANGED <<projectVars, watched, path, sidebarVars, workspace, mine, open>>

\* Either GET fails.  The page says nothing of it.
LoadFails(v, i) ==
    /\ loads' = [loads EXCEPT ![v] = RemoveAt(@, i)]
    /\ UNCHANGED <<projectVars, watched, path, sidebarVars, workspace, mine, open, shown, stale,
                   crossed>>

\* The search field, the key, or Escape.
Toggle ==
    /\ "palette" \in watched
    /\ open' = ~open
    /\ loads' = [loads EXCEPT !["palette"] = LazyLoad(@, ~open, shown["palette"])]
    /\ Len(loads'["palette"]) <= MaxLoads
    /\ UNCHANGED <<projectVars, watched, path, sidebarVars, workspace, mine, shown, stale, crossed>>

-------------------------------------------------------------------------------
(***************************************************************************)
(* Creating a project from the page                                        *)
(***************************************************************************)

\* The form, whose button is disabled while its answer is out.
CreateProject(r, k, n) ==
    /\ "page" \in watched /\ path = None /\ workspace
    /\ ~\E q \in mine : InFlight(q)
    /\ CountKey(r, Me, k, n)
    /\ mine' = mine \cup {r}
    /\ UNCHANGED <<watched, path, sidebarVars, workspace, open, listVars>>

\* The list is only what was created.
Instead(list, p, n) == {[id |-> p, name |-> n, double |-> FALSE]}

\* setProjects((prev) => [project, ...prev]), whatever is there.
Joined(list, p, n) == list \cup {[id |-> p, name |-> n, double |-> p \in Ids(list)]}

\* The answer reaches the page that asked, and the project joins its list.  The
\* answer may be older than a new name.
Created(r) ==
    LET p == job[r].project
        n == job[r].name IN
    /\ r \in mine /\ Receive(r)
    /\ shown' = [shown EXCEPT !["page"] = Joined(@, p, n)]
    /\ stale' = [stale EXCEPT !["page"] = @ \cup {q \in {p} : project[p].name # n}]
    /\ UNCHANGED <<watched, path, sidebarVars, workspace, mine, open, loads, crossed>>

\* The loads of a list; those that have been read know less than there is.
Outdated(v, ps) ==
    [i \in DOMAIN loads[v] |->
        IF loads[v][i].stage = "read" THEN [loads[v][i] EXCEPT !.old = @ \cup ps] ELSE loads[v][i]]

\* Nobody is there for the answer: the page that asked is gone, or another
\* asked.
AnswerElsewhere(r) == r \notin mine /\ Receive(r) /\ UNCHANGED shellVars

\* catch: the answer is lost, and the page calls the creation a failure.
AnswerLost(r) ==
    LET p == job[r].project IN
    /\ r \in mine /\ Receive(r)
    /\ stale' = [stale EXCEPT !["page"] = @ \cup {p}]
    /\ loads' = [loads EXCEPT !["page"] = Outdated("page", {p})]
    /\ UNCHANGED <<watched, path, sidebarVars, workspace, mine, open, shown, crossed>>

-------------------------------------------------------------------------------

\* Projects changed behind the tab, or for a request of the page, which will be
\* told.
Noticed(ps, told) ==
    /\ fetches' = [i \in DOMAIN fetches |->
           IF fetches[i].read /\ Current(fetches[i]) /\ fetches[i].project \in ps
           THEN [fetches[i] EXCEPT !.old = TRUE] ELSE fetches[i]]
    /\ doubt' = (doubt \/ (path \in ps /\ ~Waiting))
    /\ loads' = [v \in Lists |-> IF v = "page" /\ told THEN loads[v] ELSE Outdated(v, ps)]
    /\ stale' = [v \in Lists |-> IF v = "page" /\ told THEN stale[v] ELSE stale[v] \cup ps]

\* The API goes on with a request of whomever.
Serve(r) ==
    /\ Handler(r)
    /\ Noticed({p \in Projects : project'[p] # project[p] \/ role'[p][Me] # role[p][Me]}, r \in mine)
    /\ UNCHANGED <<watched, path, named, workspace, mine, open, shown, crossed>>

\* Somebody asks the API for something, not through this tab.
AskElsewhere(r) == Ask(r) /\ UNCHANGED shellVars

TabStep ==
    \/ \E to \in Projects \cup {None} : Follow(to) \/ Go(to)
    \/ \E i \in DOMAIN fetches : ReadProject(i) \/ ShowProject(i) \/ FetchFails(i)
    \/ \E v \in Lists : \E i \in DOMAIN loads[v] :
           Workspaces(v, i) \/ ReadList(v, i) \/ ShowList(v, i) \/ LoadFails(v, i)
    \/ Toggle

Next ==
    \/ TabStep
    \/ \E r \in Requests :
           \/ AskElsewhere(r) \/ Serve(r)
           \/ Created(r) \/ AnswerElsewhere(r) \/ AnswerLost(r)
           \/ \E k \in Keys, n \in Names : CreateProject(r, k, n)

Spec == Init /\ [][Next]_vars

-------------------------------------------------------------------------------
(***************************************************************************)
(* Properties                                                              *)
(***************************************************************************)

TypeOK ==
    /\ ProjectsTypeOK
    /\ watched \in WatchedSets
    /\ path \in Projects \cup {None}
    /\ named \in Entry \cup {None}
    /\ \A i \in DOMAIN fetches : fetches[i] \in Fetch
    /\ workspace \in BOOLEAN
    /\ mine \subseteq Requests
    /\ open \in BOOLEAN
    /\ shown \in [Lists -> SUBSET Item]
    /\ \A v \in Lists : \A i \in DOMAIN loads[v] : loads[v][i] \in Load
    /\ doubt \in BOOLEAN
    /\ stale \in [Lists -> SUBSET Projects]
    /\ crossed \subseteq Projects

\* Once it has its answer, the sidebar names the project of the path, and not
\* one that was left: unless the fetch failed, the project has changed since it
\* was read, or the answer to an older fetch came last.
SidebarTellsProject ==
    "sidebar" \in watched /\ path # None /\ ~Waiting /\ ~doubt => named = NewEntry(path)

\* A list nothing is on its way to.
Settled(v) ==
    /\ v \in watched /\ loads[v] = <<>>
    /\ v = "page" => path = None /\ ~\E r \in mine : InFlight(r)

\* The page and the palette list the projects of the user's workspace once and
\* with their names, also when the answer to a creation comes before the list,
\* but for what
\*   - changed elsewhere after the list was read, or with no list read at all,
\*   - the page created, if the answer was lost or the name changed before it, and
\*   - the page created while its list was on the way, if the answer came before
\*     a list that was read too early, or after one that has it: that is missing,
\*     or listed twice, but with its name.
SettledListsAreRight ==
    \A v \in Lists : Settled(v) =>
        \A p \in Projects \ stale[v] :
            LET here == {e \in shown[v] : e.id = p} IN
            IF v = "page" /\ p \in crossed
            THEN \A e \in here : Mine(p) /\ e.name = project[p].name
            ELSE here = {NewItem(q) : q \in {q \in {p} : Mine(q)}}
===============================================================================
