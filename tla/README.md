# Clever Sloth in TLA+

Clever Sloth is an issue tracker: a Go API (Fiber, GORM, PostgreSQL, MinIO), a
Next.js board that is kept current over WebSockets, and a Kubernetes operator.
This directory specifies the parts where several actors meet, checks small
instances with TLC and proves the main safety properties for all instances with
TLAPS.

Paths below are relative to `src/`; `handlers/` and `ws/` are under
`apps/api/internal/`.

## The system

| Part | State | Operations | Meets |
|---|---|---|---|
| Issue handlers, `handlers/issues.go` | tables `issues`, `activities`, `projects.issue_seq` | CreateIssue, UpdateIssue, DeleteIssue; reads | sprints (same rows), hub (after a commit) |
| Sprint handlers, `handlers/sprints.go` | table `sprints`, `issues.sprint_id` | Create, Update, Start, Complete | issues |
| Hub, `ws/hub.go` | map of rooms, one bounded channel per client, an RWMutex | Register, Unregister, Broadcast | sockets, every issue handler |
| Board socket, `handlers/ws.go` | a reader and a writer goroutine per connection | upgrade guard, BoardSocket | hub, the browser |
| Browser board, `apps/web/app/(app)/projects/[projectId]/page.tsx` | columns of cards | fetch, apply event, optimistic drop | board and issue routes, socket |
| Backlog, sprint and dashboard pages, `projects/[projectId]/*/page.tsx` | a copy of issues and sprints, loaded once | create, assign, re-status, start, complete | issue and sprint routes |
| Issue dialog, `components/board/issue-detail.tsx` | texts, comments, attachments of the selected issue | edit, comment, upload, remove, delete | board page, issue, comment and attachment routes, MinIO |
| Web shell, `components/shell`, `app/(app)/projects/page.tsx` | the project in the sidebar, lists of projects | navigate, open the palette, create a project | project routes |
| Browser session, `apps/web/lib/api.ts`, `store/auth.ts` | token pair in each tab and in localStorage | sign up and in, call, refresh on 401 and retry, logout | auth handlers |
| Auth, `handlers/auth.go`, `auth/jwt.go` | users, workspaces; signed tokens, no server-side session | Register, Login, Refresh, Logout, Me | browser session |
| Projects and members, `handlers/projects.go`, `permissions.go` | projects, project_members | CreateProject, UpdateProject, AddProjectMember | gate of every handler |
| Attachments, comments, `handlers/attachments.go`, `comments.go` | rows; objects in MinIO | create + presign + upload, download, delete; comment | issues (no foreign key), MinIO, browser |
| Startup and probes, `cmd/server/main.go`, `database.go`, `storage/minio.go`, `server.go` | db handle, bucket, health | connect with retry, migrate, ensure bucket, probes, shutdown | kubelet |
| Operator, `k8s/operator` | custom resource, namespace, role, binding, policy | Reconcile | Kubernetes API |

What is hard: every handler loads a row in one statement and writes in a later
one; the broadcast leaves after the commit; broadcasts, sockets and their writers
share channels that one of them closes; the browser merges answers, events and
its own guesses; nothing survives in memory when a pod dies.

What makes each part correct:

* Issues: a project's keys are unique and without holes; the audit trail accounts
  for every status; an update writes what its body names; a deletion is final; no
  event without a commit.
* Sprints: completion moves the unfinished issues, and only those, to the backlog.
* Hub and sockets: no send on a closed channel; rooms hold the live clients and
  nothing else; nobody is passed over or served out of order; a slow client holds
  nobody up; a lost connection leaves nothing behind.
* Board: once all is quiet, it shows what the tables hold.
* Pages: what they show is what the tables held when they asked, or what they asked
  for themselves, in whatever order answers come.
* Session: only sign-ups that overlap are refused with an unhelpful error; an expired
  access token is nobody's problem while the refresh token lives; whom a browser acts for
  is the user's choice.
* Projects: one project per key; a member is added once; somebody can administer it.
* Attachments: the bucket holds what the table lists.
* Startup: a pod that can reach its database becomes ready.
* Operator: whatever crashes, reconciles end with all objects there, and `Ready`
  means that they are.

The list of hazards, each at its line and with the properties that watch it, is in
`PROJECT.json`.

## Modules

| Module | What it is |
|---|---|
| `IssueKeys` | What key allocation promises: the next number in one step, kept for ever |
| `IssueTracker` | The issue and sprint handlers over PostgreSQL, statement by statement |
| `MCIssueTracker` | Its instance for TLC |
| `IssueTracker_proofs` | Its theorems |
| `Hub` | Rooms, channels, the RWMutex, and the goroutines of sockets and broadcasts |
| `Hub_proofs` | Its theorems |
| `BoardSync` | Boards in browsers that follow the tables through a fetch, events and answers |
| `MCBoardSync` | Its instance for TLC |
| `BoardSync_proofs` | Its theorems |
| `Session` | Tabs of a browser that sign up, in and out, and refresh expired tokens |
| `Planning` | The backlog, sprint and dashboard pages over issues and sprints |
| `IssueDialog` | The issue dialog, comments, attachments and the bucket |
| `Projects` | Projects and members at the API, statement by statement |
| `Shell` | The sidebar, the palette and the page of projects in one tab, over `Projects` |
| `MCSession`, `MCPlanning`, `MCIssueDialog`, `MCShell` | Their instances for TLC |
| `Session_proofs`, `Planning_proofs`, `IssueDialog_proofs` | Their theorems |
| `Shell_proofs` | The theorems of `Projects`, of `Shell`, and that `Shell` implements `Projects` |
| `Charts` | Tallies and percentages of the dashboard and of the sprint page |
| `BoardRank` | Where a dropped card goes and what rank it gets |
| `Algorithms_proofs` | Theorems about these two |

### IssueTracker

A *request* is one HTTP call. `pc[r]` is its next statement; `copy[r]` is the
handler's variable `issue`, `patch[r]` the body, `mine[r]` the issue's id.

| Code | Actions |
|---|---|
| CreateIssue | `BeginCreate`, `LockProject` (SELECT ... FOR UPDATE), `CommitCreate` (UPDATE issue_seq, INSERT, COMMIT), `Broadcast` |
| UpdateIssue | `LoadForUpdate`, `CommitUpdate` (UPDATE, INSERT activities, COMMIT), `Reload`, `Broadcast` |
| DeleteIssue | `LoadForDelete`, `Delete`, `Broadcast` |
| CreateSprint, StartSprint | one action each: one statement that changes state |
| CompleteSprint | `LoadForComplete`; `Sweep` (the snapshot of UPDATE issues) and a `SweepRow` for each of its rows; `CommitComplete` (UPDATE sprints, COMMIT) |
| any error, a dead pod | `Fail`: rollback, locks released, nothing more is done |
| PostgreSQL's deadlock detector | `AbortDeadlock`: one of the sweeps that wait for each other fails |

A transaction is one step, its commit, when it writes rows and reads none before:
under READ COMMITTED nobody sees its writes earlier, and those who want its rows
wait. `CreateIssue` reads under a lock first, so it has a step for that.
`CompleteSprint` changes many rows in one statement. Its snapshot (`matched`) is one
step; then each row is locked in a step of its own, in any order, when nobody else
holds it, tested again as PostgreSQL does with a row that was changed while the
statement waited, and kept locked (`swept`) until the commit. Two completions of a sprint
may therefore each hold a row the other waits for. `Deadlocked` is such a circle of any
length; the handlers do not avoid it, and only PostgreSQL's detector ends it.
Without `AbortDeadlock`, `EveryRequestEnds` is violated.

Deleting an issue removes its row. The model keeps the row for the properties
and has its id in `deleted`; `InTable` is what a query finds. `published` is the
set of events handed to the hub. Their order is not kept here, since no
property of this module is about it.

Left out: columns other than project, number, status and sprint (patched by the
same statement, read by no handler), so `UpdateSprint` is a step that changes
nothing here; roles, which may only refuse a request; parsing.

### Hub

A client's handler goroutine goes through `Connect`, `AnnounceLock`, `Register`,
`ReadError`, `AnnounceLock`, `Unregister`; its writer through `Receive`, `WriteOk`
or `WriteError`, and `RangeEnds`; a broadcast through `Call`, `RLock`, a `Send`
or `Skip` per client in any order, `RUnlock`. `AnnounceLock` is
`sync.RWMutex.Lock` as Go implements it: the announced writer blocks new readers
and waits for those inside. A section under the write lock is one step; a section
under the read lock is not, because writers of other sockets take messages from
the channels meanwhile.

`before`, `target` and `missed` are history variables for the properties. An
event is named by the call that broadcasts it. The failure of `json.Marshal`,
which ends a broadcast before it starts, is a call that is never made.

### BoardSync

The module stands on the other two. Of `IssueTracker` it keeps, per request, the
load, the commit, the reload whose error is ignored, the broadcast and the answer,
with a version per issue that counts commits. Of `Hub` it keeps what the proofs and
runs there show: a broadcast reaches every socket of its pod's room, in order, unless
a buffer is full. So `Publish` is one step.

| Code | Actions |
|---|---|
| Dialogs, `create-issue.tsx`, `issue-detail.tsx` | `Ask`, about a card of the board or one whose dialog outlives it; `Answer` when the promise settles |
| The handlers | `Load`, `CommitCreate`, `CommitUpdate`, `CommitDelete`, `Reload`, `Publish`, `Fail` |
| Fetch of the board, `page.tsx:77` | `Fetch` (GetBoard reads), `ShowFetch`, `FetchFails` |
| Socket, `page.tsx:89` | `Connect`, `Receive` (onmessage), `Disconnect` |
| React | `Render`: `columns` is the state with all queued updates, `boardRef` what was last rendered |
| onDrop, `page.tsx:122` | `Drop`: new columns from `boardRef`, and a PATCH nobody waits for |

A board is often not what the tables say, for a while or for good. `spoilt` is a
history variable with the causes that may make it so for good:

* `missed`: an event passed the page by (no socket yet, a socket at another
  pod, a full buffer, a broken connection, a request that failed after its commit);
* `overtaken`: two updates published in the other order than they reloaded;
* `late answer`, `late fetch`: what came later was read earlier;
* `stale drop`: a move on columns that were not rendered again yet;
* `failed`: a fetch, a move or a deletion that failed, and a reload that did.

None of them is idle: for each one there is a run in which it is the only cause and
the quiet page is wrong.

Left out: rank and order within a column, which is `BoardRank`; the dialog, which is
`IssueDialog`; other projects, whose events do not reach the room.

### BoardRank and Charts

Pure functions. A column is the sequence of its ranks; `Idx` is the index
arithmetic of `onDrop`, `IsRank` what `computeRank` may return and `IsDrop` the
column after the drop. Ranks are floating-point numbers in the code; here they are
multiples of their last common place, and the half of an odd sum may be rounded
either way. `Charts` has `tally`, the longest bar and `Math.round` of a percentage,
where floating-point division decides at a half.

### Session

A pair of tokens is the account and its age: `fresh`, `stale` (15 minutes have
passed, the access token is refused) or `dead` (a week, the refresh token too).
`store[t]` is the state of zustand in a tab, `storage` localStorage, which a tab
reads when it is loaded.

| Code | Actions |
|---|---|
| Home page, links, router, guard of `(app)/layout.tsx` | `Follow`, `Guard`, `Load` |
| `login/page.tsx`, Login | `Login`, `FormAnswer` |
| `register/page.tsx`, Register | `SignUp` (the count), `InsertUser`, `CommitUser` or `SignUpFails`, `FormAnswer` |
| `api()`, RequireAuth, `refresh`, Refresh | `Begin` (401), `Refresh` (the request is sent and judged), `RefreshOk`, `RefreshRefused`, `RefreshLost` |
| `logout` | `Logout` |
| Expiry | `TimePasses` |

The INSERT of a user waits while another transaction that has inserted the address is
open, and is refused once that has committed: this is what a unique index does. `raced`
are the sign-ups that were under way together with another of their address, or whose
count failed.

`meant` is the account the user chose last, until an answer comes after which the
choice need not be in force. `excused` are calls that may end with a 401: their
session was ended meanwhile, the week was over, or a SELECT of the API failed. A call
whose token is accepted leaves no trace and is not a step.

The API also sets a refresh cookie, and its Refresh prefers it to the token in the
body. No fetch asks for credentials, so the browser keeps and sends the cookie only
where pages and API have one origin: behind the ingress of `k8s/dev/ingress.yaml`, not
with the ports of a developer's machine. `sameOrigin` chooses; `cookie` is the account of
the last answer whose head arrived, in whichever tab. The web client never calls Logout
at the API, so a logout leaves it, and a refresh may return the tokens of another account
than the tab's (`Claimed`).

### Planning

A handler is one step here, but for CompleteSprint, which is `Sweep` and `Close`: between
them work that was not swept may get into the sprint, and the swept rows are locked
(`swept`, `RowFree`). `IssueTracker` takes the handlers apart further. A page goes
from `loading` through `Read` (one table each, in any order) to `Load`, and offers
its forms all the while. What it asks goes through `sent` and `answered`, and a
completion through the second fetch (`FetchAgain`, `IssuesTold`).

| Code | Actions |
|---|---|
| Effects of the three pages | `Read`, `Load`, `LoadFails` |
| `create-issue.tsx`, the form of the sprint page | `Submit`, `InsertIssue` or `InsertSprint`, `Created`, `Lost` |
| `start`, `complete` | `Start`, `Complete`, `StartSprint`, `Sweep`, `Close`, `SprintTold`, `FetchAgain`, `IssuesTold`, `Lost` |
| `changeStatus`, `assignSprint` | `ChangeStatus`, `AssignSprint`: the guess is shown at once; `UpdateIssue`, whose answer nobody looks at |
| Other pages | `Drag` |

StartSprint looks at the error of neither its UPDATE nor its reload: it may answer with
the row as it was, and, if both fail, with a status the row does not have.

A list may have an item twice, and its entries tell (`double`). `stale[p]` is what page `p`
may show wrong: what another page changed, what failed, and what it asked for twice at a
time. `since` is what somebody else changed after an answer on its way was read. What the
page created itself is in neither. It goes to `crossed[p]` in the very step in which a
load wipes it out of the list, or brings it while its answer, which will
bring it again, is still to come.

### IssueDialog

The board page renders one dialog without a key, so that its state, its effect and its
promises outlive a change of the selected issue, and end only when none is
selected (`Unmount`). `loads` are the effect's three GETs, which are neither cancelled
nor numbered.

| Code | Actions |
|---|---|
| Board page | `Open`, `Close`, `Select` |
| The effect | `Read`, `Loaded`, `LoadFails` |
| `patch`, UpdateIssue | `Patch` (a text), `SetStatus` (any other field), `LoadCopy`, `UpdateIssue`, `Reload`, `Patched` |
| `addComment`, CreateComment | `Type`, `AddComment`, `LoadIssue`, `Insert`, `Added` |
| `uploadFile`, CreateAttachment, MinIO | `Upload`, `LoadIssue`, `Insert`, `Sign`, `Put` or `PutRefused`, `Added` |
| `removeAttachment`, DeleteAttachment | `RemoveFile`, `Remove` (the object), `Erase` (the row), `FileRemoved` |
| `remove`, DeleteIssue | `RemoveIssue`, `DeleteIssue`, `IssueRemoved` |
| any error, a lost call | `Fail`; `AnswerLost` when the API has done what it was asked |

An UpdateIssue whose issue is deleted after `LoadCopy` changes no row and answers with
its copy, which the dialog then shows. `doubt` are the rows a list may be wrong about,
each noted by the step that makes it so.

`chosen` is the issue the user opened last and has not closed, `moved` that an
answer has selected something else since. Left out: the list of activities, which is
read with the others and after a patch.

### Projects and Shell

`Projects` is the API: `CountKey`, `InsertProject`; `CheckRename`, `Rename`;
`CheckMember`, `FindMember`, `UpdateMember` or `AddMember`; `Fail`. A user has one
workspace, made at registration, in which no other user is; so a workspace is
named by its user. `raced`, `demoted` and `twins` note which look of a request
was overtaken by another's write.

`Shell` extends it with a tab of one user. Sidebar and palette live as long as the
tab, the page as long as it is shown; their fetches run on when what they were for is
left.

| Code | Actions |
|---|---|
| Links, address bar, `go` of the palette | `Follow`, `Go`: the effects of sidebar and page run |
| Effect of the sidebar, GetProject | `ReadProject`, `ShowProject`, `FetchFails` |
| Effects of page and palette, ListWorkspaces, ListProjects | `Workspaces`, `ReadList`, `ShowList`, `LoadFails` |
| ⌘K, the search field | `Toggle` |
| `createProject` | `CreateProject`; `Created`, `AnswerLost` (the `catch`), or `AnswerElsewhere` when the page that asked is gone |
| Other clients | `AskElsewhere`; `Serve` is the next statement of any request |

A list is a set of items of which the second of one project is `double`. `stale` are the
projects a list may be wrong about because of somebody else, a failure or a lost answer;
a project of the page's own is not among them. `crossed` are those that `setProjects` has
wiped out, or brought before their answer.

## Runs

| Run | Instance | Shows |
|---|---|---|
| `issue_tracker` | 3 requests of any kind, or 2 creates and 2 completions; 2 issues, 1 project, 1 sprint, 3 statuses | the eleven properties below |
| `audit_gap` | the same, 3 requests, with symmetry | `AuditTellsStatus` does not hold |
| `sprint_end` | the same, 3 requests, with symmetry | `SprintEndsClean` does not hold |
| `hub` | 2 clients, 2 broadcasts, 2 rooms, buffers of 1 | the seven properties below |
| `socket_owner` | the same | `HandlerOwnsSocket` does not hold |
| `board_sync` | 2 issues, 1 board, 2 requests, 2 pods, 2 statuses, buffers of 1, with symmetry | the three properties below |
| `board_live` | 1 issue, 1 board, 2 requests, 1 pod | `CatchesUp` |
| `board_claim` | as `board_sync` | `SyncsLive` does not hold |
| `session` | 2 tabs, 2 forms and 2 calls of which 3 at a time, 2 addresses, with symmetry | the four properties below |
| `planning` | 1 issue, 1 sprint, 3 requests; a backlog and a sprint page, or two sprint pages, or a dashboard; with symmetry | the four properties below |
| `issue_dialog` | 2 issues, 1 comment, 1 file, 2 texts, 3 requests, with symmetry | the four properties below |
| `projects` | 2 users, 2 projects of 1 key, 2 requests; the page, the sidebar or the palette; with symmetry | the six properties below |

`issue_tracker` checks:

* `TypeOK`: among the types, that no status outside the enum reaches the tables,
  although clients send one.
* `KeysUnique`, `NumbersDense`: the numbers of a project are 1, 2, ... with none
  twice and none missing, however creates interleave and fail.
* `KeysRefined`: the module implements `IssueKeys`.
* `EveryStatusIsLogged`, `TrailIsConnected`: what can be relied on of the audit
  trail although updates compare with stale copies. A status that is not the first
  was logged once; a row starts from a value the trail had reached. That the
  *last* row tells the status is not among it, see below.
* `NoStaleWriteBack`: a row changes only in what an update's body names, or by
  the sweep that locked it.
* `SweepSparesDone`: an issue that goes back to the backlog is unfinished at the
  commit, not only at the sweep.
* `DeletedEventIsFinal`, `EventsAfterCommit`: what watchers were told holds.
* `EveryRequestEnds`: no request waits for ever for a row lock, also when two sweeps hold
  rows the other needs.

`hub` checks:

* `TypeOK`: among the types, that no channel exceeds its capacity.
* `NoPanic`: no send on, or second close of, a closed channel.
* `RoomsTellOpen`: a room holds the clients between Register and Unregister, with
  open channels, and exists only while it has some.
* `FeedInOrder`: no event twice, none of another board, none overtaking an event
  whose broadcast had returned before it began.
* `EveryMemberServed`: a member of the room gets the event, unless its own buffer
  was full or its own socket broken.
* `BroadcastReturns`: even if a client never reads.
* `SocketCleanedUp`: a lost connection leaves no room entry and no goroutine.

`board_sync` and `board_live` check:

* `TypeOK`: among the types, that no page and no table is given a status that a body
  left out.
* `OneColumn`: a page shows no card twice, although five different pieces of code
  rebuild its columns and one of them starts from old ones.
* `Agreement`: when no request, event or fetch is pending, a page with nothing in
  `spoilt` shows what the table holds. The list of causes is complete.
* `CatchesUp`: such a page is right again and again, also while requests go on.

`board_sync` also evaluates `DropsKeepOrder`, every drop on columns of up to three
cards; `planning` evaluates `PercentExists` and `BarsFit`, the figures of short lists.

`session` checks:

* `TypeOK`: among the types, that a form's button is disabled only while an answer is on
  its way to it.
* `RefusalsAreRaces`: a sign-up past the count comes upon an account of its address, and
  then ends in "could not create account" (`handlers/auth.go:85`) and not in "email already
  registered", only if another sign-up of the address overlapped with it or its count
  failed.
* `SessionIsChosen`: what a tab loaded now signs in as is what the user chose last,
  unless a refresh or a sign-in was answered with an account that had been left or that
  only the cookie was of, or a refresh was refused. A refresh that was in flight at a logout does undo it: the
  property says that such answers are the only ones that can.
* `ExpiryIsInvisible`: a call fails with a 401 only if its session ended, by the user or
  after a week, or by a fault. That other calls refresh at the same time, and
  replace the token it would have used, is no reason.

`planning` checks:

* `TypeOK`: among the types, that a form is not submitted while its answer is out.
* `SettledPageIsRight`: a page at rest lists everything outside `stale` once and as it is in
  the tables. What is in `crossed` may be missing or there twice, but not wrong.
* `StrandedUnknowingly`: unfinished work gets into a completed sprint only from a
  backlog page that did not know the sprint was completed, when finished work is taken
  up again, or between the two statements of the completion itself.
* `ReopenedUnknowingly`: a completed sprint is started again only from a page that
  was not told, or that had asked to start it twice.

`issue_dialog` checks:

* `TypeOK`: among the types, that a list has a row at most twice.
* `BucketMatchesRows`: the bucket holds the bytes of exactly the attachments with a row,
  but for uploads and removals under way and those a fault, or an overlapping
  removal, befell.
* `DialogIsChosen`: the dialog, its lists and the comment typed in it are about
  the issue the user opened, unless an answer to a dialog that was closed selected
  something else.
* `SettledListsAreRight`: a dialog at rest lists each row of its issue once; the
  exceptions are listed in the module.

`projects` checks:

* `TypeOK`: among the types, that a project always has a member and a member a project.
* `KeysDistinct`: two projects of a workspace have one key only if two creations
  overlapped between count and insert, or the count failed.
* `ConflictsAreRaces`: adding a member fails on the unique index only if another
  call added the same user meanwhile, or the look-up failed.
* `LockedOutKnowingly`: a project loses the last who may administer it only by
  that user's own request, or when the one who asked lost the role after the check.
* `SidebarTellsProject`: once its answers are there, the sidebar names the project of the
  path, unless the fetch failed, the project has changed, or an older answer came last.
* `SettledListsAreRight`: page and palette list the user's projects once, with their
  names, but for what changed elsewhere since and creations whose answer was lost. What
  is in `crossed` may be missing or there twice, under its right name.

### What the code does not do

* `AuditTellsStatus` (`handlers/issues.go:190`). Two updates load an issue in
  `todo`. One sets `in_progress`, with a row; the other sets `todo`, equal to its
  copy, without one. The issue is in `todo`, its last row says `in_progress`.
* `SprintEndsClean` (`handlers/sprints.go:118`). Complete sweeps the sprint, an
  unfinished issue is created in it, Complete commits: the issue stays in a closed
  sprint.
* `HandlerOwnsSocket` (`ws/hub.go:18`). Unregister closes the channel and the
  handler returns; the writer still takes what the channel holds and writes.
* `SyncsLive` (`docs/GETTING_STARTED.md:195`). The board's fetch is read, a card is
  changed and the page is told, then the answer to the fetch arrives and the change
  is off the screen. Nothing was lost and nothing failed, and nothing fetches again.

The exceptions in the properties of the pages are reachable too, each of them:

* An answer to an edit opens the dialog again after it was closed, or switches it to
  another issue, with a comment typed for the first (`page.tsx:232`).
* The answer to a creation and the load both bring the new row, and it is listed
  twice: in the lists of the backlog, of the sprints, of the projects, and of the dialog.
* A load that was read before the creation and is answered after it wipes the new row out
  of the page that created it: an issue (`backlog/page.tsx:42`), a sprint
  (`sprints/page.tsx:44`), a project (`projects/page.tsx:37`). It is in the tables, and a
  reload shows it.
* An issue that is assigned to a sprint, or dragged back from `done`, between the two
  statements of the sprint's completion stays in it unfinished, though no page was stale.
* A completed sprint can be started again, and issues can be put into it, by pages that
  were loaded before.
* The sidebar goes on naming the project that was left when the fetch for the next one
  fails or an older answer is late (`sidebar.tsx:63`).
* The last admin of a project can make himself a viewer, and then nobody can undo it.
* An attachment is listed though its bytes never arrived: the row is inserted before the
  URL is signed (`handlers/attachments.go:53`) and the status of the PUT is not looked
  at. The diagram in the repository's `README.md:96-115` has the row written after the upload.

### Bounds

Three requests are one more than any race above needs: two that race and a third
that sees the result, or fails while holding what the others wait for. Two issues
are two numbers to collide and two rows to lock; two completions that each hold one
of them need two more requests to have created the issues, which is the second of
`Mixes`, the calls a run may consist of; one project suffices because projects share
nothing but the table. A request runs once; one that follows another is a third
request. `in_review` is left out of the statuses: the code treats it as
`in_progress`. The activities and events are bounded by the requests.

In the hub a buffer of one is full after one event, as one of 16 is after 16, and
empties again; two rooms are needed for an event that might reach the wrong one;
two broadcasts can overlap, follow each other, and wait for an announced lock. A
client that reconnects is another client.

In `BoardSync` two requests can overtake each other; the second issue is what a stale
drop of the first overwrites; the second pod is where a socket misses a broadcast. One
board is enough, because boards meet only in the tables: a request by `Elsewhere` is
one of any other tab, and the board's own are checked beside it. `board_live` leaves
out the second issue and the second pod, which `Agreement` needs and `CatchesUp` does
not: it says nothing of a page that missed an event. `Connect` and `Disconnect` may be
repeated for ever; no other variable counts beyond the number of requests.

`session`: two tabs share a localStorage; three of two forms and two calls overlap
(`MaxBusy`), in one tab or across both, and each may run again and again; the pages have
the API's origin or another;  two addresses tell the
sessions apart. Time passes in quarters of an hour and weeks, and not while an
answer with tokens is on its way.

`planning`: three requests are a creation, a start and a completion, or two that
race and a third. One issue and one sprint suffice, because a page treats every entry
alike and only one sprint at a time is asked about. The pages that are open together
are those that can make each other stale; the dashboard only reads.

`issue_dialog`: two issues are needed for a dialog that is switched; one comment
and one file for an answer that meets its row in a load; two requests overlap and a third follows.

`projects`: two projects can collide on the one key; a second user is the member who is
added, re-roled or demoted while asking. Page, sidebar and palette share nothing but the
path and are followed one at a time, with up to two fetches or loads on their way.
Roles asked for are `member`, and others start as admins or not at all: what counts is on
which side of `admin` a role is.

Deadlock is checked except in `planning`, `issue_dialog` and `projects`, where each
request is made once and the instance stops when all are over and nobody looks. In the first two modules `Quiet` is the server with nothing to do, the
only state without another step.

### Fairness

`IssueTracker`: weak fairness of each started request's next statement. The
goroutine is scheduled, and PostgreSQL grants a lock that stays free. Requests
need not arrive and nothing need fail, but PostgreSQL's detector, which runs after
`deadlock_timeout`, fails a request that is `Deadlocked`. Weak fairness is enough: nobody
takes a lock again and again, because a request ends.

`Hub`: weak fairness of every handler and every broadcast, goroutines that wait
for each other only through the mutex; Go's RWMutex lets an announced writer in
and the waiting readers after it. A writer goroutine is fair only once its
connection is lost: before, a peer that reads nothing may hold `WriteMessage` up
for ever. Connections need not be made or lost.

`BoardSync`: weak fairness of each started request, of the fetch (it is answered or
fails) and of `Receive`, the browser's event loop. Nobody need ask, move, render,
connect or disconnect, and `CatchesUp` does not need them to.

The other modules state no fairness and no liveness: a page need not be told anything,
and what they promise is about pages at rest.

## Proofs

Every safety property that a run checks, invariant or action property, is a theorem.
The theorems hold for all finite or infinite sets of requests, issues, projects,
sprints, users, clients, broadcasts, boards, pods, tabs, forms, calls, pages, comments
and files, all buffer sizes but zero, and rest only on the named assumptions of the
modules: `todo` and `done` are statuses; the buffer has a slot; the tab's user is
a user and the roles that are asked for are roles; issues and sprints, comments and files,
forms and calls, and the kinds of pages are disjoint, as rows of different tables,
and requests of different code, are; and the values that stand for "none", "gone" and "elsewhere" are no
members of the sets they extend. The bounds of the runs (`MaxBusy`, `Mixes`,
`OpenSets`, `WatchedSets`, and the instances themselves) are arbitrary in the theorems.

`IssueTracker_proofs`, each invariant inductive relative to those before it:

1. `TypeInv`: `TypeOK` and `Working`, which says what a request holds at each
   statement (a chosen issue, a loaded row, a positive number). `TypeOK` alone does not
   carry over a commit, which stores the handler's copy in the table.
   Theorem `TypeCorrect`.
2. `KeyInv`: a request past its lock holds the lock and the number after the
   counter (`HoldsNext`), its id is nobody else's (`Fresh`), every number in the
   table is at most the counter and every number up to it is taken. The
   first is what makes the second inductive. Theorems `KeysAreUnique`,
   `NumbersAreDense`, `RefinesIssueKeys`.
3. `EventInv`: a request about to publish holds a copy of a committed row with its
   key. Theorems `EventsFollowCommits`, `DeletionIsFinal`.
4. `AuditInv`: every status in a table *or in a handler's copy* is the first or
   was logged; that is why a stale copy may be compared with. Theorems
   `StatusesAreLogged`, `TrailHoldsTogether`.
5. `SweepInv`: the rows an open completion has locked are in the table, still
   unfinished, still in its sprint, and no other completion's. Theorems
   `StaleCopiesAreNotWritten`, `FinishedWorkStaysInItsSprint`.

`Hub_proofs`:

1. `HubInv`: a broadcast in its loop is a reader; what it has left to visit is in
   its room (`LoopInv`); the clients with a closed channel are those whose handler
   has returned (`ClosedInv`). A room changes only without readers, so no client of a loop
   leaves its room. Theorems `NeverPanics`, `RoomsAreExact`, `TypeCorrect`.
2. `FeedInv`: what a broadcast found returned when it was called has returned
   (`BeforeInv`), only a broadcast in its loop or past it has sent (`SentInv`), and a
   client that a loop has still to visit has nothing from it yet (`OnceInv`). What a client
   has got is what it read, what its writer holds and what its channel holds, one
   sequence: a send appends to it, a receive moves inside it, and a broken socket cuts its
   end off (`OnTheWire`, `InTheChannel`, `InHandNow`, `Dropped`). Appending keeps
   `FeedInOrder` because of the first three. Theorems `FeedsAreOrdered`,
   `NobodyIsPassedOver`.

`BoardSync_proofs`:

1. `TypeInv`: `TypeOK` and `Working`, a request under way has a job. Theorem
   `TypeCorrect`.
2. `OneColumn` is inductive with `TypeInv`, by a lemma for each way to rebuild columns:
   `UpsertColumns`, `RemoveColumns`, `FetchedColumns`, and `MovedColumns`, which needs
   the card to have been in the column it is taken from. Theorem `NoCardTwice`.
3. `SyncInv`, for `Agreement`, follows a version from the table to the page. What a
   request holds (`CopyInv`), what an event (`EventsInv`), and what a fetch has read
   (`SnapInv`) is no newer than the table, and the table's status if as new. The current version was
   broadcast, or a request is about to, or every page has a cause in `spoilt`
   (`PublishedInv`). The last event on the way to an unspoilt page about an issue is
   the last that was broadcast (`LatestInv`). And an unspoilt page has seen the last broadcast,
   or an event about the issue is coming; if none is, and no drop of its own is under
   way, it shows what it saw (`KnowsInv`). When nothing is pending these add up to
   `Agreement`. Each cause in `spoilt` is used exactly where a step breaks one of
   them: without the note of a stale drop, a late answer, a late fetch or a missed
   event, the proof of that step fails. Theorem `PagesAgree`.

`Session_proofs`:

1. `TypeInv`: `TypeOK` and which stations a form and a call can be at. Theorem
   `TypeCorrect`. `RaceInv`: sign-ups of one address that are past the count at one time
   have all raced. So one that finds its address taken at the INSERT has met the other, or
   miscounted. Theorem `OnlyRacesAreRefused`.
2. `SessionIsChosen` is inductive with `TypeInv`: whoever writes localStorage either acts
   for the user who chose, or is late, and the property says so from then on. Theorem
   `ChoiceStands`.
3. `CallInv`: a call that is about to refresh finds a session in its tab, and one
   whose refresh was answered has tokens, or there is an excuse. Every step that takes a
   session away excuses the calls of its tabs; that the tokens are replaced by another
   call's refresh takes none away. Theorem `RetriesAreTransparent`.

`Planning_proofs`:

1. `TypeInv`: `TypeOK`; what a request has in hand at each station; and that all
   ids on pages, in answers and in requests are of rows that exist, since none is
   ever deleted. Theorem `TypeCorrect`.
2. `AnswersInv` and `ListInv`: what is on its way to a page is true of every row that has not
   changed since it was read; and a loaded page is right about each row it has
   no reason to doubt, or an answer will set it right (`Coming`, `NotYet`), or it shows
   what a patch of its own has asked for already (`AsAsked`). At rest the last
   three are out. A row of the page's own that the load lacks is on the page, on its way
   (`OnItsWay`), or noted in `crossed` by the step that wipes it out. `OnceInv`: only a
   crossed row is listed twice, or listed before its answer. Theorem `PageIsRight`.
3. `TwiceInv`, `AskedInv`: what a page asks of a completed sprint, it asks because the
   sprint is among the rows it may be wrong about. `ClosingInv`: unfinished work of a
   sprint that is being completed was swept or has changed since. Theorems
   `StrandersAreStale`, `ReopenersAreStale`, about steps.

`IssueDialog_proofs`:

1. `TypeInv`: `TypeOK`; what a request holds at each station; a row that a creation
   has brought is that request's own and in no list before its answer but by a load
   (`RowsInv`, which bounds the copies in a list by two); what a load has read is true but
   for what changed since; a closed dialog has no state. Theorem `TypeCorrect`.
2. `BucketInv`: while bytes are on their way their row is there and nobody erases it, and
   an object is gone before its row is, but for the excused. Theorem `BucketMatches`.
3. `ChosenInv`: what the dialog that is there has asked for is about the issue it
   shows. Theorem `DialogStands`.
4. `ListsInv`: without a load on its way a list is right about a row, or a live request
   concerns it, or it is in doubt. Theorem `ListsSettle`.

`Shell_proofs`:

1. `TabIsClient`: `Spec` implies `ProjectsSpec`. Each action of the tab is mapped to the
   action of the API it sends or to a stutter, so the invariants of the API are
   proved without the tab and carried over.
2. `KeysInv`: a key that a request counted as free is free, unless the request has raced.
   `MembersInv`: a user whom a request did not find is no member, with the same
   exception. `AdminInv`: who was let in for a role has it, unless demoted since; the
   lemma `LastAdmin` says that the only write that can take the last admin is his own, or
   one by somebody demoted. Theorems `KeysAreDistinct`, `ConflictsRaced`,
   `LockOutsAreKnown`.
3. `TypeInv` adds to the types of the API (every project has a member) those of the
   tab: a fetch that was read has a name. Theorem `TypeCorrect`.
4. `SidebarInv`: a fetch that is not superseded is for the path and true unless old; with
   none on the way the sidebar tells the path or is in doubt. Theorem `SidebarIsRight`.
5. `ListInv`: what was read for a list is true but for what changed since; a list is right
   about a project, or the project is stale, or the answer to its creation is on the way,
   or it was crossed. Its parts: the page asks one thing at a time, for its user (`MineInv`);
   what a load lacks of the page's own is listed or to come (`LoadsInv`); `ShownInv`, of the
   lists; and only what was crossed is listed twice (`OnceInv`). Theorem `ListsAreRight`.

`Algorithms_proofs`, for all inputs:

1. `CompletionIsHonest`: with fewer than 200 issues, 100% means all done and 0% none;
   with 200, one may be rounded away.
2. `DropHalvesGaps`: from a column whose ranks are 2k apart, a drop leaves one in order
   whose ranks are k apart, at any place, for a card of the column or from
   another one. Between two cards n drops fit if their ranks are 2^n units of the last
   place apart; after that ranks may be equal, and still in order. It rests on
   `RankIsApart` and on lemmas about taking a card out and putting it in.
3. `DropLandsAtEdge`: the index arithmetic puts the card beside the one it was dropped
   on, also when it is moved down in its own column.

Only model-checked: the liveness properties `EveryRequestEnds`, `BroadcastReturns`,
`SocketCleanedUp` and `CatchesUp`, which rest on fairness and are beyond the prover; and the
four violations, which are refuted on an instance. The invariants above were
checked with TLC before they were proved. `PercentExists`, `BarsFit` and `DropsKeepOrder`,
assumptions of the instances, evaluate `Charts` and `BoardRank` on all short lists.

## Not modelled

* What the pages do when a list is `null`. The list handlers ignore the error of their
  SELECT, and the answer is then 200 with `null`, on which a page stops rendering
  (`comments.length` of `issue-detail.tsx:259`). The models have such a load fail, and go on.
* Startup and its retries, `EnsureBucketWithRetry`, the probes: sequential loops
  against PostgreSQL and MinIO, with nothing that runs beside them.
* The operator: it provisions namespaces next to the application and shares no state
  with it; its writes are create-or-update calls that the framework repeats.
* Of the API: `Me`, `Logout`, `ListProjectMembers`, `ListActivity`, `DownloadAttachment`,
  `UpdateSprint`'s columns, which change nothing that another part reads; refusals of
  malformed bodies; the hashing of passwords.
* Of the browser: search, themes, UI primitives, formatting, and the pages' layout.
* Configuration, metrics, the manifests under `k8s/`, the shared packages and the tables
  without handlers (labels, links, notifications), which have no behaviour of this kind.

## Plan

Every part of the application with state that two actors share is modelled, and every
safety property that is checked is proved. What is left:

1. Abstract specifications of what a reader of a component needs to know, with
   the detailed module shown to implement them, as `IssueKeys` is of `IssueTracker`:
   a channel per client for the hub, which `BoardSync` takes for granted in `Publish`;
   membership of a project for `Projects`.
2. More about the pure algorithms: that a bar of the dashboard is as long as the tallest only
   if it is, and that the tallies add up.
