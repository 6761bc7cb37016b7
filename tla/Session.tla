-------------------------------- MODULE Session --------------------------------
(***************************************************************************)
(* Signing in and staying signed in: the forms of apps/web/app/(auth), the *)
(* token store (store/auth.ts), the fetch wrapper that refreshes and       *)
(* retries (lib/api.ts), and their counterparts at the API                 *)
(* (handlers/auth.go, middleware/auth.go).                                 *)
(*                                                                         *)
(* Every tab has a store of its own, in memory.  Whatever it sets there is *)
(* also written to localStorage, which all tabs share and read only when   *)
(* they are loaded.  Of a pair of tokens the module keeps the account and  *)
(* the age: "fresh", "stale" when the access token has expired, "dead"     *)
(* when the refresh token has.  Time passes for all pairs at once, and not *)
(* while an answer with a pair is on its way.                              *)
(*                                                                         *)
(* Every answer with tokens sets a refresh cookie as well.  No fetch asks  *)
(* for credentials, so that a browser keeps and sends it only if pages and *)
(* API have one origin: behind the ingress, not on a developer's machine.  *)
(*                                                                         *)
(* Answers come late, so that a session may not be the one its user chose  *)
(* last.  The history variable `meant` notes the choice, and each step     *)
(* after which it need not be in force; SessionIsChosen says that there    *)
(* are no others.                                                          *)
(***************************************************************************)
EXTENDS Integers, FiniteSets

CONSTANTS
    Tabs,       \* tabs of one browser
    Forms,      \* submissions of a sign-in or a sign-up form at one time
    Calls,      \* calls of api() with an expired access token at one time
    Emails,     \* addresses an account can have, and the accounts
    MaxBusy,    \* bound: how many of both are under way at one time
    None,       \* no tokens, no account, no tab, no form
    Unsure      \* the user's choice may not be in force

ASSUME RequestAssumption == Forms \cap Calls = {}
ASSUME MaxBusyAssumption == MaxBusy \in Nat
ASSUME NoneAssumption ==
    /\ None \notin Forms \cup Emails \cup Tabs
    /\ None \notin [user : Emails, age : {"fresh", "stale", "dead"}]
ASSUME UnsureAssumption == Unsure \notin Emails \cup {None}

Requests == Forms \cup Calls

VARIABLES
    users,      \* the users table: how many rows have an address
    page,       \* the page a tab shows
    store,      \* useAuthStore of a tab: the pair it holds
    storage,    \* localStorage
    waiting,    \* the form whose answer the page in a tab waits for (loading)
    pc,         \* where a form or a call is
    tab,        \* the tab that made it, None if it was loaded anew since
    email,      \* what a form asks for
    got,        \* the account whose tokens are in the answer, None if it is refused
    sameOrigin, \* pages and API have one origin
    cookie,     \* the account of the refresh cookie, None if there is none
    raced,      \* history: sign-ups that others of the address overlapped with
    excused,    \* history: calls whose session ended, or that a fault befell
    meant       \* history: the account the user of the browser chose last, or None

browserVars == <<page, store, storage, waiting>>
requestVars == <<pc, tab, email, got>>
cookieVars == <<sameOrigin, cookie>>
historyVars == <<raced, excused, meant>>
vars == <<users, browserVars, requestVars, cookieVars, historyVars>>

Pair == [user : Emails, age : {"fresh", "stale", "dead"}]

Init ==
    /\ users = [e \in Emails |-> 0]
    /\ page = [t \in Tabs |-> "home"]
    /\ store = [t \in Tabs |-> None]
    /\ storage = None
    /\ waiting = [t \in Tabs |-> None]
    /\ pc = [r \in Requests |-> "idle"]
    /\ tab = [r \in Requests |-> None]
    /\ email = [f \in Forms |-> None]
    /\ got = [r \in Requests |-> None]
    /\ sameOrigin \in BOOLEAN
    /\ cookie = None
    /\ raced = {}
    /\ excused = {}
    /\ meant = None

Goto(r, l) == pc' = [pc EXCEPT ![r] = l]

\* The bound leaves room for one more.
Room == Cardinality({r \in Requests : pc[r] # "idle"}) < MaxBusy

CallsOf(t) == {c \in Calls : tab[c] = t}

\* Register is past the count.
SigningUp(f) == pc[f] \in {"insert", "created"}

Rivals(e) == {f \in Forms : SigningUp(f) /\ email[f] = e}

-------------------------------------------------------------------------------
(***************************************************************************)
(* The store                                                               *)
(***************************************************************************)

\* set() of the store and, by its persist middleware, of localStorage.
SetAuth(t, pair) ==
    /\ store' = [store EXCEPT ![t] = pair]
    /\ storage' = pair

\* Only the tab's memory is cleared, localStorage keeps the tokens.
ForgetInMemory(t) ==
    /\ store' = [store EXCEPT ![t] = None]
    /\ UNCHANGED storage

ClearAuth(t) == SetAuth(t, None)

\* issueTokens: a new access and a new refresh token.
Issued(a) == [user |-> a, age |-> "fresh"]

\* The head of an answer has come: the browser sets the cookie that is in it.
SetCookie(r) ==
    /\ cookie' = IF sameOrigin /\ got[r] # None THEN got[r] ELSE cookie
    /\ UNCHANGED sameOrigin

\* The answer is lost, maybe after its head.
MaySetCookie(r) == SetCookie(r) \/ UNCHANGED cookieVars

\* Tokens of this account come late: it may have been left since.
Late(a) == meant' = IF a = meant THEN meant ELSE Unsure

-------------------------------------------------------------------------------
(***************************************************************************)
(* Pages                                                                   *)
(***************************************************************************)

\* The links of the home page and of the two forms.
Links(t) ==
    IF page[t] = "home" /\ store[t] # None THEN {"app"} ELSE {"login", "register"}

\* A page that is left forgets that it was waiting.
Visit(t, to) ==
    /\ page' = [page EXCEPT ![t] = to]
    /\ waiting' = [waiting EXCEPT ![t] = None]

Follow(t, to) ==
    /\ page[t] # "app" /\ to \in Links(t) \ {page[t]}
    /\ Visit(t, to)
    /\ UNCHANGED <<users, store, storage, requestVars, cookieVars, historyVars>>

\* The guard of the layout: nobody stays behind it without a user.
Guard(t) ==
    /\ page[t] = "app" /\ store[t] = None
    /\ Visit(t, "login")
    /\ UNCHANGED <<users, store, storage, requestVars, cookieVars, historyVars>>

\* A tab is loaded anew, on the home page or a form; from there links lead to
\* where loading another page does.  What it held in memory is lost and its
\* answers are not waited for; a sign-up at the API goes on.
Load(t, to) ==
    LET dropped == {r \in Requests : tab[r] = t} IN
    /\ Visit(t, to)
    /\ store' = [store EXCEPT ![t] = storage]
    /\ tab' = [r \in Requests |-> IF r \in dropped THEN None ELSE tab[r]]
    /\ got' = [r \in Requests |-> IF r \in dropped THEN None ELSE got[r]]
    /\ pc' = [r \in Requests |-> IF r \in dropped /\ ~SigningUp(r) THEN "idle" ELSE pc[r]]
    /\ excused' = excused \ dropped
    /\ UNCHANGED cookieVars \/ \E r \in dropped : got[r] \notin {None, cookie} /\ SetCookie(r)
    /\ UNCHANGED <<users, storage, email, raced, meant>>

\* "Log out" in the top bar and on the home page.  The API is not told, so that
\* the cookie stays.
Logout(t) ==
    /\ page[t] \in {"home", "app"} /\ store[t] # None
    /\ ClearAuth(t)
    /\ Visit(t, IF page[t] = "app" THEN "login" ELSE page[t])
    /\ meant' = None
    /\ excused' = excused \cup CallsOf(t)
    /\ UNCHANGED <<users, requestVars, cookieVars, raced>>

-------------------------------------------------------------------------------
(***************************************************************************)
(* Signing in and up                                                       *)
(***************************************************************************)

\* onSubmit of either form; the button is disabled while the page waits.
Submit(f, t) ==
    /\ pc[f] = "idle" /\ waiting[t] = None /\ Room
    /\ tab' = [tab EXCEPT ![f] = t]
    /\ waiting' = [waiting EXCEPT ![t] = f]
    /\ UNCHANGED <<users, page, store, storage, cookieVars, excused, meant>>

\* The login form, and Login at the API.  Any error of the SELECT is answered
\* as a wrong password is.
Login(f, t, e) ==
    /\ page[t] = "login"
    /\ Submit(f, t)
    /\ Goto(f, "answer")
    /\ got' = [got EXCEPT ![f] = e]
    /\ e # None => users[e] > 0
    /\ UNCHANGED <<email, raced>>

\* Register does not count.
NeverTaken(e) == FALSE

\* The count: the address has an account.
Taken(e) == users[e] > 0

\* The form to sign up, and Register as far as the count.  An error of the count
\* reads as a no.
SignUp(f, t, e) ==
    /\ page[t] = "register"
    /\ Submit(f, t)
    /\ \/ Taken(e) /\ Goto(f, "answer") /\ UNCHANGED <<email, raced>>
       \/ /\ Goto(f, "insert")
          /\ email' = [email EXCEPT ![f] = e]
          /\ raced' = raced \cup Rivals(e) \cup {g \in {f} : Taken(e) \/ Rivals(e) # {}}
    /\ UNCHANGED got

\* INSERT of the user.  The unique index on the address makes it wait for an
\* open transaction that has inserted the same, and refuses it if there is a
\* row.
InsertUser(f) ==
    LET e == email[f] IN
    /\ pc[f] = "insert"
    /\ \A g \in Rivals(e) : pc[g] # "created"
    /\ users[e] = 0
    /\ Goto(f, "created")
    /\ UNCHANGED <<users, browserVars, tab, email, got, cookieVars, historyVars>>

\* The transaction ends, and the answer is on its way if somebody awaits it.
SignedUp(f, a) ==
    /\ Goto(f, IF tab[f] = None THEN "idle" ELSE "answer")
    /\ email' = [email EXCEPT ![f] = None]
    /\ got' = [got EXCEPT ![f] = IF tab[f] = None THEN None ELSE a]
    /\ raced' = raced \ {f}
    /\ UNCHANGED <<browserVars, tab, cookieVars, excused, meant>>

\* The workspace and the membership as well: COMMIT.
CommitUser(f) ==
    /\ pc[f] = "created"
    /\ users' = [users EXCEPT ![email[f]] = @ + 1]
    /\ SignedUp(f, email[f])

\* The index refuses the user, or anything fails: nothing persists.
SignUpFails(f) ==
    /\ SigningUp(f)
    /\ SignedUp(f, None)
    /\ UNCHANGED users

\* The error is shown and the button stays disabled.
KeepWaiting(t, f) == waiting

\* finally: setLoading(false), of the page that asked.
StopWaiting(t, f) == [waiting EXCEPT ![t] = IF @ = f THEN None ELSE @]

\* The answer reaches the form, which signs in and goes to the projects, even
\* if its page was left meanwhile; or it is an error, or lost.
FormAnswer(f) ==
    LET t == tab[f] IN
    /\ pc[f] = "answer"
    /\ Goto(f, "idle")
    /\ \/ /\ got[f] # None
          /\ SetAuth(t, Issued(got[f]))
          /\ Visit(t, "app")
          /\ SetCookie(f)
          /\ IF waiting[t] = f THEN meant' = got[f] ELSE Late(got[f])
       \/ /\ waiting' = StopWaiting(t, f)
          /\ MaySetCookie(f)
          /\ UNCHANGED <<page, store, storage, meant>>
    /\ tab' = [tab EXCEPT ![f] = None]
    /\ got' = [got EXCEPT ![f] = None]
    /\ UNCHANGED <<users, email, raced, excused>>

-------------------------------------------------------------------------------
(***************************************************************************)
(* A call of api()                                                         *)
(***************************************************************************)

\* A page calls the API with an access token that RequireAuth refuses.  A call
\* whose token is accepted ends without a trace here, however it ends.
Begin(c, t) ==
    /\ pc[c] = "idle" /\ Room
    /\ page[t] = "app" /\ store[t] # None /\ store[t].age # "fresh"
    /\ Goto(c, "401")
    /\ tab' = [tab EXCEPT ![c] = t]
    /\ UNCHANGED <<users, browserVars, email, got, cookieVars, historyVars>>

\* The promise settles.  "denied" is a 401 that nothing excuses.
End(c, l) ==
    /\ Goto(c, l)
    /\ tab' = [tab EXCEPT ![c] = None]
    /\ got' = [got EXCEPT ![c] = None]

Denied(c) == End(c, IF c \in excused THEN "idle" ELSE "denied")

\* Whom the refresh token is of that reaches the API, None if it has expired.
\* The cookie goes before the body, and the browser drops it when it expires.
Claimed(c) ==
    LET pair == store[tab[c]] IN
    IF cookie # None THEN cookie ELSE IF pair.age = "dead" THEN None ELSE pair.user

\* A refresh token of which a new one was made is refused.
FirstUse(c) == Claimed(c) # None /\ \A d \in CallsOf(tab[c]) : got[d] = None

\* A refresh token stays good when it is used, until it expires.
Accepted(c) == Claimed(c) # None

\* The 401 arrives, refresh() sends the refresh token the store has by now, if
\* any, and the API looks at it.  A SELECT that fails there is answered as an
\* unknown user is.
Refresh(c) ==
    LET t == tab[c] IN
    /\ pc[c] = "401"
    /\ \/ /\ store[t] = None
          /\ Denied(c)
          /\ excused' = excused \ {c}
       \/ /\ store[t] # None
          /\ Goto(c, "refreshed")
          /\ \/ Accepted(c) /\ got' = [got EXCEPT ![c] = Claimed(c)] /\ UNCHANGED excused
             \/ /\ ~Accepted(c)
                /\ excused' = excused \cup {d \in {c} : store[t].age = "dead"}
                /\ UNCHANGED got
             \/ excused' = excused \cup {c} /\ UNCHANGED got
          /\ UNCHANGED tab
    /\ UNCHANGED <<users, browserVars, email, cookieVars, raced, meant>>

\* The new pair is stored, and the call sent again with it.
RefreshOk(c) ==
    /\ pc[c] = "refreshed" /\ got[c] # None
    /\ SetAuth(tab[c], Issued(got[c]))
    /\ SetCookie(c)
    /\ End(c, "idle")
    /\ Late(got[c])
    /\ excused' = excused \ {c}
    /\ UNCHANGED <<users, page, waiting, email, raced>>

\* Any answer but 2xx ends the session of the tab, whichever that is by now.
RefreshRefused(c) ==
    /\ pc[c] = "refreshed" /\ got[c] = None
    /\ ClearAuth(tab[c])
    /\ Denied(c)
    /\ excused' = (excused \cup CallsOf(tab[c])) \ {c}
    /\ meant' = Unsure
    /\ UNCHANGED <<users, page, waiting, email, cookieVars, raced>>

\* fetch rejects: the tokens stay, and the call fails with the 401 it had.
RefreshLost(c) ==
    /\ pc[c] = "refreshed"
    /\ MaySetCookie(c)
    /\ End(c, "idle")
    /\ excused' = excused \ {c}
    /\ UNCHANGED <<users, browserVars, email, raced, meant>>

-------------------------------------------------------------------------------

\* A quarter of an hour, or a week, goes by for every copy of every pair.
Aged(pair, old) ==
    IF pair = None THEN None
    ELSE [pair EXCEPT !.age = IF old = "dead" \/ @ = "dead" THEN "dead" ELSE "stale"]

TimePasses(old) ==
    /\ \A r \in Requests : got[r] = None
    /\ store' = [t \in Tabs |-> Aged(store[t], old)]
    /\ storage' = Aged(storage, old)
    /\ cookie' = IF old = "dead" THEN None ELSE cookie
    /\ UNCHANGED <<sameOrigin, users, page, waiting, requestVars, historyVars>>

FormStep(f) == InsertUser(f) \/ CommitUser(f) \/ SignUpFails(f) \/ FormAnswer(f)

CallStep(c) == Refresh(c) \/ RefreshOk(c) \/ RefreshRefused(c) \/ RefreshLost(c)

TabStep(t) ==
    \/ Guard(t) \/ Logout(t)
    \/ \E to \in {"login", "register", "app"} : Follow(t, to)
    \/ \E to \in {"home", "login"} : Load(t, to)
    \/ \E f \in Forms, e \in Emails \cup {None} : Login(f, t, e)
    \/ \E f \in Forms, e \in Emails : SignUp(f, t, e)
    \/ \E c \in Calls : Begin(c, t)

Next ==
    \/ \E t \in Tabs : TabStep(t)
    \/ \E f \in Forms : FormStep(f)
    \/ \E c \in Calls : CallStep(c)
    \/ \E old \in {"stale", "dead"} : TimePasses(old)

Spec == Init /\ [][Next]_vars

-------------------------------------------------------------------------------
(***************************************************************************)
(* Properties                                                              *)
(***************************************************************************)

\* A form's button is disabled only while an answer is on its way to it.
WaitsForAnswer ==
    \A t \in Tabs : waiting[t] # None => tab[waiting[t]] = t /\ pc[waiting[t]] # "idle"

TypeOK ==
    /\ users \in [Emails -> {0, 1}]
    /\ page \in [Tabs -> {"home", "login", "register", "app"}]
    /\ store \in [Tabs -> Pair \cup {None}]
    /\ storage \in Pair \cup {None}
    /\ waiting \in [Tabs -> Forms \cup {None}]
    /\ pc \in [Requests -> {"idle", "insert", "created", "answer", "401", "refreshed", "denied"}]
    /\ tab \in [Requests -> Tabs \cup {None}]
    /\ email \in [Forms -> Emails \cup {None}]
    /\ got \in [Requests -> Emails \cup {None}]
    /\ sameOrigin \in BOOLEAN
    /\ cookie \in Emails \cup {None}
    /\ raced \subseteq Forms
    /\ excused \subseteq Calls
    /\ meant \in Emails \cup {None, Unsure}
    /\ WaitsForAnswer

\* A sign-up that is past the count comes upon an account of its address, and is
\* told that something went wrong and not that the address is taken, only if
\* another sign-up of the address overlapped with it, or the count failed.
\* Whoever signs up one after the other is told the truth.
RefusalsAreRaces == \A f \in Forms : pc[f] = "insert" /\ users[email[f]] > 0 => f \in raced

\* The account of a pair.
User(pair) == IF pair = None THEN None ELSE pair.user

\* What a tab that is loaded now signs in as is what the user chose last in
\* this browser, unless a refresh or a sign-in was answered with an account that
\* the user had left, or that only the cookie was of, or a refresh was refused.
\* Nothing else changes sessions.
SessionIsChosen == meant # Unsure => User(storage) = meant

\* "On a 401, transparently refreshes the token once and retries" (lib/api.ts):
\* a call fails with a 401 only if its tab's session ended meanwhile, by the
\* user or by the week a refresh token lives, or if the refresh was hit by a
\* fault.  That other calls refresh at the same time is no reason.
ExpiryIsInvisible == \A c \in Calls : pc[c] # "denied"
===============================================================================
