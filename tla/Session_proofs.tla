----------------------------- MODULE Session_proofs -----------------------------
(***************************************************************************)
(* Proofs about Session, for any tabs, forms, calls and addresses.  Each   *)
(* property follows from an inductive invariant of its own, over the types *)
(* and what a request under way has in hand.                               *)
(***************************************************************************)
EXTENDS Session, TLAPS

-------------------------------------------------------------------------------
(***************************************************************************)
(* Types                                                                   *)
(***************************************************************************)

\* Forms and calls take different ways, a sign-up past the count has an address,
\* whoever awaits an answer knows its tab, and an open transaction that has
\* inserted an address is the only one, with no account there.
Working ==
    /\ \A f \in Forms : /\ pc[f] \in {"idle", "insert", "created", "answer"}
                        /\ SigningUp(f) => email[f] \in Emails
    /\ \A f \in Forms : pc[f] = "created" =>
          /\ users[email[f]] = 0
          /\ \A g \in Forms : pc[g] = "created" /\ email[g] = email[f] => g = f
    /\ \A c \in Calls : pc[c] \in {"idle", "401", "refreshed", "denied"}
    /\ \A r \in Requests : pc[r] \in {"answer", "401", "refreshed"} => tab[r] \in Tabs

TypeInv == TypeOK /\ Working

LEMMA TypeInit == Init => TypeInv
  BY DEF Init, TypeInv, TypeOK, WaitsForAnswer, Working, SigningUp, Requests

\* A new pair is one.
LEMMA IssuedIsPair == \A a \in Emails : Issued(a) \in Pair /\ Issued(a).user = a /\ Issued(a) # None
  BY NoneAssumption DEF Issued, Pair

\* Time leaves a pair the account it has.
LEMMA AgedIsPair ==
    ASSUME NEW pair \in Pair \cup {None}, NEW old \in {"stale", "dead"}
    PROVE  /\ Aged(pair, old) \in Pair \cup {None}
           /\ Aged(pair, old) = None <=> pair = None
           /\ User(Aged(pair, old)) = User(pair)
<1>1. CASE pair = None
  BY <1>1 DEF Aged, User
<1>2. CASE pair # None
  <2>1. pair \in Pair
    BY <1>2
  <2>2. Aged(pair, old) \in Pair /\ Aged(pair, old).user = pair.user
    BY <1>2, <2>1 DEF Aged, Pair
  <2> QED
    BY <1>2, <2>2, NoneAssumption DEF User, Pair
<1> QED
  BY <1>1, <1>2

\* Each step keeps the types, and every waiting page has its answer to come.
LEMMA TypeStep == TypeInv /\ [Next]_vars => TypeInv'
<1> SUFFICES ASSUME TypeInv, [Next]_vars PROVE TypeInv'
  OBVIOUS
<1> USE RequestAssumption, NoneAssumption
    DEF TypeInv, TypeOK, WaitsForAnswer, Working, SigningUp, Requests, historyVars
<1>1. ASSUME NEW t \in Tabs, Guard(t) PROVE TypeInv'
  BY <1>1 DEF Guard, Visit, requestVars, cookieVars
<1>2. ASSUME NEW t \in Tabs, Logout(t) PROVE TypeInv'
  BY <1>2 DEF Logout, ClearAuth, SetAuth, Visit, CallsOf, requestVars, cookieVars
<1>3. ASSUME NEW t \in Tabs, NEW to \in {"login", "register", "app"}, Follow(t, to) PROVE TypeInv'
  BY <1>3 DEF Follow, Visit, requestVars, cookieVars
<1>4. ASSUME NEW t \in Tabs, NEW to \in {"home", "login"}, Load(t, to) PROVE TypeInv'
  <2>1. cookie' \in Emails \cup {None} /\ sameOrigin' \in BOOLEAN
    BY <1>4 DEF Load, SetCookie, cookieVars
  <2> QED
    BY <1>4, <2>1 DEF Load, Visit
<1>5. ASSUME NEW t \in Tabs, NEW f \in Forms, NEW e \in Emails \cup {None}, Login(f, t, e)
      PROVE  TypeInv'
  BY <1>5 DEF Login, Submit, Goto, cookieVars
<1>6. ASSUME NEW t \in Tabs, NEW f \in Forms, NEW e \in Emails, SignUp(f, t, e) PROVE TypeInv'
  BY <1>6 DEF SignUp, Submit, Goto, Rivals, cookieVars
<1>7. ASSUME NEW t \in Tabs, NEW c \in Calls, Begin(c, t) PROVE TypeInv'
  BY <1>7 DEF Begin, Goto, browserVars, cookieVars
<1>8. ASSUME NEW f \in Forms, FormStep(f), ~FormAnswer(f) PROVE TypeInv'
  <2>1. CASE InsertUser(f)
    BY <2>1 DEF InsertUser, Rivals, Goto, browserVars, cookieVars
  <2>2. CASE CommitUser(f)
    BY <2>2 DEF CommitUser, SignedUp, Goto, browserVars, cookieVars
  <2>3. CASE SignUpFails(f)
    BY <2>3 DEF SignUpFails, SignedUp, Goto, browserVars, cookieVars
  <2> QED
    BY <1>8, <2>1, <2>2, <2>3 DEF FormStep
<1>9. ASSUME NEW f \in Forms, FormAnswer(f) PROVE TypeInv'
  <2>1. tab[f] \in Tabs
    BY <1>9 DEF FormAnswer
  <2>2. cookie' \in Emails \cup {None} /\ sameOrigin' \in BOOLEAN
    BY <1>9 DEF FormAnswer, SetCookie, MaySetCookie, cookieVars
  <2>3. store' \in [Tabs -> Pair \cup {None}] /\ storage' \in Pair \cup {None}
    BY <1>9, <2>1, IssuedIsPair DEF FormAnswer, SetAuth
  <2>4. meant' \in Emails \cup {None, Unsure}
    BY <1>9 DEF FormAnswer, Late
  <2> QED
    BY <1>9, <2>1, <2>2, <2>3, <2>4 DEF FormAnswer, Goto, Visit, StopWaiting
<1>10. ASSUME NEW c \in Calls, Refresh(c) PROVE TypeInv'
  <2>1. tab[c] \in Tabs
    BY <1>10 DEF Refresh
  <2>2. store[tab[c]] # None => Claimed(c) \in Emails \cup {None}
    BY <2>1 DEF Claimed, Pair
  <2> QED
    BY <1>10, <2>1, <2>2 DEF Refresh, Denied, End, Goto, browserVars, cookieVars
<1>11. ASSUME NEW c \in Calls, RefreshOk(c) PROVE TypeInv'
  <2>1. tab[c] \in Tabs /\ got[c] \in Emails
    BY <1>11 DEF RefreshOk
  <2>2. cookie' \in Emails \cup {None} /\ sameOrigin' \in BOOLEAN
    BY <1>11 DEF RefreshOk, SetCookie, cookieVars
  <2> QED
    BY <1>11, <2>1, <2>2, IssuedIsPair DEF RefreshOk, SetAuth, End, Goto, Late
<1>12. ASSUME NEW c \in Calls, RefreshRefused(c) PROVE TypeInv'
  BY <1>12 DEF RefreshRefused, ClearAuth, SetAuth, Denied, End, Goto, CallsOf, cookieVars
<1>13. ASSUME NEW c \in Calls, RefreshLost(c) PROVE TypeInv'
  <2>1. cookie' \in Emails \cup {None} /\ sameOrigin' \in BOOLEAN
    BY <1>13 DEF RefreshLost, SetCookie, MaySetCookie, cookieVars
  <2> QED
    BY <1>13, <2>1 DEF RefreshLost, End, Goto, browserVars
<1>14. ASSUME NEW old \in {"stale", "dead"}, TimePasses(old) PROVE TypeInv'
  BY <1>14, AgedIsPair DEF TimePasses, requestVars
<1>15. CASE UNCHANGED vars
  BY <1>15 DEF vars, browserVars, requestVars, cookieVars
<1> QED
  BY <1>1, <1>2, <1>3, <1>4, <1>5, <1>6, <1>7, <1>8, <1>9, <1>10, <1>11, <1>12, <1>13, <1>14, <1>15
     DEF Next, TabStep, FormStep, CallStep

(***************************************************************************)
(* Types, and a page's button is disabled only while an answer is on its   *)
(* way to it: it is enabled again whatever becomes of the request.         *)
(***************************************************************************)
THEOREM TypeCorrect == Spec => []TypeOK
<1>1. Spec => []TypeInv
  BY TypeInit, TypeStep, PTL DEF Spec
<1>2. TypeInv => TypeOK
  BY DEF TypeInv
<1> QED
  BY <1>1, <1>2, PTL

-------------------------------------------------------------------------------
(***************************************************************************)
(* Accounts                                                                *)
(***************************************************************************)

\* Sign-ups of one address that are past the count at one time have overlapped,
\* and one that comes upon an account has done so, or its count failed.
RaceInv ==
    /\ \A f, g \in Forms :
          f # g /\ SigningUp(f) /\ SigningUp(g) /\ email[f] = email[g] => f \in raced
    /\ RefusalsAreRaces

LEMMA RaceInit == Init => RaceInv
  BY DEF Init, RaceInv, RefusalsAreRaces, SigningUp, Requests

\* A sign-up notes the others it meets at its count, and they it; a commit is
\* come upon only by those it has met.
LEMMA RaceStep == TypeInv /\ RaceInv /\ [Next]_vars => RaceInv'
<1> SUFFICES ASSUME TypeInv, RaceInv, [Next]_vars PROVE RaceInv'
  OBVIOUS
<1> USE RequestAssumption, NoneAssumption
    DEF TypeInv, TypeOK, Working, SigningUp, Requests, RaceInv, RefusalsAreRaces
<1>1. ASSUME UNCHANGED <<users, raced>>,
             \A f \in Forms : pc'[f] = "insert" => pc[f] = "insert",
             \A f \in Forms : SigningUp(f)' => SigningUp(f) /\ email'[f] = email[f]
      PROVE  RaceInv'
  BY <1>1
<1>2. ASSUME NEW t \in Tabs, NEW f \in Forms, NEW e \in Emails, SignUp(f, t, e) PROVE RaceInv'
  BY <1>2 DEF SignUp, Submit, Goto, Rivals, Taken
<1>3. ASSUME NEW f \in Forms, InsertUser(f) PROVE RaceInv'
  BY <1>1, <1>3 DEF InsertUser, Goto, historyVars
<1>4. ASSUME NEW f \in Forms, CommitUser(f) PROVE RaceInv'
  BY <1>4 DEF CommitUser, SignedUp, Goto
<1>5. ASSUME NEW f \in Forms, SignUpFails(f) PROVE RaceInv'
  BY <1>5 DEF SignUpFails, SignedUp, Goto
<1>6. ASSUME NEW f \in Forms, FormAnswer(f) PROVE RaceInv'
  BY <1>1, <1>6 DEF FormAnswer, Goto
<1>7. ASSUME NEW c \in Calls, CallStep(c) PROVE RaceInv'
  <2>1. UNCHANGED <<users, raced, email>> /\ \A f \in Forms : pc'[f] = pc[f]
    BY <1>7 DEF CallStep, Refresh, RefreshOk, RefreshRefused, RefreshLost, Denied, End, Goto,
                historyVars
  <2> QED
    BY <1>1, <2>1
<1>8. ASSUME NEW t \in Tabs, NEW to \in {"home", "login"}, Load(t, to) PROVE RaceInv'
  BY <1>1, <1>8 DEF Load
<1>9. ASSUME NEW t \in Tabs, NEW f \in Forms, NEW e \in Emails \cup {None}, Login(f, t, e)
      PROVE  RaceInv'
  BY <1>1, <1>9 DEF Login, Submit, Goto
<1>10. ASSUME NEW t \in Tabs, NEW c \in Calls, Begin(c, t) PROVE RaceInv'
  BY <1>1, <1>10 DEF Begin, Goto, historyVars
<1>11. ASSUME UNCHANGED <<users, raced, pc, email>> PROVE RaceInv'
  BY <1>11
<1>12. \/ \E t \in Tabs :
             \/ \E to \in {"home", "login"} : Load(t, to)
             \/ \E f \in Forms, e \in Emails \cup {None} : Login(f, t, e)
             \/ \E f \in Forms, e \in Emails : SignUp(f, t, e)
             \/ \E c \in Calls : Begin(c, t)
       \/ \E f \in Forms : FormStep(f)
       \/ \E c \in Calls : CallStep(c)
       \/ UNCHANGED <<users, raced, pc, email>>
  BY DEF Next, TabStep, Guard, Logout, Follow, TimePasses, vars, requestVars, historyVars
<1> QED
  BY <1>2, <1>3, <1>4, <1>5, <1>6, <1>7, <1>8, <1>9, <1>10, <1>11, <1>12 DEF FormStep

(***************************************************************************)
(* A sign-up that the count let pass is refused by the unique index only   *)
(* if another sign-up of the address overlapped with it, however they      *)
(* insert, wait for each other, commit and fail.                           *)
(***************************************************************************)
THEOREM OnlyRacesAreRefused == Spec => []RefusalsAreRaces
<1>1. Spec => [](TypeInv /\ RaceInv)
  BY TypeInit, TypeStep, RaceInit, RaceStep, PTL DEF Spec
<1>2. RaceInv => RefusalsAreRaces
  BY DEF RaceInv
<1> QED
  BY <1>1, <1>2, PTL

-------------------------------------------------------------------------------
(***************************************************************************)
(* Sessions                                                                *)
(***************************************************************************)

\* What an answer with tokens leaves in localStorage is what was meant, or the
\* user's choice is no longer known to be in force.
LEMMA AnswerIsChosenOrLate ==
    ASSUME NEW a \in Emails, NEW t \in Tabs, SetAuth(t, Issued(a)), Late(a) \/ meant' = a
    PROVE  SessionIsChosen'
  BY IssuedIsPair DEF SetAuth, Late, SessionIsChosen, User

(***************************************************************************)
(* localStorage holds the account the user chose last, until an answer     *)
(* brings one that was left, or a refresh is refused.  No interleaving of  *)
(* tabs, forms and calls brings about anything else.                       *)
(***************************************************************************)
THEOREM ChoiceStands == Spec => []SessionIsChosen
<1>1. Init => SessionIsChosen
  BY DEF Init, SessionIsChosen, User
<1>2. TypeInv /\ SessionIsChosen /\ [Next]_vars => SessionIsChosen'
  <2> SUFFICES ASSUME TypeInv, SessionIsChosen, [Next]_vars PROVE SessionIsChosen'
    OBVIOUS
  <2>1. ASSUME NEW t \in Tabs, Logout(t) PROVE SessionIsChosen'
    BY <2>1 DEF Logout, ClearAuth, SetAuth, SessionIsChosen, User
  <2>2. ASSUME NEW f \in Forms, FormAnswer(f) PROVE SessionIsChosen'
    <3>1. tab[f] \in Tabs /\ got[f] \in Emails \cup {None}
      BY <2>2 DEF FormAnswer, TypeInv, TypeOK, Working, Requests
    <3>2. CASE UNCHANGED <<storage, meant>>
      BY <3>2 DEF SessionIsChosen
    <3>3. CASE got[f] # None /\ SetAuth(tab[f], Issued(got[f])) /\ (meant' = got[f] \/ Late(got[f]))
      BY <3>1, <3>3, AnswerIsChosenOrLate
    <3> QED
      BY <2>2, <3>2, <3>3 DEF FormAnswer
  <2>3. ASSUME NEW c \in Calls, RefreshOk(c) PROVE SessionIsChosen'
    <3>1. tab[c] \in Tabs /\ got[c] \in Emails
      BY <2>3 DEF RefreshOk, TypeInv, TypeOK, Working, Requests
    <3> QED
      BY <2>3, <3>1, AnswerIsChosenOrLate DEF RefreshOk
  <2>4. ASSUME NEW c \in Calls, RefreshRefused(c) PROVE SessionIsChosen'
    BY <2>4 DEF RefreshRefused, SessionIsChosen
  <2>5. ASSUME NEW old \in {"stale", "dead"}, TimePasses(old) PROVE SessionIsChosen'
    <3>1. User(storage') = User(storage) /\ meant' = meant
      BY <2>5, AgedIsPair DEF TimePasses, historyVars, TypeInv, TypeOK
    <3> QED
      BY <3>1 DEF SessionIsChosen, User
  <2>6. CASE UNCHANGED <<storage, meant>>
    BY <2>6 DEF SessionIsChosen
  <2>7. \/ \E t \in Tabs : Logout(t)
        \/ \E f \in Forms : FormAnswer(f)
        \/ \E c \in Calls : RefreshOk(c) \/ RefreshRefused(c)
        \/ \E old \in {"stale", "dead"} : TimePasses(old)
        \/ UNCHANGED <<storage, meant>>
    BY DEF Next, TabStep, FormStep, CallStep, vars, browserVars, historyVars, Guard, Follow, Load,
           Login, SignUp, Submit, Begin, InsertUser, CommitUser, SignUpFails, SignedUp, Refresh,
           RefreshLost
  <2> QED
    BY <2>1, <2>2, <2>3, <2>4, <2>5, <2>6, <2>7
<1>3. Spec => []TypeInv
  BY TypeInit, TypeStep, PTL DEF Spec
<1> QED
  BY <1>1, <1>2, <1>3, PTL DEF Spec

\* Why no call ends with a 401 that nothing excuses: one whose 401 is to come
\* finds a session in its tab, and one whose refresh was answered has tokens,
\* or there is an excuse.
CallInv ==
    \A c \in Calls :
        /\ pc[c] # "denied"
        /\ pc[c] = "401" /\ store[tab[c]] = None => c \in excused
        /\ pc[c] = "refreshed" /\ got[c] = None => c \in excused

LEMMA CallInit == Init => CallInv
  BY DEF Init, CallInv, Requests

\* A step takes a session away only from calls it excuses, and takes the excuse
\* only from the call that ends.
LEMMA CallStepKeeps == TypeInv /\ CallInv /\ [Next]_vars => CallInv'
<1> SUFFICES ASSUME TypeInv, CallInv, [Next]_vars PROVE CallInv'
  OBVIOUS
<1> USE RequestAssumption, NoneAssumption
    DEF TypeInv, TypeOK, Working, SigningUp, Requests, CallInv, historyVars
<1>1. ASSUME NEW t \in Tabs, Guard(t) PROVE CallInv'
  BY <1>1 DEF Guard, requestVars
<1>2. ASSUME NEW t \in Tabs, Logout(t) PROVE CallInv'
  BY <1>2 DEF Logout, ClearAuth, SetAuth, CallsOf, requestVars
<1>3. ASSUME NEW t \in Tabs, NEW to \in {"login", "register", "app"}, Follow(t, to) PROVE CallInv'
  BY <1>3 DEF Follow, requestVars
<1>4. ASSUME NEW t \in Tabs, NEW to \in {"home", "login"}, Load(t, to) PROVE CallInv'
  BY <1>4 DEF Load
<1>5. ASSUME NEW t \in Tabs, NEW f \in Forms, NEW e \in Emails \cup {None}, Login(f, t, e)
      PROVE  CallInv'
  BY <1>5 DEF Login, Submit, Goto
<1>6. ASSUME NEW t \in Tabs, NEW f \in Forms, NEW e \in Emails, SignUp(f, t, e) PROVE CallInv'
  BY <1>6 DEF SignUp, Submit, Goto
<1>7. ASSUME NEW t \in Tabs, NEW c \in Calls, Begin(c, t) PROVE CallInv'
  BY <1>7 DEF Begin, Goto, browserVars
<1>8. ASSUME NEW f \in Forms, InsertUser(f) \/ CommitUser(f) \/ SignUpFails(f) PROVE CallInv'
  BY <1>8 DEF InsertUser, CommitUser, SignUpFails, SignedUp, Goto, browserVars
<1>9. ASSUME NEW f \in Forms, FormAnswer(f) PROVE CallInv'
  <2>1. tab[f] \in Tabs
    BY <1>9 DEF FormAnswer
  <2>2. \A t \in Tabs : store'[t] = None => store[t] = None
    BY <1>9, <2>1, IssuedIsPair DEF FormAnswer, SetAuth
  <2> QED
    BY <1>9, <2>2 DEF FormAnswer, Goto
<1>10. ASSUME NEW c \in Calls, Refresh(c) PROVE CallInv'
  <2>1. tab[c] \in Tabs
    BY <1>10 DEF Refresh
  <2>2. CASE store[tab[c]] = None
    BY <1>10, <2>2 DEF Refresh, Denied, End, Goto, browserVars
  <2>3. CASE store[tab[c]] # None
    <3>1. ~Accepted(c) => store[tab[c]].age = "dead"
      BY <2>1, <2>3 DEF Accepted, Claimed, Pair
    <3> QED
      BY <1>10, <2>1, <2>3, <3>1 DEF Refresh, Accepted, Goto, browserVars
  <2> QED
    BY <2>2, <2>3
<1>11. ASSUME NEW c \in Calls, RefreshOk(c) PROVE CallInv'
  <2>1. tab[c] \in Tabs /\ got[c] \in Emails
    BY <1>11 DEF RefreshOk
  <2>2. \A t \in Tabs : store'[t] = None => store[t] = None
    BY <1>11, <2>1, IssuedIsPair DEF RefreshOk, SetAuth
  <2> QED
    BY <1>11, <2>2 DEF RefreshOk, End, Goto
<1>12. ASSUME NEW c \in Calls, RefreshRefused(c) PROVE CallInv'
  BY <1>12 DEF RefreshRefused, ClearAuth, SetAuth, Denied, End, Goto, CallsOf
<1>13. ASSUME NEW c \in Calls, RefreshLost(c) PROVE CallInv'
  BY <1>13 DEF RefreshLost, End, Goto, browserVars
<1>14. ASSUME NEW old \in {"stale", "dead"}, TimePasses(old) PROVE CallInv'
  BY <1>14, AgedIsPair DEF TimePasses, requestVars
<1>15. CASE UNCHANGED vars
  BY <1>15 DEF vars, browserVars, requestVars
<1> QED
  BY <1>1, <1>2, <1>3, <1>4, <1>5, <1>6, <1>7, <1>8, <1>9, <1>10, <1>11, <1>12, <1>13, <1>14, <1>15
     DEF Next, TabStep, FormStep, CallStep

(***************************************************************************)
(* A call whose token has expired is retried with a new one, however many  *)
(* calls refresh at a time, unless the session of its tab has ended, or a  *)
(* fault has hit its refresh.                                              *)
(***************************************************************************)
THEOREM RetriesAreTransparent == Spec => []ExpiryIsInvisible
<1>1. Spec => [](TypeInv /\ CallInv)
  BY TypeInit, TypeStep, CallInit, CallStepKeeps, PTL DEF Spec
<1>2. CallInv => ExpiryIsInvisible
  BY DEF CallInv, ExpiryIsInvisible
<1> QED
  BY <1>1, <1>2, PTL
===============================================================================
