---------------------------- MODULE ToolProofs ----------------------------
(***************************************************************************)
(* Signing in, and the tools that wait for ANAF, for every number of       *)
(* calls.  browser_login: types, that an attempt takes only what its own   *)
(* redirects brought, and that it always gives the callback port back.     *)
(* The portal session: types, that an approval is lost only to a race, and *)
(* that the certificate prompt fires only while the call that waits for it *)
(* is there.  The duplicate guard of the reports: types, that a reused id  *)
(* names a filing of that day, and that a second request of a day has one  *)
(* of the explanations the guard allows.  The wait for a document: types,  *)
(* that a poll keeps its budget, that a document that is there is found,   *)
(* and that no file is replaced.                                           *)
(***************************************************************************)
EXTENDS LoginAttempts, PortalSession, ReportRequests, DocumentWait, TLAPS

(* browser_login.                                                          *)

USE NobodyIsNone

\* A redirect of this attempt's URL has happened.
Came(t, a) == tab[t].of = a /\ tab[t].at # "idle"

Answered(a) == attempt[a].code # Nobody \/ attempt[a].error # Nobody

\* What the listener stored and the waiter took are the attempt's own redirects,
\* and the waiter is released only when something is stored.
OwnResults(a) ==
    /\ attempt[a].code # Nobody => Came(attempt[a].code, a)
    /\ attempt[a].error # Nobody => Came(attempt[a].error, a)
    /\ attempt[a].taken # Nobody => Came(attempt[a].taken, a)
    /\ attempt[a].done => Answered(a)
    /\ attempt[a].outcome # "crash"

\* A thread between accepting a request and its end belongs to an attempt, and
\* has stored its result before it releases the waiter.
ThreadHolds(t) ==
    /\ tab[t].at \in {"accepted", "stored", "shown", "refused"} => tab[t].to \in Attempts
    /\ tab[t].at \in {"stored", "shown"} => Answered(tab[t].to)

\* OnlyOwnRedirects is not inductive alone: the waiter reads what a thread
\* stored earlier, and finds it there only because the thread stored first.
LoginInv ==
    /\ LoginTypeOK
    /\ \A a \in Attempts : OwnResults(a)
    /\ \A t \in Tabs : ThreadHolds(t)
    /\ ListenerReleased

LEMMA InitLogin == LoginInit => LoginInv
<1> SUFFICES ASSUME LoginInit PROVE LoginInv
  OBVIOUS
<1>1. LoginTypeOK
  BY DEF LoginInit, LoginTypeOK, AttemptStates, TabStates
<1>2. \A a \in Attempts : OwnResults(a)
  BY DEF LoginInit, OwnResults
<1>3. \A t \in Tabs : ThreadHolds(t)
  BY DEF LoginInit, ThreadHolds
<1>4. ListenerReleased
  BY DEF LoginInit, ListenerReleased
<1>5. QED
  BY <1>1, <1>2, <1>3, <1>4 DEF LoginInv

-----------------------------------------------------------------------------
(* The attempt's steps: no tab changes, and no result that is stored.       *)

\* An attempt's step may take a result it holds, and changes no other attempt
\* nor what the threads stored.
OwnStep(a) ==
    /\ tab' = tab
    /\ \A b \in Attempts \ {a} : attempt'[b] = attempt[b]
    /\ attempt'[a].code = attempt[a].code /\ attempt'[a].error = attempt[a].error
    /\ attempt'[a].done = attempt[a].done
    /\ attempt'[a].taken \in {attempt[a].taken, attempt[a].code, attempt[a].error}
    /\ attempt'[a].outcome # "crash"

LEMMA OwnStepKeeps ==
    ASSUME LoginInv, NEW a \in Attempts, OwnStep(a)
    PROVE  /\ \A b \in Attempts : OwnResults(b)'
           /\ \A t \in Tabs : ThreadHolds(t)'
<1>1. \A t, b : Came(t, b)' <=> Came(t, b)
  BY DEF OwnStep, Came
<1>2. \A b \in Attempts : Answered(b)' <=> Answered(b)
  BY DEF OwnStep, Answered
<1>3. ASSUME NEW b \in Attempts PROVE OwnResults(b)'
  <2>1. CASE b = a
    BY <1>1, <1>2, <2>1 DEF OwnStep, OwnResults, LoginInv
  <2>2. CASE b # a
    BY <1>1, <1>2, <2>2 DEF OwnStep, OwnResults, LoginInv
  <2>3. QED
    BY <2>1, <2>2
<1>4. ASSUME NEW t \in Tabs PROVE ThreadHolds(t)'
  BY <1>2 DEF OwnStep, ThreadHolds, LoginInv
<1>5. QED
  BY <1>3, <1>4

LEMMA BindKeeps ==
    ASSUME LoginInv, NEW a \in Attempts, Bind(a)
    PROVE  LoginInv'
<1>1. attempt \in [Attempts -> AttemptStates]
  BY DEF LoginInv, LoginTypeOK
<1>2. LoginTypeOK'
  BY <1>1 DEF LoginInv, LoginTypeOK, Bind, AttemptStates
<1>3. OwnStep(a)
  BY <1>1 DEF LoginInv, OwnResults, OwnStep, Bind, AttemptStates
<1>4. ListenerReleased'
  BY <1>1 DEF LoginInv, ListenerReleased, Bind, AttemptStates
<1>5. QED
  BY <1>2, <1>3, <1>4, OwnStepKeeps DEF LoginInv

LEMMA OpenBrowserKeeps ==
    ASSUME LoginInv, NEW a \in Attempts, OpenBrowser(a)
    PROVE  LoginInv'
<1>1. attempt \in [Attempts -> AttemptStates]
  BY DEF LoginInv, LoginTypeOK
<1>2. LoginTypeOK'
  BY <1>1 DEF LoginInv, LoginTypeOK, OpenBrowser, GivesUp, AttemptStates
<1>3. OwnStep(a)
  BY <1>1 DEF LoginInv, OwnResults, OwnStep, OpenBrowser, AttemptStates
<1>4. ListenerReleased'
  BY <1>1 DEF LoginInv, ListenerReleased, OpenBrowser, GivesUp, AttemptStates
<1>5. QED
  BY <1>2, <1>3, <1>4, OwnStepKeeps DEF LoginInv

LEMMA WakesKeeps ==
    ASSUME LoginInv, NEW a \in Attempts, Wakes(a)
    PROVE  LoginInv'
<1>1. attempt \in [Attempts -> AttemptStates]
  BY DEF LoginInv, LoginTypeOK
<1>2. Answered(a) /\ attempt[a].outcome # "crash"
  BY DEF LoginInv, OwnResults, Wakes
<1>3. LoginTypeOK'
  <2>1. attempt[a] \in AttemptStates /\ attempt'[a] \in AttemptStates
    <3> DEFINE took == IF attempt[a].error # Nobody THEN attempt[a].error ELSE attempt[a].code
    <3>1. attempt[a] \in AttemptStates /\ took \in Tabs \cup {Nobody}
      BY <1>1 DEF AttemptStates
    <3>2. PICK how \in {"denied", "crash", "none"} : attempt'[a] =
            [attempt[a] EXCEPT !.at = "closing", !.taken = took, !.outcome = how]
      BY <1>1 DEF Wakes
    <3> HIDE DEF took
    <3>3. QED
      BY <3>1, <3>2 DEF AttemptStates
  <2>2. attempt' = [attempt EXCEPT ![a] = attempt'[a]]
    BY <1>1 DEF Wakes
  <2>3. attempt' \in [Attempts -> AttemptStates]
    BY <1>1, <2>1, <2>2
  <2>4. QED
    BY <2>3 DEF LoginInv, LoginTypeOK, Wakes
<1>4. OwnStep(a)
  BY <1>1, <1>2 DEF OwnStep, Wakes, Answered, AttemptStates
<1>5. ListenerReleased'
  BY <1>1 DEF LoginInv, ListenerReleased, Wakes, AttemptStates
<1>6. QED
  BY <1>3, <1>4, <1>5, OwnStepKeeps DEF LoginInv

LEMMA TimeOutKeeps ==
    ASSUME LoginInv, NEW a \in Attempts, TimeOut(a)
    PROVE  LoginInv'
<1>1. attempt \in [Attempts -> AttemptStates]
  BY DEF LoginInv, LoginTypeOK
<1>2. LoginTypeOK'
  <2>1. attempt[a] \in AttemptStates /\ attempt'[a] \in AttemptStates
    BY <1>1 DEF TimeOut, AttemptStates
  <2>2. attempt' = [attempt EXCEPT ![a] = attempt'[a]]
    BY <1>1 DEF TimeOut
  <2>3. attempt' \in [Attempts -> AttemptStates]
    BY <1>1, <2>1, <2>2
  <2>4. QED
    BY <2>3 DEF LoginInv, LoginTypeOK, TimeOut
<1>3. OwnStep(a)
  BY <1>1 DEF OwnStep, TimeOut, AttemptStates
<1>4. ListenerReleased'
  BY <1>1 DEF LoginInv, ListenerReleased, TimeOut, AttemptStates
<1>5. QED
  BY <1>2, <1>3, <1>4, OwnStepKeeps DEF LoginInv

LEMMA CloseKeeps ==
    ASSUME LoginInv, NEW a \in Attempts, Close(a)
    PROVE  LoginInv'
<1>1. attempt \in [Attempts -> AttemptStates]
  BY DEF LoginInv, LoginTypeOK
<1>2. LoginTypeOK'
  BY <1>1 DEF LoginInv, LoginTypeOK, Close, AttemptStates
<1>3. OwnStep(a)
  BY <1>1 DEF LoginInv, OwnResults, OwnStep, Close, AttemptStates
<1>4. port = a
  BY DEF LoginInv, ListenerReleased, Close
<1>5. ListenerReleased'
  BY <1>1, <1>4 DEF LoginInv, ListenerReleased, Close, AttemptStates
<1>6. QED
  BY <1>2, <1>3, <1>5, OwnStepKeeps DEF LoginInv

LEMMA ExchangeKeeps ==
    ASSUME LoginInv, NEW a \in Attempts, Exchange(a)
    PROVE  LoginInv'
<1>1. attempt \in [Attempts -> AttemptStates]
  BY DEF LoginInv, LoginTypeOK
<1>2. LoginTypeOK'
  <2>1. attempt[a] \in AttemptStates /\ attempt'[a] \in AttemptStates
    <3>1. PICK outcome \in {"completed", "exchange_failed", "not_saved"} :
            attempt'[a] = [attempt[a] EXCEPT !.at = "ended", !.outcome = outcome]
      BY <1>1 DEF Exchange
    <3>2. QED
      BY <1>1, <3>1 DEF AttemptStates
  <2>2. attempt' = [attempt EXCEPT ![a] = attempt'[a]]
    BY <1>1 DEF Exchange
  <2>3. attempt' \in [Attempts -> AttemptStates]
    BY <1>1, <2>1, <2>2
  <2>4. QED
    BY <2>3 DEF LoginInv, LoginTypeOK, Exchange
<1>3. OwnStep(a)
  BY <1>1 DEF OwnStep, Exchange, AttemptStates
<1>4. ListenerReleased'
  BY <1>1 DEF LoginInv, ListenerReleased, Exchange, AttemptStates
<1>5. QED
  BY <1>2, <1>3, <1>4, OwnStepKeeps DEF LoginInv

-----------------------------------------------------------------------------
(* The browser's and the threads' steps.                                   *)

\* A redirect keeps the attempt it came for, and the port changes with none.
LEMMA CameStays ==
    ASSUME LoginInv, NEW t \in Tabs,
           \A s \in Tabs \ {t} : tab'[s] = tab[s],
           tab'[t].at # "idle",
           tab[t].at # "idle" => tab'[t].of = tab[t].of,
           NEW a \in Attempts, NEW s \in Tabs, Came(s, a)
    PROVE  Came(s, a)'
BY DEF Came

LEMMA RedirectKeeps ==
    ASSUME LoginInv, NEW t \in Tabs, NEW a \in Attempts, NEW brings \in {"code", "error"},
           Redirect(t, a, brings)
    PROVE  LoginInv'
<1>1. tab \in [Tabs -> TabStates] /\ attempt \in [Attempts -> AttemptStates]
  BY DEF LoginInv, LoginTypeOK
<1>2. LoginTypeOK'
  <2>1. tab[t] \in TabStates /\ tab'[t] \in TabStates
    BY <1>1 DEF Redirect, TabStates
  <2>2. tab' = [tab EXCEPT ![t] = tab'[t]]
    BY <1>1 DEF Redirect
  <2>3. tab' \in [Tabs -> TabStates]
    BY <1>1, <2>1, <2>2
  <2>4. QED
    BY <2>3 DEF LoginInv, LoginTypeOK, Redirect
<1>3. /\ \A s \in Tabs \ {t} : tab'[s] = tab[s]
      /\ tab[t].at = "idle" /\ tab'[t].at = "sent" /\ attempt' = attempt
  BY <1>1 DEF Redirect, TabStates
<1>4. \A b \in Attempts, s \in Tabs : Came(s, b) => Came(s, b)'
  BY <1>3, CameStays
<1>5. ASSUME NEW b \in Attempts PROVE OwnResults(b)'
  BY <1>1, <1>3, <1>4 DEF LoginInv, OwnResults, Answered, AttemptStates
<1>6. ASSUME NEW s \in Tabs PROVE ThreadHolds(s)'
  BY <1>3 DEF LoginInv, ThreadHolds, Answered
<1>7. ListenerReleased'
  BY DEF LoginInv, ListenerReleased, Redirect
<1>8. QED
  BY <1>2, <1>5, <1>6, <1>7 DEF LoginInv

LEMMA AcceptKeeps ==
    ASSUME LoginInv, NEW t \in Tabs, Accept(t)
    PROVE  LoginInv'
<1>1. tab \in [Tabs -> TabStates] /\ attempt \in [Attempts -> AttemptStates]
      /\ port \in Attempts \cup {Nobody}
  BY DEF LoginInv, LoginTypeOK
<1>2. LoginTypeOK'
  <2>1. tab[t] \in TabStates /\ tab'[t] \in TabStates
    BY <1>1 DEF Accept, TabStates
  <2>2. tab' = [tab EXCEPT ![t] = tab'[t]]
    BY <1>1 DEF Accept
  <2>3. tab' \in [Tabs -> TabStates]
    BY <1>1, <2>1, <2>2
  <2>4. QED
    BY <2>3 DEF LoginInv, LoginTypeOK, Accept
<1>3. /\ \A s \in Tabs \ {t} : tab'[s] = tab[s]
      /\ tab'[t].at \in {"over", "accepted"} /\ tab'[t].of = tab[t].of
      /\ tab'[t].at = "accepted" => tab'[t].to \in Attempts
      /\ attempt' = attempt
  BY <1>1 DEF Accept, TabStates
<1>4. \A b \in Attempts, s \in Tabs : Came(s, b) => Came(s, b)'
  BY <1>3, CameStays
<1>5. ASSUME NEW b \in Attempts PROVE OwnResults(b)'
  BY <1>1, <1>3, <1>4 DEF LoginInv, OwnResults, Answered, AttemptStates
<1>6. ASSUME NEW s \in Tabs PROVE ThreadHolds(s)'
  BY <1>3 DEF LoginInv, ThreadHolds, Answered
<1>7. ListenerReleased'
  BY DEF LoginInv, ListenerReleased, Accept
<1>8. QED
  BY <1>2, <1>5, <1>6, <1>7 DEF LoginInv

LEMMA StoreKeeps ==
    ASSUME LoginInv, NEW t \in Tabs, Store(t)
    PROVE  LoginInv'
<1>1. tab \in [Tabs -> TabStates] /\ attempt \in [Attempts -> AttemptStates]
  BY DEF LoginInv, LoginTypeOK
<1>2. PICK a \in Attempts : tab[t].to = a /\ tab[t].of = a /\ tab[t].at = "accepted"
  BY DEF LoginInv, ThreadHolds, Store, StateMatches
<1>3. /\ \A s \in Tabs \ {t} : tab'[s] = tab[s]
      /\ tab'[t].at = "stored" /\ tab'[t].of = tab[t].of /\ tab'[t].to = a
      /\ port' = port
  BY <1>1, <1>2 DEF Store, TabStates
<1>4. /\ \A b \in Attempts \ {a} : attempt'[b] = attempt[b]
      /\ \/ attempt'[a] = [attempt[a] EXCEPT !.code = t]
         \/ attempt'[a] = [attempt[a] EXCEPT !.error = t]
  BY <1>1, <1>2 DEF Store
<1>5. attempt' \in [Attempts -> AttemptStates]
  BY <1>1, <1>2 DEF Store, AttemptStates
<1>6. LoginTypeOK'
  BY <1>1, <1>5 DEF LoginInv, LoginTypeOK, Store, TabStates
<1>7. \A b \in Attempts, s \in Tabs : Came(s, b) => Came(s, b)'
  BY <1>2, <1>3, CameStays
<1>8. Came(t, a)'
  BY <1>2, <1>3 DEF Came
<1>9. ASSUME NEW b \in Attempts PROVE OwnResults(b)' /\ (Answered(b) => Answered(b)')
  <2>1. OwnResults(b) /\ attempt[b] \in AttemptStates
    BY <1>1 DEF LoginInv
  <2>2. CASE b = a
    <3>1. /\ attempt'[b].code \in {attempt[b].code, t}
          /\ attempt'[b].error \in {attempt[b].error, t}
          /\ attempt'[b].code = t \/ attempt'[b].error = t
          /\ attempt'[b].taken = attempt[b].taken /\ attempt'[b].outcome = attempt[b].outcome
      BY <1>4, <2>1, <2>2 DEF AttemptStates
    <3>2. attempt[b].code \in Tabs \cup {Nobody} /\ attempt[b].error \in Tabs \cup {Nobody}
          /\ attempt[b].taken \in Tabs \cup {Nobody}
      BY <2>1 DEF AttemptStates
    <3>3. Came(t, b)' /\ t # Nobody
      BY <1>8, <2>2
    <3>4. QED
      BY <1>7, <2>1, <3>1, <3>2, <3>3 DEF OwnResults, Answered
  <2>3. CASE b # a
    BY <1>4, <1>7, <2>1, <2>3 DEF OwnResults, Answered, AttemptStates
  <2>4. QED
    BY <2>2, <2>3
<1>10. Answered(a)'
  <2>1. attempt[a] \in AttemptStates /\ t # Nobody
    BY <1>1, <1>2
  <2>2. attempt'[a].code = t \/ attempt'[a].error = t
    BY <1>4, <2>1 DEF AttemptStates
  <2>3. QED
    BY <2>1, <2>2 DEF Answered
<1>11. ASSUME NEW s \in Tabs PROVE ThreadHolds(s)'
  <2>1. CASE s = t
    BY <1>2, <1>3, <1>10, <2>1 DEF ThreadHolds
  <2>2. CASE s # t
    BY <1>3, <1>9, <2>2 DEF ThreadHolds, LoginInv, Answered
  <2>3. QED
    BY <2>1, <2>2
<1>12. \A b \in Attempts : attempt'[b].at = attempt[b].at
  BY <1>1, <1>2, <1>4 DEF AttemptStates
<1>13. ListenerReleased'
  BY <1>3, <1>12 DEF LoginInv, ListenerReleased
<1>14. QED
  BY <1>6, <1>9, <1>11, <1>13 DEF LoginInv

LEMMA RefuseKeeps ==
    ASSUME LoginInv, NEW t \in Tabs, Refuse(t)
    PROVE  LoginInv'
<1>1. tab \in [Tabs -> TabStates] /\ attempt \in [Attempts -> AttemptStates]
  BY DEF LoginInv, LoginTypeOK
<1>2. LoginTypeOK'
  BY <1>1 DEF LoginInv, LoginTypeOK, Refuse, TabStates
<1>3. /\ \A s \in Tabs \ {t} : tab'[s] = tab[s]
      /\ tab[t].at = "accepted" /\ tab'[t].at = "refused"
      /\ tab'[t].of = tab[t].of /\ tab'[t].to = tab[t].to
      /\ attempt' = attempt
  BY <1>1 DEF Refuse, TabStates
<1>4. \A b \in Attempts, s \in Tabs : Came(s, b) => Came(s, b)'
  BY <1>3, CameStays
<1>5. ASSUME NEW b \in Attempts PROVE OwnResults(b)'
  BY <1>1, <1>3, <1>4 DEF LoginInv, OwnResults, Answered, AttemptStates
<1>6. ASSUME NEW s \in Tabs PROVE ThreadHolds(s)'
  BY <1>3 DEF LoginInv, ThreadHolds, Answered
<1>7. ListenerReleased'
  BY DEF LoginInv, ListenerReleased, Refuse
<1>8. QED
  BY <1>2, <1>5, <1>6, <1>7 DEF LoginInv

LEMMA ShowKeeps ==
    ASSUME LoginInv, NEW t \in Tabs, Show(t)
    PROVE  LoginInv'
<1>1. tab \in [Tabs -> TabStates] /\ attempt \in [Attempts -> AttemptStates]
  BY DEF LoginInv, LoginTypeOK
<1>2. LoginTypeOK'
  BY <1>1 DEF LoginInv, LoginTypeOK, Show, TabStates
<1>3. /\ \A s \in Tabs \ {t} : tab'[s] = tab[s]
      /\ tab[t].at = "stored" /\ tab'[t].at = "shown"
      /\ tab'[t].of = tab[t].of /\ tab'[t].to = tab[t].to
      /\ attempt' = attempt
  BY <1>1 DEF Show, TabStates
<1>4. \A b \in Attempts, s \in Tabs : Came(s, b) => Came(s, b)'
  BY <1>3, CameStays
<1>5. ASSUME NEW b \in Attempts PROVE OwnResults(b)'
  BY <1>1, <1>3, <1>4 DEF LoginInv, OwnResults, Answered, AttemptStates
<1>6. ASSUME NEW s \in Tabs PROVE ThreadHolds(s)'
  BY <1>3 DEF LoginInv, ThreadHolds, Answered
<1>7. ListenerReleased'
  BY DEF LoginInv, ListenerReleased, Show
<1>8. QED
  BY <1>2, <1>5, <1>6, <1>7 DEF LoginInv

LEMMA ReleaseWaiterKeeps ==
    ASSUME LoginInv, NEW t \in Tabs, ReleaseWaiter(t)
    PROVE  LoginInv'
<1>1. tab \in [Tabs -> TabStates] /\ attempt \in [Attempts -> AttemptStates]
  BY DEF LoginInv, LoginTypeOK
<1>2. PICK a \in Attempts :
        tab[t].to = a /\ Answered(a) /\ tab[t].at \in {"stored", "shown"}
  BY DEF LoginInv, ThreadHolds, ReleaseWaiter, Releases
<1>3. /\ \A s \in Tabs \ {t} : tab'[s] = tab[s]
      /\ tab'[t].at = "over" /\ tab'[t].of = tab[t].of /\ port' = port
  BY <1>1 DEF ReleaseWaiter, TabStates
<1>4. /\ \A b \in Attempts \ {a} : attempt'[b] = attempt[b]
      /\ attempt'[a] = [attempt[a] EXCEPT !.done = TRUE]
  BY <1>1, <1>2 DEF ReleaseWaiter
<1>5. attempt' \in [Attempts -> AttemptStates]
  <2>1. attempt[a] \in AttemptStates /\ attempt'[a] \in AttemptStates
    BY <1>1, <1>2, <1>4 DEF AttemptStates
  <2>2. attempt' = [attempt EXCEPT ![a] = attempt'[a]]
    BY <1>1, <1>2 DEF ReleaseWaiter
  <2>3. QED
    BY <1>1, <1>2, <2>1, <2>2
<1>6. LoginTypeOK'
  BY <1>1, <1>5 DEF LoginInv, LoginTypeOK, ReleaseWaiter, TabStates
<1>7. \A b \in Attempts, s \in Tabs : Came(s, b) => Came(s, b)'
  BY <1>2, <1>3, CameStays
<1>8. \A b \in Attempts : Answered(b)' <=> Answered(b)
  BY <1>1, <1>2, <1>4 DEF Answered, AttemptStates
<1>9. ASSUME NEW b \in Attempts PROVE OwnResults(b)'
  <2>1. OwnResults(b) /\ attempt[b] \in AttemptStates
    BY <1>1 DEF LoginInv
  <2>2. CASE b = a
    BY <1>2, <1>4, <1>7, <1>8, <2>1, <2>2 DEF OwnResults, AttemptStates
  <2>3. CASE b # a
    BY <1>4, <1>7, <1>8, <2>1, <2>3 DEF OwnResults, AttemptStates
  <2>4. QED
    BY <2>2, <2>3
<1>10. ASSUME NEW s \in Tabs PROVE ThreadHolds(s)'
  BY <1>3, <1>8 DEF LoginInv, ThreadHolds
<1>11. \A b \in Attempts : attempt'[b].at = attempt[b].at
  BY <1>1, <1>2, <1>4 DEF AttemptStates
<1>12. ListenerReleased'
  BY <1>3, <1>11 DEF LoginInv, ListenerReleased
<1>13. QED
  BY <1>6, <1>9, <1>10, <1>12 DEF LoginInv

-----------------------------------------------------------------------------
(* The theorems.                                                           *)

\* LoginInv is inductive: what is stored and taken is the attempt's own, and the
\* port is held by who is inside the listener's with block.
THEOREM LoginInvariant == LoginSpec => []LoginInv
<1>1. LoginInv /\ [LoginNext]_loginVars => LoginInv'
  <2> SUFFICES ASSUME LoginInv, [LoginNext]_loginVars PROVE LoginInv'
    OBVIOUS
  <2>1. CASE UNCHANGED loginVars
    BY <2>1 DEF loginVars, LoginInv, LoginTypeOK, OwnResults, ThreadHolds, Came, Answered,
                ListenerReleased
  <2>2. ASSUME NEW a \in Attempts,
               Bind(a) \/ OpenBrowser(a) \/ Wakes(a) \/ TimeOut(a) \/ Close(a) \/ Exchange(a)
        PROVE  LoginInv'
    BY <2>2, BindKeeps, OpenBrowserKeeps, WakesKeeps, TimeOutKeeps, CloseKeeps, ExchangeKeeps
  <2>3. ASSUME NEW t \in Tabs, NEW a \in Attempts, NEW brings \in {"code", "error"},
               Redirect(t, a, brings)
        PROVE  LoginInv'
    BY <2>3, RedirectKeeps
  <2>4. ASSUME NEW t \in Tabs,
               Accept(t) \/ Store(t) \/ Refuse(t) \/ Show(t) \/ ReleaseWaiter(t)
        PROVE  LoginInv'
    BY <2>4, AcceptKeeps, StoreKeeps, RefuseKeeps, ShowKeeps, ReleaseWaiterKeeps
  <2>5. QED
    BY <2>1, <2>2, <2>3, <2>4 DEF LoginNext
<1>2. QED
  BY <1>1, InitLogin, PTL DEF LoginSpec

\* The variables of the login attempts keep their types.
THEOREM LoginTypes == LoginSpec => []LoginTypeOK
<1>1. LoginInv => LoginTypeOK
  BY DEF LoginInv
<1>2. QED
  BY <1>1, LoginInvariant, PTL

\* The code an attempt exchanges, and the refusal it reports, came with its own
\* state, however many attempts and tabs there are; and it never wakes to nothing.
THEOREM OwnRedirectsOnly == LoginSpec => []OnlyOwnRedirects
<1>1. LoginInv => OnlyOwnRedirects
  BY DEF LoginInv, OwnResults, OnlyOwnRedirects, Came
<1>2. QED
  BY <1>1, LoginInvariant, PTL

\* Every way an attempt can end gives the callback port back.
THEOREM PortGivenBack == LoginSpec => []ListenerReleased
<1>1. LoginInv => ListenerReleased
  BY DEF LoginInv
<1>2. QED
  BY <1>1, LoginInvariant, PTL

-----------------------------------------------------------------------------
(* The portal session.                                                     *)

USE PortalNames

\* A login waits for the curl that runs, and goes on only behind successes.
LoginHolds(l) == login[l].curl = login[l].step /\ login[l].sound

\* What the probe confirmed still holds at the portal and in the jar, or the
\* call is marked; once the upload has left, the jar no longer matters.
UseHolds(u) ==
    /\ use[u].at \in {"confirmed", "probed"} /\ ~use[u].lapsed =>
          use[u].carries \in honoured \ stale /\ use[u].carries = cookies
    /\ use[u].at = "uploading" /\ ~use[u].lapsed => use[u].carries \in honoured \ stale
    /\ use[u].at = "bounced" => use[u].lapsed
    /\ use[u].ended = "burnt" => use[u].at = "done" /\ use[u].lapsed

\* BurntOnlyByRace is not inductive alone: it rests on what was true of the
\* jar and of the portal since the probe.
PortalInv ==
    /\ PortalTypeOK
    /\ \A l \in Logins : LoginHolds(l)
    /\ \A u \in Uses : UseHolds(u)

LEMMA InitPortal == PortalInit => PortalInv
<1> SUFFICES ASSUME PortalInit PROVE PortalInv
  OBVIOUS
<1>1. PortalTypeOK
  BY DEF PortalInit, PortalTypeOK, LoginStates, UseStates, Cookies
<1>2. \A l \in Logins : LoginHolds(l)
  BY DEF PortalInit, LoginHolds
<1>3. \A u \in Uses : UseHolds(u)
  BY DEF PortalInit, UseHolds
<1>4. QED
  BY <1>1, <1>2, <1>3 DEF PortalInv

-----------------------------------------------------------------------------
(* Frames.                                                                 *)

\* What a step that moves no call u means to it: whatever it takes from the jar
\* or from the portal marks those that rely on it.
Marked(u, gone) ==
    IF Relying(u) /\ use[u].carries \in gone THEN [use[u] EXCEPT !.lapsed = TRUE] ELSE use[u]

LEMMA MarkedKeeps ==
    ASSUME PortalInv, NEW u \in Uses, NEW gone,
           use'[u] = Marked(u, gone),
           cookies' = cookies \/ cookies \in gone,
           (honoured \ stale) \ gone \subseteq honoured' \ stale'
    PROVE  UseHolds(u)' /\ use'[u] \in UseStates
<1>1. UseHolds(u) /\ use[u] \in UseStates
  BY DEF PortalInv, PortalTypeOK
<1>2. CASE Relying(u) /\ use[u].carries \in gone
  <2>1. use'[u] = [use[u] EXCEPT !.lapsed = TRUE]
    BY <1>2 DEF Marked
  <2>2. use'[u].lapsed /\ use'[u].at = use[u].at /\ use'[u].ended = use[u].ended
    BY <1>1, <2>1 DEF UseStates
  <2>3. QED
    BY <1>1, <2>1, <2>2 DEF UseHolds, UseStates
<1>3. CASE ~(Relying(u) /\ use[u].carries \in gone)
  <2>1. use'[u] = use[u]
    BY <1>3 DEF Marked
  <2>2. QED
    BY <1>1, <1>3, <2>1 DEF UseHolds, Relying
<1>4. QED
  BY <1>2, <1>3

\* A step that changes neither the calls nor, to their disadvantage, the portal.
LEMMA CallsKeep ==
    ASSUME PortalInv, use' = use, cookies' = cookies, honoured \ stale \subseteq honoured' \ stale'
    PROVE  (\A u \in Uses : UseHolds(u)') /\ use' \in [Uses -> UseStates]
<1>1. \A u \in Uses : UseHolds(u)'
  BY DEF PortalInv, UseHolds
<1>2. QED
  BY <1>1 DEF PortalInv, PortalTypeOK

\* A step of one login.
LEMMA LoginStepKeeps ==
    ASSUME PortalInv, NEW l \in Logins, login' = [login EXCEPT ![l] = login'[l]],
           login'[l] \in LoginStates, login'[l].curl = login'[l].step, login'[l].sound
    PROVE  (\A k \in Logins : LoginHolds(k)') /\ login' \in [Logins -> LoginStates]
<1>1. login \in [Logins -> LoginStates]
  BY DEF PortalInv, PortalTypeOK
<1>2. login' \in [Logins -> LoginStates]
  BY <1>1
<1>3. ASSUME NEW k \in Logins PROVE LoginHolds(k)'
  <2>1. CASE k = l
    BY <2>1 DEF LoginHolds
  <2>2. CASE k # l
    <3>1. login'[k] = login[k]
      BY <1>1, <2>2
    <3>2. QED
      BY <3>1 DEF LoginHolds, PortalInv
  <2>3. QED
    BY <2>1, <2>2
<1>4. QED
  BY <1>2, <1>3

\* A step of one call that marks others.
LEMMA UseStepKeeps ==
    ASSUME PortalInv, NEW u \in Uses, NEW gone,
           \A v \in Uses \ {u} : use'[v] = Marked(v, gone),
           use' \in [Uses -> UseStates], UseHolds(u)',
           cookies' = cookies \/ cookies \in gone,
           (honoured \ stale) \ gone \subseteq honoured' \ stale'
    PROVE  \A v \in Uses : UseHolds(v)'
<1>1. ASSUME NEW v \in Uses PROVE UseHolds(v)'
  <2>1. CASE v = u
    BY <2>1
  <2>2. CASE v # u
    BY <2>2, MarkedKeeps
  <2>3. QED
    BY <2>1, <2>2
<1>2. QED
  BY <1>1

-----------------------------------------------------------------------------
(* The logins' steps.                                                      *)

\* The steps of a login before it installs its session touch no call.
LEMMA ChainKeeps ==
    ASSUME PortalInv, NEW l \in Logins,
           \/ StartLogin(l)
           \/ \E ok \in BOOLEAN : StepEnds(l, ok)
           \/ NotLoggedIn(l)
           \/ LoginStopped(l)
    PROVE  PortalInv'
<1>1. login \in [Logins -> LoginStates] /\ login[l] \in LoginStates /\ LoginHolds(l)
  BY DEF PortalInv, PortalTypeOK
<1>2. UNCHANGED <<cookies, honoured, stale, use>>
  BY DEF StartLogin, StepEnds, NotLoggedIn, LoginStopped, portal
<1>3. /\ login' = [login EXCEPT ![l] = login'[l]] /\ login'[l] \in LoginStates
      /\ login'[l].curl = login'[l].step /\ login'[l].sound
  <2>1. CASE StartLogin(l)
    BY <1>1, <2>1 DEF StartLogin, LoginStates, LoginHolds
  <2>2. ASSUME NEW ok \in BOOLEAN, StepEnds(l, ok)
        PROVE  /\ login' = [login EXCEPT ![l] = login'[l]] /\ login'[l] \in LoginStates
               /\ login'[l].curl = login'[l].step /\ login'[l].sound
    <3>1. CASE ok
      <4> DEFINE on == [login[l] EXCEPT !.step = login[l].step + 1, !.curl = login[l].step + 1,
                                    !.sound = login[l].sound /\ ok]
      <4>8. StepPassed(ok)
        BY <3>1 DEF StepPassed
      <4>9. login' = [login EXCEPT ![l] = on]
        BY <2>2, <4>8, Zenon DEF StepEnds
      <4>1. login'[l] = [login[l] EXCEPT !.step = login[l].step + 1, !.curl = login[l].step + 1,
                                    !.sound = login[l].sound /\ ok]
        BY <1>1, <4>9, Zenon
      <4>2. login[l].step \in {1, 2} /\ login[l].curl = login[l].step /\ login[l].sound
        BY <1>1, <2>2 DEF StepEnds, LoginHolds
      <4>3. login'[l].sound
        BY <1>1, <3>1, <4>1, <4>2 DEF LoginStates
      <4>4. /\ login'[l].step = login[l].step + 1 /\ login'[l].curl = login[l].step + 1
            /\ login'[l].prompts = login[l].prompts /\ login'[l].ended = login[l].ended
        BY <1>1, <4>1 DEF LoginStates
      <4>5. login'[l] \in LoginStates
        <5>1. login'[l] = [step |-> login'[l].step, curl |-> login'[l].curl,
                           sound |-> login'[l].sound, prompts |-> login'[l].prompts,
                           ended |-> login'[l].ended]
          BY <1>1, <4>1 DEF LoginStates
        <5>2. login'[l].step \in 0..3 /\ login'[l].curl \in 0..3
          BY <4>2, <4>4
        <5>3. login'[l].sound = TRUE
          BY <4>3, <1>1, <4>1 DEF LoginStates
        <5>4. QED
          BY <1>1, <4>4, <5>1, <5>2, <5>3 DEF LoginStates
      <4>6. login' = [login EXCEPT ![l] = login'[l]]
        BY <1>1, <2>2 DEF StepEnds
      <4>7. QED
        BY <4>2, <4>3, <4>4, <4>5, <4>6
    <3>2. CASE ~ok
      <4>1. login' = [login EXCEPT ![l] =
                [login[l] EXCEPT !.step = 0, !.curl = 0, !.ended = "failed"]]
        BY <1>1, <2>2, <3>2 DEF StepEnds, StepPassed
      <4>2. login'[l] = [login[l] EXCEPT !.step = 0, !.curl = 0, !.ended = "failed"]
        BY <1>1, <4>1, Zenon
      <4>3. login' = [login EXCEPT ![l] = login'[l]]
        BY <4>1, <4>2, Zenon
      <4>4. login'[l] \in LoginStates
        <5>1. login'[l] = [step |-> 0, curl |-> 0, sound |-> login[l].sound,
                           prompts |-> login[l].prompts, ended |-> "failed"]
          BY <1>1, <4>2 DEF LoginStates
        <5>2. login[l].sound \in BOOLEAN /\ login[l].prompts \in 0..1
          BY <1>1 DEF LoginStates
        <5>3. 0 \in 0..3
          OBVIOUS
        <5>4. QED
          BY <5>1, <5>2, <5>3 DEF LoginStates
      <4>5. login'[l].step = 0 /\ login'[l].curl = 0 /\ login'[l].sound = login[l].sound
        BY <1>1, <4>2 DEF LoginStates
      <4>6. QED
        BY <1>1, <4>3, <4>4, <4>5 DEF LoginHolds
    <3>3. QED
      BY <3>1, <3>2
  <2>3. CASE NotLoggedIn(l)
    BY <1>1, <2>3 DEF NotLoggedIn, LoginStates, LoginHolds
  <2>4. CASE LoginStopped(l)
    BY <1>1, <2>4 DEF LoginStopped, Killed, LoginStates, LoginHolds
  <2>5. QED
    BY <2>1, <2>2, <2>3, <2>4
<1>4. QED
  BY <1>2, <1>3, LoginStepKeeps, CallsKeep DEF PortalInv, PortalTypeOK

LEMMA PromptKeeps ==
    ASSUME PortalInv, NEW l \in Logins, NEW consents \in BOOLEAN, Prompt(l, consents)
    PROVE  PortalInv'
<1>1. login \in [Logins -> LoginStates] /\ login[l] \in LoginStates /\ LoginHolds(l)
  BY DEF PortalInv, PortalTypeOK
<1>2. /\ login' = [login EXCEPT ![l] = login'[l]] /\ login'[l] \in LoginStates
      /\ login'[l].curl = login'[l].step /\ login'[l].sound
  BY <1>1 DEF Prompt, LoginStates, LoginHolds
<1>3. UNCHANGED <<cookies, stale, use>> /\ honoured \subseteq honoured'
      /\ honoured' \subseteq honoured \cup {l}
  BY DEF Prompt
<1>4. QED
  BY <1>2, <1>3, LoginStepKeeps, CallsKeep DEF PortalInv, PortalTypeOK

LEMMA LoggedInKeeps ==
    ASSUME PortalInv, NEW l \in Logins, LoggedIn(l)
    PROVE  PortalInv'
<1>1. login \in [Logins -> LoginStates] /\ login[l] \in LoginStates /\ LoginHolds(l)
  BY DEF PortalInv, PortalTypeOK
<1>2. /\ login' = [login EXCEPT ![l] = login'[l]] /\ login'[l] \in LoginStates
      /\ login'[l].curl = login'[l].step /\ login'[l].sound
  BY <1>1 DEF LoggedIn, LoginStates, LoginHolds
<1>3. UNCHANGED <<honoured, stale>> /\ cookies' = l
  BY DEF LoggedIn, portal
<1>4. ASSUME NEW u \in Uses PROVE use'[u] = Marked(u, {cookies})
  BY DEF LoggedIn, Lapse, Marked
<1>5. \A u \in Uses : UseHolds(u)' /\ use'[u] \in UseStates
  BY <1>3, <1>4, MarkedKeeps
<1>6. use' \in [Uses -> UseStates]
  BY <1>5 DEF LoggedIn, Lapse
<1>7. QED
  BY <1>2, <1>3, <1>5, <1>6, LoginStepKeeps DEF PortalInv, PortalTypeOK, Cookies

LEMMA LapsesKeeps ==
    ASSUME PortalInv, NEW l \in Logins, Lapses(l)
    PROVE  PortalInv'
<1>1. UNCHANGED <<cookies, login>>
  BY DEF Lapses
<1>2. /\ (honoured \ stale) \ {l} \subseteq honoured' \ stale'
      /\ honoured' \subseteq Logins /\ stale' \subseteq honoured'
  BY DEF Lapses, PortalInv, PortalTypeOK
<1>3. ASSUME NEW u \in Uses PROVE use'[u] = Marked(u, {l})
  BY DEF Lapses, Lapse, Marked
<1>4. \A u \in Uses : UseHolds(u)' /\ use'[u] \in UseStates
  BY <1>1, <1>2, <1>3, MarkedKeeps
<1>5. use' \in [Uses -> UseStates]
  BY <1>4 DEF Lapses, Lapse
<1>6. \A k \in Logins : LoginHolds(k)'
  BY <1>1 DEF PortalInv, LoginHolds
<1>7. QED
  BY <1>1, <1>2, <1>4, <1>5, <1>6 DEF PortalInv, PortalTypeOK

-----------------------------------------------------------------------------
(* The calls' steps.                                                       *)

\* The steps of a call that leave the jar alone and lapse nothing.
QuietStep(u) ==
    \/ \E submit \in BOOLEAN : Probe(u, submit)
    \/ Confirm(u) \/ FormArrives(u) \/ ProbeLost(u) \/ Redeem(u)
    \/ Judge(u) \/ VerdictArrives(u) \/ UploadFails(u)

LEMMA QuietStepMoves ==
    ASSUME PortalInv, NEW u \in Uses, QuietStep(u)
    PROVE  /\ use' = [use EXCEPT ![u] = use'[u]]
           /\ use'[u] \in UseStates
           /\ UseHolds(u)'
           /\ UNCHANGED <<cookies, honoured, login>>
           /\ stale' \subseteq stale
<1>1. use \in [Uses -> UseStates] /\ use[u] \in UseStates /\ UseHolds(u) /\ cookies \in Cookies
  BY DEF PortalInv, PortalTypeOK
<1>2. UNCHANGED <<cookies, honoured, login>> /\ stale' \subseteq stale
  BY DEF QuietStep, Probe, Confirm, FormArrives, ProbeLost, Redeem, Judge, VerdictArrives,
         UploadFails, portal
<1>3. use' = [use EXCEPT ![u] = use'[u]]
  BY <1>1 DEF QuietStep, Probe, Confirm, FormArrives, ProbeLost, Redeem, Judge,
              VerdictArrives, UploadFails
<1>4. use'[u] \in UseStates /\ UseHolds(u)'
  <2>1. CASE \E submit \in BOOLEAN : Probe(u, submit)
    <3>1. PICK submit \in BOOLEAN : Probe(u, submit)
      BY <2>1
    <3>2. CASE cookies = Empty
      <4>1. use'[u] = [use[u] EXCEPT !.at = "done", !.submit = submit, !.ended = "inactive"]
        BY <1>1, <3>1, <3>2 DEF Probe
      <4>2. QED
        BY <1>1, <4>1 DEF UseStates, UseHolds
    <3>3. CASE cookies # Empty
      <4>1. use'[u] = [use[u] EXCEPT !.at = "probing", !.submit = submit, !.carries = cookies]
        BY <1>1, <3>1, <3>3 DEF Probe
      <4>2. use[u].at = "idle"
        BY <3>1 DEF Probe
      <4>3. QED
        BY <1>1, <4>1, <4>2 DEF UseStates, UseHolds
    <3>4. QED
      BY <3>2, <3>3
  <2>2. CASE Confirm(u)
    <3>1. use'[u] = [use[u] EXCEPT !.at = "confirmed", !.lapsed = cookies # use[u].carries]
      BY <1>1, <2>2 DEF Confirm
    <3>2. /\ use[u].at = "probing" /\ use[u].carries \in honoured
          /\ stale' = stale \ {use[u].carries} /\ honoured' = honoured /\ cookies' = cookies
      BY <2>2 DEF Confirm
    <3>3. /\ use'[u].at = "confirmed" /\ use'[u].carries = use[u].carries
          /\ use'[u].lapsed = (cookies # use[u].carries) /\ use'[u].ended = use[u].ended
      BY <1>1, <3>1 DEF UseStates
    <3>4. use'[u] \in UseStates
      BY <1>1, <3>1 DEF UseStates
    <3>5. QED
      BY <1>1, <3>2, <3>3, <3>4 DEF UseHolds
  <2>3. CASE FormArrives(u)
    <3>1. use'[u] \in {[use[u] EXCEPT !.at = "probed"],
                       [use[u] EXCEPT !.at = "done", !.ended = "active"]}
      BY <1>1, <2>3 DEF FormArrives, Verdict, IsActive
    <3>2. use[u].at = "confirmed" /\ UNCHANGED <<cookies, honoured, stale>>
      BY <2>3 DEF FormArrives, portal
    <3>3. CASE use'[u] = [use[u] EXCEPT !.at = "probed"]
      BY <1>1, <3>2, <3>3 DEF UseStates, UseHolds
    <3>4. CASE use'[u] = [use[u] EXCEPT !.at = "done", !.ended = "active"]
      BY <1>1, <3>4 DEF UseStates, UseHolds
    <3>5. QED
      BY <3>1, <3>3, <3>4
  <2>4. CASE ProbeLost(u)
    <3>1. use'[u] = [use[u] EXCEPT !.at = "done", !.ended = "unreachable"]
      BY <1>1, <2>4 DEF ProbeLost
    <3>2. QED
      BY <1>1, <3>1 DEF UseStates, UseHolds
  <2>5. CASE Redeem(u)
    <3>1. use'[u] = [use[u] EXCEPT !.at = "uploading", !.spent = TRUE, !.carries = cookies]
      BY <1>1, <2>5 DEF Redeem
    <3>2. use[u].at = "probed" /\ UNCHANGED <<cookies, honoured, stale>>
      BY <2>5 DEF Redeem, portal
    <3>3. /\ use'[u] \in UseStates /\ use'[u].at = "uploading" /\ use'[u].carries = cookies
          /\ use'[u].lapsed = use[u].lapsed /\ use'[u].ended = use[u].ended
      BY <1>1, <3>1 DEF UseStates
    <3>4. use[u].lapsed \in BOOLEAN
      BY <1>1 DEF UseStates
    <3>5. QED
      BY <1>1, <3>2, <3>3, <3>4 DEF UseHolds
  <2>6. CASE Judge(u)
    <3>1. use[u].at = "uploading" /\ UNCHANGED <<cookies, honoured, stale>>
      BY <2>6 DEF Judge, portal
    <3>2. \/ use'[u] = [use[u] EXCEPT !.at = "judged"]
          \/ use[u].carries \notin honoured \ stale /\ use'[u] = [use[u] EXCEPT !.at = "bounced"]
      BY <1>1, <2>6 DEF Judge
    <3>3. use'[u].at = "bounced" => use[u].lapsed
      BY <1>1, <3>1, <3>2 DEF UseStates, UseHolds
    <3>4. /\ use'[u] \in UseStates /\ use'[u].at \in {"judged", "bounced"}
          /\ use'[u].lapsed = use[u].lapsed /\ use'[u].ended = use[u].ended
      BY <1>1, <3>2 DEF UseStates
    <3>5. QED
      BY <1>1, <3>1, <3>3, <3>4 DEF UseHolds
  <2>7. CASE VerdictArrives(u)
    <3>1. use'[u] = [use[u] EXCEPT !.at = "done", !.ended = "answered"]
      BY <1>1, <2>7 DEF VerdictArrives
    <3>2. QED
      BY <1>1, <3>1 DEF UseStates, UseHolds
  <2>8. CASE UploadFails(u)
    <3>1. use'[u] = [use[u] EXCEPT !.at = "done", !.ended = "unknown"]
      BY <1>1, <2>8 DEF UploadFails
    <3>2. QED
      BY <1>1, <3>1 DEF UseStates, UseHolds
  <2>9. QED
    BY <2>1, <2>2, <2>3, <2>4, <2>5, <2>6, <2>7, <2>8 DEF QuietStep
<1>5. QED
  BY <1>2, <1>3, <1>4

LEMMA QuietStepKeeps ==
    ASSUME PortalInv, NEW u \in Uses, QuietStep(u)
    PROVE  PortalInv'
<1>1. /\ use' = [use EXCEPT ![u] = use'[u]] /\ use'[u] \in UseStates /\ UseHolds(u)'
      /\ UNCHANGED <<cookies, honoured, login>> /\ stale' \subseteq stale
  BY QuietStepMoves
<1>2. use \in [Uses -> UseStates]
  BY DEF PortalInv, PortalTypeOK
<1>3. use' \in [Uses -> UseStates]
  BY <1>1, <1>2
<1>4. \A v \in Uses \ {u} : use'[v] = Marked(v, {})
  BY <1>1, <1>2 DEF Marked
<1>5. \A v \in Uses : UseHolds(v)'
  BY <1>1, <1>3, <1>4, UseStepKeeps
<1>6. \A l \in Logins : LoginHolds(l)'
  BY <1>1 DEF PortalInv, LoginHolds
<1>7. PortalTypeOK'
  BY <1>1, <1>3 DEF PortalInv, PortalTypeOK
<1>8. QED
  BY <1>5, <1>6, <1>7 DEF PortalInv

LEMMA LogonPageKeeps ==
    ASSUME PortalInv, NEW u \in Uses, LogonPage(u)
    PROVE  PortalInv'
<1>1. use \in [Uses -> UseStates] /\ use[u] \in UseStates /\ UseHolds(u)
  BY DEF PortalInv, PortalTypeOK
<1>2. cookies' = Guest /\ UNCHANGED <<honoured, stale, login>>
  BY DEF LogonPage, portal
<1>3. \A v \in Uses \ {u} : use'[v] = Marked(v, {cookies})
  BY DEF LogonPage, Lapse, Marked
<1>4. use'[u] = [use[u] EXCEPT !.at = "done", !.ended = "inactive"]
  BY DEF LogonPage, Lapse, Verdict, IsActive
<1>5. use'[u] \in UseStates /\ UseHolds(u)'
  BY <1>1, <1>4 DEF UseStates, UseHolds
<1>6. \A v \in Uses : use'[v] \in UseStates
  <2> SUFFICES ASSUME NEW v \in Uses PROVE use'[v] \in UseStates
    OBVIOUS
  <2>1. CASE v = u
    BY <1>5, <2>1
  <2>2. CASE v # u
    BY <1>2, <1>3, <2>2, MarkedKeeps
  <2>3. QED
    BY <2>1, <2>2
<1>7. use' \in [Uses -> UseStates]
  BY <1>6 DEF LogonPage, Lapse
<1>8. \A v \in Uses : UseHolds(v)'
  BY <1>2, <1>3, <1>5, <1>7, UseStepKeeps
<1>9. \A l \in Logins : LoginHolds(l)'
  BY <1>2 DEF PortalInv, LoginHolds
<1>10. PortalTypeOK'
  BY <1>2, <1>7 DEF PortalInv, PortalTypeOK, Cookies
<1>11. QED
  BY <1>8, <1>9, <1>10 DEF PortalInv

LEMMA BounceArrivesKeeps ==
    ASSUME PortalInv, NEW u \in Uses, BounceArrives(u)
    PROVE  PortalInv'
<1>1. use \in [Uses -> UseStates] /\ use[u] \in UseStates /\ UseHolds(u) /\ cookies \in Cookies
  BY DEF PortalInv, PortalTypeOK
<1> DEFINE gone == {cookies} \ {cookies'}
<1>2. cookies' \in {cookies, Guest} /\ UNCHANGED <<honoured, stale, login>>
  BY DEF BounceArrives, portal
<1>3. \A v \in Uses \ {u} : use'[v] = Marked(v, gone)
  BY DEF BounceArrives, Lapse, Marked
<1>4. use'[u] = [use[u] EXCEPT !.at = "done", !.ended = "burnt"] /\ use[u].at = "bounced"
  BY DEF BounceArrives, Lapse
<1>5. use'[u] \in UseStates /\ UseHolds(u)'
  BY <1>1, <1>4 DEF UseStates, UseHolds
<1>6. cookies' = cookies \/ cookies \in gone
  BY <1>2
<1> HIDE DEF gone
<1>7. \A v \in Uses : use'[v] \in UseStates
  <2> SUFFICES ASSUME NEW v \in Uses PROVE use'[v] \in UseStates
    OBVIOUS
  <2>1. CASE v = u
    BY <1>5, <2>1
  <2>2. CASE v # u
    BY <1>2, <1>3, <1>6, <2>2, MarkedKeeps
  <2>3. QED
    BY <2>1, <2>2
<1>8. use' \in [Uses -> UseStates]
  BY <1>7 DEF BounceArrives, Lapse
<1>9. \A v \in Uses : UseHolds(v)'
  BY <1>2, <1>3, <1>5, <1>6, <1>8, UseStepKeeps
<1>10. \A l \in Logins : LoginHolds(l)'
  BY <1>2 DEF PortalInv, LoginHolds
<1>11. PortalTypeOK'
  BY <1>1, <1>2, <1>8 DEF PortalInv, PortalTypeOK, Cookies
<1>12. QED
  BY <1>9, <1>10, <1>11 DEF PortalInv

-----------------------------------------------------------------------------
(* The theorems.                                                           *)

\* PortalInv is inductive: what every login waits for, and what every call may
\* still rely on.
THEOREM PortalInvariant == PortalSpec => []PortalInv
<1>1. PortalInv /\ [PortalNext]_portalVars => PortalInv'
  <2> SUFFICES ASSUME PortalInv, [PortalNext]_portalVars PROVE PortalInv'
    OBVIOUS
  <2>1. CASE UNCHANGED portalVars
    BY <2>1 DEF portalVars, PortalInv, PortalTypeOK, LoginHolds, UseHolds
  <2>2. ASSUME NEW l \in Logins,
               \/ StartLogin(l) \/ \E ok \in BOOLEAN : StepEnds(l, ok)
               \/ NotLoggedIn(l) \/ LoginStopped(l)
        PROVE  PortalInv'
    BY <2>2, ChainKeeps
  <2>3. ASSUME NEW l \in Logins, NEW consents \in BOOLEAN, Prompt(l, consents)
        PROVE  PortalInv'
    BY <2>3, PromptKeeps
  <2>4. ASSUME NEW l \in Logins, LoggedIn(l) \/ Lapses(l) PROVE PortalInv'
    BY <2>4, LoggedInKeeps, LapsesKeeps
  <2>5. ASSUME NEW u \in Uses, QuietStep(u) PROVE PortalInv'
    BY <2>5, QuietStepKeeps
  <2>6. ASSUME NEW u \in Uses, LogonPage(u) \/ BounceArrives(u) PROVE PortalInv'
    BY <2>6, LogonPageKeeps, BounceArrivesKeeps
  <2>7. QED
    BY <2>1, <2>2, <2>3, <2>4, <2>5, <2>6 DEF PortalNext, QuietStep
<1>2. QED
  BY <1>1, InitPortal, PTL DEF PortalSpec

\* The portal session's variables keep their types.
THEOREM PortalTypes == PortalSpec => []PortalTypeOK
<1>1. PortalInv => PortalTypeOK
  BY DEF PortalInv
<1>2. QED
  BY <1>1, PortalInvariant, PTL

\* However many tool calls share the jar: an approval is lost to a bounced upload
\* only when something happened to the session between the probe and the upload.
THEOREM OnlyRacesBurn == PortalSpec => []BurntOnlyByRace
<1>1. PortalInv => BurntOnlyByRace
  BY DEF PortalInv, UseHolds, BurntOnlyByRace
<1>2. QED
  BY <1>1, PortalInvariant, PTL

\* Only Prompt asks the user.
LEMMA PromptsAsk ==
    ASSUME PortalInv, PortalNext, NEW l \in Logins, login'[l].prompts # login[l].prompts
    PROVE  login[l].curl = 3
<1>1. login \in [Logins -> LoginStates]
  BY DEF PortalInv, PortalTypeOK
<1>2. CASE login' = login
  BY <1>2
<1>3. ASSUME NEW k \in Logins,
             \/ StartLogin(k) \/ \E ok \in BOOLEAN : StepEnds(k, ok)
             \/ LoggedIn(k) \/ NotLoggedIn(k) \/ LoginStopped(k)
      PROVE  login'[l].prompts = login[l].prompts
  <2>1. CASE k = l
    <3>1. PICK r : /\ login' = [login EXCEPT ![l] = r] /\ r.prompts = login[l].prompts
      <4>1. CASE StartLogin(l)
        BY <1>1, <4>1 DEF StartLogin, LoginStates
      <4>2. ASSUME NEW ok \in BOOLEAN, StepEnds(l, ok)
            PROVE  \E r : login' = [login EXCEPT ![l] = r] /\ r.prompts = login[l].prompts
        <5> DEFINE on == [login[l] EXCEPT !.step = login[l].step + 1, !.curl = login[l].step + 1,
                                    !.sound = login[l].sound /\ ok]
                   off == [login[l] EXCEPT !.step = 0, !.curl = 0, !.ended = "failed"]
        <5>1. login' = [login EXCEPT ![l] = on] \/ login' = [login EXCEPT ![l] = off]
          BY <4>2, Zenon DEF StepEnds
        <5>2. on.prompts = login[l].prompts /\ off.prompts = login[l].prompts
          BY <1>1 DEF LoginStates
        <5> HIDE DEF on, off
        <5>3. QED
          BY <5>1, <5>2
      <4>3. CASE LoggedIn(l)
        BY <1>1, <4>3 DEF LoggedIn, LoginStates
      <4>4. CASE NotLoggedIn(l)
        BY <1>1, <4>4 DEF NotLoggedIn, LoginStates
      <4>5. CASE LoginStopped(l)
        BY <1>1, <4>5 DEF LoginStopped, LoginStates
      <4>6. QED
        BY <1>3, <2>1, <4>1, <4>2, <4>3, <4>4, <4>5
    <3>2. QED
      BY <1>1, <3>1
  <2>2. CASE k # l
    BY <1>1, <1>3, <2>2 DEF StartLogin, StepEnds, LoggedIn, NotLoggedIn, LoginStopped
  <2>3. QED
    BY <2>1, <2>2
<1>4. ASSUME NEW k \in Logins, NEW consents \in BOOLEAN, Prompt(k, consents)
      PROVE  login[l].curl = 3
  <2>1. CASE k = l
    BY <1>4, <2>1 DEF Prompt
  <2>2. CASE k # l
    BY <1>1, <1>4, <2>2 DEF Prompt
  <2>3. QED
    BY <2>1, <2>2
<1>5. ASSUME NEW k \in Logins, Lapses(k) PROVE login' = login
  BY <1>5 DEF Lapses
<1>6. ASSUME NEW u \in Uses, QuietStep(u) \/ LogonPage(u) \/ BounceArrives(u)
      PROVE  login' = login
  BY <1>6, QuietStepMoves DEF LogonPage, BounceArrives
<1>7. QED
  BY <1>2, <1>3, <1>4, <1>5, <1>6 DEF PortalNext, QuietStep

\* The certificate prompt fires only for a call that waits for it, behind steps
\* that all succeeded.
THEOREM NoPromptAstray == PortalSpec => NoStrayPrompt
<1>1. PortalInv /\ [PortalNext]_portalVars =>
        [\A l \in Logins : login'[l].prompts # login[l].prompts =>
            login[l].step = 3 /\ login[l].sound]_portalVars
  BY PromptsAsk DEF PortalInv, LoginHolds
<1>2. QED
  BY <1>1, PortalInvariant, PTL DEF PortalSpec, NoStrayPrompt

-----------------------------------------------------------------------------
(* The duplicate guard.                                                    *)

USE ReportBounds, NoneIsNoEntry, SomeParams

\* The type invariant, apart from what the calls hold.
AskTypes == ask \in [Calls -> Asks]

\* A filing is of a call that was sent, with its parameters, and not before it
\* was asked for.
FilingHolds(f) ==
    /\ ask[f.by].at \in {"sent", "answered", "failed"}
    /\ f.params = ask[f.by].params
    /\ ask[f.by].asked <= f.day /\ f.day <= today

\* An entry of the log names a filing of its day or of a later one.
EntryHolds(k) ==
    requests[k] # None =>
        /\ requests[k].day <= today
        /\ \E f \in filed : /\ f.by = requests[k].id /\ f.params = k
                            /\ requests[k].day <= f.day /\ f.day <= today

\* Nothing was asked in a later start of the server or on a later day.
AskedBefore(c) == ask[c].boot <= boot /\ ask[c].asked <= today

\* Two calls that are under way at once with the same parameters have met.
Meet(c, d) ==
    UnderWay(c) /\ UnderWay(d) /\ c # d /\ ask[c].params = ask[d].params => ask[c].met

\* This server got an answer, and no other call was under way meanwhile.
Alone(d) == ask[d].at = "answered" /\ ask[d].boot = boot /\ ~ask[d].met

\* What such a call logged is not forgotten for an older day's, not even by a
\* call that is still under way.
Remembered(d) ==
    Alone(d) =>
        /\ requests[ask[d].params] # None
        /\ ask[d].asked <= requests[ask[d].params].day
        /\ \A e \in Calls : UnderWay(e) /\ ask[e].params = ask[d].params
                                => ask[d].asked <= ask[e].asked

\* Neither property is inductive alone: the days of the log, of the filings and of
\* the calls have to be related, and what was logged has to be remembered.
ReportInv ==
    /\ ReportTypeOK
    /\ \A f \in filed : FilingHolds(f)
    /\ \A k \in Params : EntryHolds(k)
    /\ \A c \in Calls : AskedBefore(c)
    /\ \A c, d \in Calls : Meet(c, d)
    /\ \A d \in Calls : Remembered(d)
    /\ ReusedWasFiledToday

LEMMA InitReport == ReportInit => ReportInv
<1> SUFFICES ASSUME ReportInit PROVE ReportInv
  OBVIOUS
<1>1. 1 \in LogDays /\ 1 \in Boots
  BY DEF LogDays, Boots
<1>2. ReportTypeOK
  <2>1. (CHOOSE k \in Params : TRUE) \in Params
    OBVIOUS
  <2>2. ask \in [Calls -> Asks]
    BY <1>1, <2>1 DEF ReportInit, Asks
  <2>3. QED
    BY <1>1, <2>2 DEF ReportInit, ReportTypeOK
<1>3. /\ \A f \in filed : FilingHolds(f)
      /\ \A k \in Params : EntryHolds(k)
  BY DEF ReportInit, EntryHolds
<1>4. /\ \A c \in Calls : AskedBefore(c) /\ Remembered(c)
      /\ \A c, d \in Calls : Meet(c, d)
  BY DEF ReportInit, AskedBefore, Remembered, Alone, Meet, UnderWay
<1>5. ReusedWasFiledToday
  BY DEF ReportInit, ReusedWasFiledToday
<1>6. QED
  BY <1>2, <1>3, <1>4, <1>5 DEF ReportInv

\* What the types say of the numbers and the records.
LEMMA ReportFacts ==
    ASSUME ReportInv
    PROVE  /\ today \in Nat /\ boot \in Nat
           /\ \A c \in Calls : /\ ask[c] \in Asks /\ ask[c].params \in Params
                               /\ ask[c].asked \in Nat /\ ask[c].boot \in Nat
           /\ \A k \in Params : requests[k] # None =>
                 requests[k] \in Entry /\ requests[k].day \in Nat /\ requests[k].id \in Calls
           /\ \A f \in filed : f.by \in Calls /\ f.params \in Params /\ f.day \in Nat
<1>1. ReportTypeOK
  BY DEF ReportInv
<1>2. today \in Nat /\ boot \in Nat
  BY <1>1 DEF ReportTypeOK, LogDays, Boots
<1>3. ASSUME NEW c \in Calls
      PROVE  /\ ask[c] \in Asks /\ ask[c].params \in Params
             /\ ask[c].asked \in Nat /\ ask[c].boot \in Nat
  BY <1>1 DEF ReportTypeOK, Asks, LogDays, Boots
<1>4. ASSUME NEW k \in Params, requests[k] # None
      PROVE  requests[k] \in Entry /\ requests[k].day \in Nat /\ requests[k].id \in Calls
  <2>1. requests[k] \in Entry
    BY <1>1, <1>4 DEF ReportTypeOK
  <2>2. QED
    BY <2>1 DEF Entry, LogDays
<1>5. ASSUME NEW f \in filed PROVE f.by \in Calls /\ f.params \in Params /\ f.day \in Nat
  BY <1>1 DEF ReportTypeOK, Filing, LogDays
<1>6. QED
  BY <1>2, <1>3, <1>4, <1>5

-----------------------------------------------------------------------------
(* The calls' steps.                                                       *)

LEMMA ReuseKeeps ==
    ASSUME ReportInv, NEW c \in Calls, NEW k \in Params, Reuse(c, k)
    PROVE  ReportInv'
<1>1. ask \in [Calls -> Asks] /\ today \in LogDays /\ ReportTypeOK
  BY DEF ReportInv, ReportTypeOK
<1>2. /\ requests[k] # None /\ requests[k].day = today /\ ask[c].at = "unused"
      /\ UNCHANGED <<today, boot, requests, filed>>
  BY DEF Reuse, Logged
<1>3. /\ \A d \in Calls \ {c} : ask'[d] = ask[d]
      /\ ask'[c] = [ask[c] EXCEPT !.at = "reused", !.params = k, !.asked = today,
                                  !.reuse = requests[k].id]
  BY <1>1 DEF Reuse
<1>4. requests[k].id \in Calls
  BY <1>2, ReportFacts
<1>5. ask'[c] \in Asks
  <2>1. ask'[c] = [at |-> "reused", params |-> k, force |-> ask[c].force, asked |-> today,
                   boot |-> ask[c].boot, reuse |-> requests[k].id, met |-> ask[c].met]
    <3>1. ask[c] \in Asks
      BY <1>1
    <3>2. ask[c] = [at |-> ask[c].at, params |-> ask[c].params, force |-> ask[c].force,
                    asked |-> ask[c].asked, boot |-> ask[c].boot, reuse |-> ask[c].reuse,
                    met |-> ask[c].met]
      BY <3>1 DEF Asks
    <3>3. QED
      BY <1>3, <3>2
  <2>2. ask[c].force \in BOOLEAN /\ ask[c].boot \in Boots /\ ask[c].met \in BOOLEAN
    BY <1>1 DEF Asks
  <2>3. QED
    BY <1>1, <1>4, <2>1, <2>2 DEF Asks
<1>6. /\ ask'[c].at = "reused" /\ ask'[c].params = k /\ ask'[c].asked = today
      /\ ask'[c].reuse = requests[k].id /\ ask'[c].boot = ask[c].boot
  BY <1>1, <1>3 DEF Asks
<1>7. ReportTypeOK'
  <2>1. ask' \in [Calls -> Asks]
    BY <1>1, <1>5 DEF Reuse
  <2>2. QED
    BY <1>1, <1>2, <2>1 DEF ReportTypeOK
<1>8. ASSUME NEW f \in filed' PROVE FilingHolds(f)'
  <2>1. f \in filed /\ FilingHolds(f) /\ f.by \in Calls /\ f.by # c
    BY <1>2, ReportFacts DEF ReportInv, FilingHolds
  <2>2. QED
    BY <1>2, <1>3, <2>1 DEF FilingHolds
<1>9. \A j \in Params : EntryHolds(j)'
  BY <1>2 DEF ReportInv, EntryHolds
<1>10. ASSUME NEW d \in Calls PROVE AskedBefore(d)'
  <2>1. CASE d = c
    BY <1>2, <1>6, <2>1, ReportFacts DEF ReportInv, AskedBefore
  <2>2. CASE d # c
    BY <1>2, <1>3, <2>2 DEF ReportInv, AskedBefore
  <2>3. QED
    BY <2>1, <2>2
<1>11. ASSUME NEW d \in Calls, NEW e \in Calls PROVE Meet(d, e)'
  <2>1. CASE d = c \/ e = c
    BY <1>6, <2>1 DEF Meet, UnderWay
  <2>2. CASE d # c /\ e # c
    BY <1>3, <2>2 DEF ReportInv, Meet, UnderWay
  <2>3. QED
    BY <2>1, <2>2
<1>12. ASSUME NEW d \in Calls PROVE Remembered(d)'
  <2>1. CASE d = c
    BY <1>6, <2>1 DEF Remembered, Alone
  <2>2. CASE d # c
    <3>1. ask'[d] = ask[d] /\ Remembered(d)
      BY <1>3, <2>2 DEF ReportInv
    <3>2. \A e \in Calls : UnderWay(e)' => UnderWay(e) /\ ask'[e] = ask[e]
      BY <1>3, <1>6 DEF UnderWay
    <3>3. QED
      BY <1>2, <3>1, <3>2 DEF Remembered, Alone
  <2>3. QED
    BY <2>1, <2>2
<1>13. ASSUME NEW d \in Calls, ask'[d].at = "reused"
       PROVE  [by |-> ask'[d].reuse, params |-> ask'[d].params, day |-> ask'[d].asked] \in filed'
  <2>1. CASE d = c
    <3>1. PICK f \in filed : /\ f.by = requests[k].id /\ f.params = k
                             /\ requests[k].day <= f.day /\ f.day <= today
      BY <1>2 DEF ReportInv, EntryHolds
    <3>2. f.day = today
      BY <1>2, <3>1, ReportFacts
    <3>3. f = [by |-> requests[k].id, params |-> k, day |-> today]
      BY <1>1, <3>1, <3>2 DEF ReportTypeOK, Filing
    <3>4. QED
      BY <1>2, <1>6, <2>1, <3>3
  <2>2. CASE d # c
    BY <1>2, <1>3, <1>13, <2>2 DEF ReportInv, ReusedWasFiledToday
  <2>3. QED
    BY <2>1, <2>2
<1>14. ReusedWasFiledToday'
  BY <1>13 DEF ReusedWasFiledToday
<1>15. QED
  BY <1>7, <1>8, <1>9, <1>10, <1>11, <1>12, <1>14 DEF ReportInv

LEMMA RequestKeeps ==
    ASSUME ReportInv, NEW c \in Calls, NEW k \in Params, NEW force \in BOOLEAN,
           Request(c, k, force)
    PROVE  ReportInv'
<1>1. ask \in [Calls -> Asks] /\ today \in LogDays /\ boot \in Boots /\ ReportTypeOK
  BY DEF ReportInv, ReportTypeOK
<1>2. ask[c].at = "unused" /\ UNCHANGED <<today, boot, requests, filed>>
  BY DEF Request
<1> DEFINE others == {d \in Calls : UnderWay(d) /\ ask[d].params = k}
           sent == [ask[c] EXCEPT !.at = "sent", !.params = k, !.force = force,
                                  !.asked = today, !.boot = boot, !.met = others # {}]
           met(d) == [ask[d] EXCEPT !.met = ask[d].met \/ d \in others]
<1>3. ask' = [d \in Calls |-> IF d = c THEN sent ELSE met(d)]
  BY DEF Request
<1>4. /\ ask'[c] \in Asks /\ ask'[c].at = "sent" /\ ask'[c].params = k
      /\ ask'[c].asked = today /\ ask'[c].boot = boot /\ ask'[c].met = (others # {})
  <2>1. ask'[c] = sent
    BY <1>3
  <2> HIDE DEF others
  <2>2. PICK m \in BOOLEAN : m = (others # {})
    OBVIOUS
  <2>3. sent = [ask[c] EXCEPT !.at = "sent", !.params = k, !.force = force,
                              !.asked = today, !.boot = boot, !.met = m]
    BY <2>2
  <2>4. ask[c] \in Asks
    BY <1>1
  <2> HIDE DEF sent
  <2>5. /\ sent \in Asks /\ sent.at = "sent" /\ sent.params = k
        /\ sent.asked = today /\ sent.boot = boot /\ sent.met = m
    BY <1>1, <2>3, <2>4 DEF Asks
  <2>6. QED
    BY <2>1, <2>2, <2>5
<1>5. ASSUME NEW d \in Calls, d # c
      PROVE  /\ ask'[d] \in Asks /\ ask'[d].at = ask[d].at /\ ask'[d].params = ask[d].params
             /\ ask'[d].asked = ask[d].asked /\ ask'[d].boot = ask[d].boot
             /\ ask'[d].reuse = ask[d].reuse
             /\ ask'[d].met = (ask[d].met \/ d \in others)
  <2>1. ask'[d] = met(d)
    BY <1>3, <1>5
  <2> HIDE DEF others
  <2>2. (ask[d].met \/ d \in others) \in BOOLEAN
    OBVIOUS
  <2>3. met(d) = [at |-> ask[d].at, params |-> ask[d].params, force |-> ask[d].force,
                  asked |-> ask[d].asked, boot |-> ask[d].boot, reuse |-> ask[d].reuse,
                  met |-> (ask[d].met \/ d \in others)]
    BY <1>1 DEF Asks
  <2>4. /\ ask[d].at \in {"unused", "sent", "answered", "reused", "failed"}
        /\ ask[d].params \in Params /\ ask[d].force \in BOOLEAN
        /\ ask[d].asked \in LogDays /\ ask[d].boot \in Boots /\ ask[d].reuse \in Calls
    BY <1>1 DEF Asks
  <2> HIDE DEF met
  <2>5. met(d) \in Asks
    BY <2>2, <2>3, <2>4 DEF Asks
  <2>6. QED
    BY <2>1, <2>3, <2>5
<1>6. ReportTypeOK'
  <2>1. \A d \in Calls : ask'[d] \in Asks
    BY <1>4, <1>5
  <2>2. ask' \in [Calls -> Asks]
    BY <1>3, <2>1
  <2>3. QED
    BY <1>1, <1>2, <2>2 DEF ReportTypeOK
<1>7. ASSUME NEW f \in filed' PROVE FilingHolds(f)'
  <2>1. f \in filed /\ FilingHolds(f) /\ f.by \in Calls /\ f.by # c
    BY <1>2, ReportFacts DEF ReportInv, FilingHolds
  <2>2. QED
    BY <1>2, <1>5, <2>1 DEF FilingHolds
<1>8. \A j \in Params : EntryHolds(j)'
  BY <1>2 DEF ReportInv, EntryHolds
<1>9. ASSUME NEW d \in Calls PROVE AskedBefore(d)'
  <2>1. CASE d = c
    BY <1>2, <1>4, <2>1, ReportFacts DEF AskedBefore
  <2>2. CASE d # c
    BY <1>2, <1>5, <2>2 DEF ReportInv, AskedBefore
  <2>3. QED
    BY <2>1, <2>2
<1>10. ASSUME NEW d \in Calls, NEW e \in Calls PROVE Meet(d, e)'
  <2> SUFFICES ASSUME UnderWay(d)', UnderWay(e)', d # e, ask'[d].params = ask'[e].params
               PROVE  ask'[d].met
    BY DEF Meet
  <2>1. CASE d = c
    <3>1. e \in others
      BY <1>4, <1>5, <2>1 DEF UnderWay
    <3>2. QED
      BY <1>4, <2>1, <3>1
  <2>2. CASE d # c /\ e = c
    <3>1. d \in others
      BY <1>4, <1>5, <2>2 DEF UnderWay
    <3>2. QED
      BY <1>5, <2>2, <3>1
  <2>3. CASE d # c /\ e # c
    <3>1. UnderWay(d) /\ UnderWay(e) /\ ask[d].params = ask[e].params
      BY <1>5, <2>3 DEF UnderWay
    <3>2. ask[d].met
      BY <3>1 DEF ReportInv, Meet
    <3>3. QED
      BY <1>5, <2>3, <3>2
  <2>4. QED
    BY <2>1, <2>2, <2>3
<1>11. ASSUME NEW d \in Calls PROVE Remembered(d)'
  <2> SUFFICES ASSUME Alone(d)'
               PROVE  /\ requests'[ask'[d].params] # None
                      /\ ask'[d].asked <= requests'[ask'[d].params].day
                      /\ \A e \in Calls : UnderWay(e)' /\ ask'[e].params = ask'[d].params
                                => ask'[d].asked <= ask'[e].asked
    BY DEF Remembered
  <2>1. d # c
    BY <1>4 DEF Alone
  <2>2. Alone(d)
    BY <1>2, <1>5, <2>1 DEF Alone
  <2>3. /\ requests[ask[d].params] # None
        /\ ask[d].asked <= requests[ask[d].params].day
        /\ \A e \in Calls : UnderWay(e) /\ ask[e].params = ask[d].params
                                => ask[d].asked <= ask[e].asked
    BY <2>2 DEF ReportInv, Remembered
  <2>4. ask[d].asked <= today
    BY DEF ReportInv, AskedBefore
  <2>5. ASSUME NEW e \in Calls, UnderWay(e)', ask'[e].params = ask'[d].params
        PROVE  ask'[d].asked <= ask'[e].asked
    <3>1. CASE e = c
      BY <1>4, <1>5, <2>1, <2>4, <3>1
    <3>2. CASE e # c
      BY <1>5, <2>1, <2>3, <2>5, <3>2 DEF UnderWay
    <3>3. QED
      BY <3>1, <3>2
  <2>6. QED
    BY <1>2, <1>5, <2>1, <2>3, <2>5
<1>12. ReusedWasFiledToday'
  <2>1. ASSUME NEW d \in Calls, ask'[d].at = "reused"
        PROVE  [by |-> ask'[d].reuse, params |-> ask'[d].params, day |-> ask'[d].asked] \in filed'
    BY <1>2, <1>4, <1>5, <2>1 DEF ReportInv, ReusedWasFiledToday
  <2>2. QED
    BY <2>1 DEF ReusedWasFiledToday
<1>13. QED
  BY <1>6, <1>7, <1>8, <1>9, <1>10, <1>11, <1>12 DEF ReportInv

LEMMA AnsweredKeeps ==
    ASSUME ReportInv, NEW c \in Calls, RequestAnswered(c)
    PROVE  ReportInv'
<1>1. /\ ask \in [Calls -> Asks] /\ requests \in [Params -> Entry \cup {None}]
      /\ ReportTypeOK /\ ask[c].params \in Params
  BY ReportFacts DEF ReportInv, ReportTypeOK
<1>2. /\ ask[c].at = "sent" /\ UNCHANGED <<today, boot, filed>>
      /\ requests' = [requests EXCEPT ![ask[c].params] = [id |-> c, day |-> ask[c].asked]]
  BY DEF RequestAnswered, UnderWay, LogOf, LogEntry
<1>3. PICK g \in filed : g.by = c
  BY DEF RequestAnswered, FilingOf
<1>4. /\ \A d \in Calls \ {c} : ask'[d] = ask[d]
      /\ ask'[c] = [ask[c] EXCEPT !.at = "answered"]
  BY <1>1 DEF RequestAnswered
<1>5. /\ ask'[c] \in Asks /\ ask'[c].at = "answered" /\ ask'[c].params = ask[c].params
      /\ ask'[c].asked = ask[c].asked /\ ask'[c].boot = ask[c].boot /\ ask'[c].met = ask[c].met
  BY <1>1, <1>4 DEF Asks
<1>6. /\ requests'[ask[c].params] = [id |-> c, day |-> ask[c].asked]
      /\ \A k \in Params \ {ask[c].params} : requests'[k] = requests[k]
  BY <1>1, <1>2
<1>7. [id |-> c, day |-> ask[c].asked] \in Entry
  <2>1. ask[c].asked \in LogDays
    BY <1>1 DEF Asks
  <2>2. QED
    BY <2>1 DEF Entry
<1>8. ReportTypeOK'
  <2>1. ask' \in [Calls -> Asks]
    BY <1>1, <1>5 DEF RequestAnswered
  <2>2. requests' \in [Params -> Entry \cup {None}]
    BY <1>1, <1>2, <1>7
  <2>3. QED
    BY <1>1, <1>2, <2>1, <2>2 DEF ReportTypeOK
<1>9. ASSUME NEW f \in filed' PROVE FilingHolds(f)'
  <2>1. f \in filed /\ FilingHolds(f) /\ f.by \in Calls
    BY <1>2, ReportFacts DEF ReportInv
  <2>2. CASE f.by = c
    BY <1>2, <1>5, <2>1, <2>2 DEF FilingHolds
  <2>3. CASE f.by # c
    BY <1>2, <1>4, <2>1, <2>3 DEF FilingHolds
  <2>4. QED
    BY <2>2, <2>3
<1>10. ASSUME NEW k \in Params PROVE EntryHolds(k)'
  <2>1. CASE k = ask[c].params
    <3>1. FilingHolds(g) /\ AskedBefore(c)
      BY DEF ReportInv
    <3>2. requests'[k].day = ask[c].asked /\ requests'[k].id = c
      BY <1>6, <2>1
    <3>3. /\ g \in filed' /\ g.by = c /\ g.params = k
          /\ ask[c].asked <= g.day /\ g.day <= today' /\ ask[c].asked <= today'
      BY <1>2, <1>3, <2>1, <3>1 DEF FilingHolds, AskedBefore
    <3>4. QED
      BY <3>2, <3>3 DEF EntryHolds
  <2>2. CASE k # ask[c].params
    BY <1>2, <1>6, <2>2 DEF ReportInv, EntryHolds
  <2>3. QED
    BY <2>1, <2>2
<1>11. ASSUME NEW d \in Calls PROVE AskedBefore(d)'
  <2>1. CASE d = c
    BY <1>2, <1>5, <2>1 DEF ReportInv, AskedBefore
  <2>2. CASE d # c
    BY <1>2, <1>4, <2>2 DEF ReportInv, AskedBefore
  <2>3. QED
    BY <2>1, <2>2
<1>12. ASSUME NEW d \in Calls, NEW e \in Calls PROVE Meet(d, e)'
  <2>1. CASE d = c \/ e = c
    BY <1>5, <2>1 DEF Meet, UnderWay
  <2>2. CASE d # c /\ e # c
    BY <1>4, <2>2 DEF ReportInv, Meet, UnderWay
  <2>3. QED
    BY <2>1, <2>2
<1>13. ASSUME NEW d \in Calls PROVE Remembered(d)'
  <2> SUFFICES ASSUME Alone(d)'
               PROVE  /\ requests'[ask'[d].params] # None
                      /\ ask'[d].asked <= requests'[ask'[d].params].day
                      /\ \A e \in Calls : UnderWay(e)' /\ ask'[e].params = ask'[d].params
                                => ask'[d].asked <= ask'[e].asked
    BY DEF Remembered
  <2>1. [id |-> c, day |-> ask[c].asked] # None
    BY <1>7
  <2>2. CASE d = c
    <3>1. ~ask[c].met
      BY <1>5, <2>2 DEF Alone
    <3>2. ASSUME NEW e \in Calls, UnderWay(e)', ask'[e].params = ask'[d].params PROVE FALSE
      <4>1. e # c
        BY <1>5, <3>2 DEF UnderWay
      <4>2. UnderWay(e) /\ ask[e].params = ask[c].params
        BY <1>4, <1>5, <2>2, <3>2, <4>1 DEF UnderWay
      <4>3. QED
        BY <1>2, <3>1, <4>1, <4>2 DEF ReportInv, Meet, UnderWay
    <3>3. requests'[ask'[d].params].day = ask[c].asked /\ requests'[ask'[d].params] # None
      BY <1>5, <1>6, <2>1, <2>2
    <3>4. ask'[d].asked = ask[c].asked /\ ask[c].asked \in Nat
      BY <1>5, <2>2, ReportFacts
    <3>5. QED
      BY <3>2, <3>3, <3>4
  <2>3. CASE d # c
    <3>1. Alone(d) /\ ask'[d] = ask[d]
      BY <1>2, <1>4, <2>3 DEF Alone
    <3>2. /\ requests[ask[d].params] # None
          /\ ask[d].asked <= requests[ask[d].params].day
          /\ \A e \in Calls : UnderWay(e) /\ ask[e].params = ask[d].params
                                => ask[d].asked <= ask[e].asked
      BY <3>1 DEF ReportInv, Remembered
    <3>3. ASSUME NEW e \in Calls, UnderWay(e)', ask'[e].params = ask'[d].params
          PROVE  ask'[d].asked <= ask'[e].asked
      BY <1>4, <1>5, <3>1, <3>2, <3>3 DEF UnderWay
    <3>4. /\ requests'[ask'[d].params] # None
          /\ ask'[d].asked <= requests'[ask'[d].params].day
      <4>1. CASE ask[d].params = ask[c].params
        BY <1>2, <1>6, <2>1, <3>1, <3>2, <4>1 DEF UnderWay
      <4>2. CASE ask[d].params # ask[c].params
        BY <1>6, <3>1, <3>2, <4>2, ReportFacts
      <4>3. QED
        BY <4>1, <4>2
    <3>5. QED
      BY <3>3, <3>4
  <2>4. QED
    BY <2>2, <2>3
<1>14. ReusedWasFiledToday'
  BY <1>2, <1>4, <1>5 DEF ReportInv, ReusedWasFiledToday
<1>15. QED
  BY <1>8, <1>9, <1>10, <1>11, <1>12, <1>13, <1>14 DEF ReportInv

LEMMA FailsKeeps ==
    ASSUME ReportInv, NEW c \in Calls, RequestFails(c)
    PROVE  ReportInv'
<1>1. ask \in [Calls -> Asks] /\ ReportTypeOK
  BY DEF ReportInv, ReportTypeOK
<1>2. ask[c].at = "sent" /\ UNCHANGED <<today, boot, requests, filed>>
  BY DEF RequestFails, UnderWay
<1>3. /\ \A d \in Calls \ {c} : ask'[d] = ask[d]
      /\ ask'[c] = [ask[c] EXCEPT !.at = "failed"]
  BY <1>1 DEF RequestFails
<1>4. /\ ask'[c] \in Asks /\ ask'[c].at = "failed" /\ ask'[c].params = ask[c].params
      /\ ask'[c].asked = ask[c].asked /\ ask'[c].boot = ask[c].boot
  BY <1>1, <1>3 DEF Asks
<1>5. ReportTypeOK'
  <2>1. ask' \in [Calls -> Asks]
    BY <1>1, <1>4 DEF RequestFails
  <2>2. QED
    BY <1>1, <1>2, <2>1 DEF ReportTypeOK
<1>6. ASSUME NEW f \in filed' PROVE FilingHolds(f)'
  <2>1. f \in filed /\ FilingHolds(f) /\ f.by \in Calls
    BY <1>2, ReportFacts DEF ReportInv
  <2>2. CASE f.by = c
    BY <1>2, <1>4, <2>1, <2>2 DEF FilingHolds
  <2>3. CASE f.by # c
    BY <1>2, <1>3, <2>1, <2>3 DEF FilingHolds
  <2>4. QED
    BY <2>2, <2>3
<1>7. \A k \in Params : EntryHolds(k)'
  BY <1>2 DEF ReportInv, EntryHolds
<1>8. ASSUME NEW d \in Calls PROVE AskedBefore(d)'
  BY <1>2, <1>3, <1>4 DEF ReportInv, AskedBefore
<1>9. \A d, e \in Calls : Meet(d, e)'
  BY <1>3, <1>4 DEF ReportInv, Meet, UnderWay
<1>10. ASSUME NEW d \in Calls PROVE Remembered(d)'
  <2>1. CASE d = c
    BY <1>4, <2>1 DEF Remembered, Alone
  <2>2. CASE d # c
    <3>1. ask'[d] = ask[d] /\ Remembered(d)
      BY <1>3, <2>2 DEF ReportInv
    <3>2. \A e \in Calls : UnderWay(e)' => UnderWay(e) /\ ask'[e] = ask[e]
      BY <1>3, <1>4 DEF UnderWay
    <3>3. QED
      BY <1>2, <3>1, <3>2 DEF Remembered, Alone
  <2>3. QED
    BY <2>1, <2>2
<1>11. ReusedWasFiledToday'
  BY <1>2, <1>3, <1>4 DEF ReportInv, ReusedWasFiledToday
<1>12. QED
  BY <1>5, <1>6, <1>7, <1>8, <1>9, <1>10, <1>11 DEF ReportInv

-----------------------------------------------------------------------------
(* ANAF, time and the server.                                              *)

LEMMA AnafFilesKeeps ==
    ASSUME ReportInv, NEW c \in Calls, AnafFiles(c)
    PROVE  ReportInv'
<1>1. today \in LogDays /\ ReportTypeOK
  BY DEF ReportInv, ReportTypeOK
<1> DEFINE new == [by |-> c, params |-> ask[c].params, day |-> today]
<1>2. /\ ask[c].at \in {"sent", "failed"} /\ filed' = filed \cup {new}
      /\ UNCHANGED <<today, boot, requests, ask>>
  BY DEF AnafFiles
<1>3. new \in Filing
  BY <1>1, ReportFacts DEF Filing
<1>4. FilingHolds(new)
  <2>1. ask[c].asked <= today /\ today \in Nat
    BY ReportFacts DEF ReportInv, AskedBefore
  <2>2. QED
    BY <1>2, <2>1 DEF FilingHolds
<1> HIDE DEF new
<1>5. ReportTypeOK'
  BY <1>1, <1>2, <1>3 DEF ReportTypeOK
<1>6. ASSUME NEW f \in filed' PROVE FilingHolds(f)'
  BY <1>2, <1>4 DEF ReportInv, FilingHolds
<1>7. ASSUME NEW k \in Params PROVE EntryHolds(k)'
  BY <1>2 DEF ReportInv, EntryHolds
<1>8. /\ \A d \in Calls : AskedBefore(d)' /\ Remembered(d)'
      /\ \A d, e \in Calls : Meet(d, e)'
  BY <1>2 DEF ReportInv, AskedBefore, Remembered, Alone, Meet, UnderWay
<1>9. ReusedWasFiledToday'
  BY <1>2 DEF ReportInv, ReusedWasFiledToday
<1>10. QED
  BY <1>5, <1>6, <1>7, <1>8, <1>9 DEF ReportInv

LEMMA MidnightKeeps ==
    ASSUME ReportInv, Midnight
    PROVE  ReportInv'
<1>1. /\ today \in Nat /\ today' \in Nat /\ today <= today' /\ today' \in LogDays
      /\ UNCHANGED <<boot, requests, filed, ask>>
  BY DEF ReportInv, ReportTypeOK, Midnight, LogDays
<1>2. ReportTypeOK'
  BY <1>1 DEF ReportInv, ReportTypeOK
<1>3. ASSUME NEW f \in filed' PROVE FilingHolds(f)'
  <2>1. f.day <= today /\ f.day \in Nat
    BY <1>1, ReportFacts DEF ReportInv, FilingHolds
  <2>2. f.day <= today'
    BY <1>1, <2>1
  <2>3. QED
    BY <1>1, <2>2 DEF ReportInv, FilingHolds
<1>4. ASSUME NEW k \in Params PROVE EntryHolds(k)'
  <2> SUFFICES ASSUME requests[k] # None
               PROVE  /\ requests[k].day <= today'
                      /\ \E f \in filed : /\ f.by = requests[k].id /\ f.params = k
                                          /\ requests[k].day <= f.day /\ f.day <= today'
    BY <1>1 DEF EntryHolds
  <2>1. PICK f \in filed : /\ f.by = requests[k].id /\ f.params = k
                           /\ requests[k].day <= f.day /\ f.day <= today
    BY DEF ReportInv, EntryHolds
  <2>2. requests[k].day \in Nat /\ f.day \in Nat
    BY ReportFacts
  <2>3. requests[k].day <= today' /\ f.day <= today'
    BY <1>1, <2>1, <2>2
  <2>4. QED
    BY <2>1, <2>3
<1>5. ASSUME NEW c \in Calls PROVE AskedBefore(c)'
  <2>1. ask[c].asked <= today /\ ask[c].asked \in Nat
    BY ReportFacts DEF ReportInv, AskedBefore
  <2>2. QED
    BY <1>1, <2>1 DEF ReportInv, AskedBefore
<1>6. /\ \A d \in Calls : Remembered(d)'
      /\ \A d, e \in Calls : Meet(d, e)'
  BY <1>1 DEF ReportInv, Remembered, Alone, Meet, UnderWay
<1>7. ReusedWasFiledToday'
  BY <1>1 DEF ReportInv, ReusedWasFiledToday
<1>8. QED
  BY <1>2, <1>3, <1>4, <1>5, <1>6, <1>7 DEF ReportInv

LEMMA RestartKeeps ==
    ASSUME ReportInv, ServerRestart
    PROVE  ReportInv'
<1>1. ask \in [Calls -> Asks] /\ ReportTypeOK
  BY DEF ReportInv, ReportTypeOK
<1>2. /\ boot \in Nat /\ boot' \in Nat /\ boot < boot' /\ boot' \in Boots
      /\ requests' = [k \in Params |-> None] /\ UNCHANGED <<today, filed>>
  BY DEF ReportInv, ReportTypeOK, ServerRestart, Boots
<1>3. ASSUME NEW c \in Calls
      PROVE  /\ ask'[c] \in Asks /\ ask'[c].params = ask[c].params
             /\ ask'[c].asked = ask[c].asked /\ ask'[c].boot = ask[c].boot
             /\ ask'[c].reuse = ask[c].reuse
             /\ ask'[c].at = IF ask[c].at = "sent" THEN "failed" ELSE ask[c].at
  <2>1. CASE ask[c].at = "sent"
    <3>1. ask'[c] = [ask[c] EXCEPT !.at = "failed"]
      BY <2>1 DEF ServerRestart, UnderWay
    <3>2. QED
      BY <1>1, <2>1, <3>1 DEF Asks
  <2>2. CASE ask[c].at # "sent"
    <3>1. ask'[c] = ask[c]
      BY <2>2 DEF ServerRestart, UnderWay
    <3>2. QED
      BY <1>1, <2>2, <3>1
  <2>3. QED
    BY <2>1, <2>2
<1>4. ReportTypeOK'
  <2>1. ask' \in [Calls -> Asks]
    BY <1>3 DEF ServerRestart
  <2>2. QED
    BY <1>1, <1>2, <2>1 DEF ReportTypeOK
<1>5. ASSUME NEW f \in filed' PROVE FilingHolds(f)'
  <2>1. f \in filed /\ FilingHolds(f) /\ f.by \in Calls
    BY <1>2, ReportFacts DEF ReportInv
  <2>2. QED
    BY <1>2, <1>3, <2>1 DEF FilingHolds
<1>6. \A k \in Params : EntryHolds(k)'
  BY <1>2 DEF EntryHolds
<1>7. ASSUME NEW c \in Calls PROVE AskedBefore(c)' /\ Remembered(c)'
  <2>1. ask[c].boot \in Nat /\ ask[c].boot <= boot /\ ask[c].asked <= today
    BY ReportFacts DEF ReportInv, AskedBefore
  <2>2. ask[c].boot <= boot' /\ ask[c].boot # boot'
    BY <1>2, <2>1
  <2>3. QED
    BY <1>2, <1>3, <2>1, <2>2 DEF AskedBefore, Remembered, Alone
<1>8. \A c, d \in Calls : Meet(c, d)'
  BY <1>3 DEF Meet, UnderWay
<1>9. ReusedWasFiledToday'
  BY <1>2, <1>3 DEF ReportInv, ReusedWasFiledToday
<1>10. QED
  BY <1>4, <1>5, <1>6, <1>7, <1>8, <1>9 DEF ReportInv

-----------------------------------------------------------------------------
(* The theorems.                                                           *)

\* ReportInv is inductive: the days of the log, the filings and the calls, and
\* what a call that was alone has logged.
THEOREM ReportInvariant == ReportSpec => []ReportInv
<1>1. ReportInv /\ [ReportNext]_reportVars => ReportInv'
  <2> SUFFICES ASSUME ReportInv, [ReportNext]_reportVars PROVE ReportInv'
    OBVIOUS
  <2>1. CASE UNCHANGED reportVars
    BY <2>1 DEF reportVars, ReportInv, ReportTypeOK, FilingHolds, EntryHolds, AskedBefore,
                Meet, Remembered, Alone, UnderWay, ReusedWasFiledToday
  <2>2. ASSUME NEW c \in Calls, NEW k \in Params, Reuse(c, k) PROVE ReportInv'
    BY <2>2, ReuseKeeps
  <2>3. ASSUME NEW c \in Calls, NEW k \in Params, NEW force \in BOOLEAN, Request(c, k, force)
        PROVE  ReportInv'
    BY <2>3, RequestKeeps
  <2>4. ASSUME NEW c \in Calls, RequestAnswered(c) \/ RequestFails(c) \/ AnafFiles(c)
        PROVE  ReportInv'
    BY <2>4, AnsweredKeeps, FailsKeeps, AnafFilesKeeps
  <2>5. CASE Midnight \/ ServerRestart
    BY <2>5, MidnightKeeps, RestartKeeps
  <2>6. QED
    BY <2>1, <2>2, <2>3, <2>4, <2>5 DEF ReportNext
<1>2. QED
  BY <1>1, InitReport, PTL DEF ReportSpec

\* The variables of the duplicate guard keep their types.
THEOREM ReportTypes == ReportSpec => []ReportTypeOK
<1>1. ReportInv => ReportTypeOK
  BY DEF ReportInv
<1>2. QED
  BY <1>1, ReportInvariant, PTL

\* A reused id names a request that ANAF filed on that day, with these parameters.
THEOREM ReuseIsTrue == ReportSpec => []ReusedWasFiledToday
<1>1. ReportInv => ReusedWasFiledToday
  BY DEF ReportInv
<1>2. QED
  BY <1>1, ReportInvariant, PTL

\* A request leaves only when the log has no entry of the day, or by force.
LEMMA SentUnlogged ==
    ASSUME ReportInv, ReportNext, NEW c \in Calls, ask[c].at = "unused", ask'[c].at = "sent",
           ~ask'[c].force
    PROVE  ~Logged(ask'[c].params)
<1>1. ask \in [Calls -> Asks] /\ ask[c] \in Asks
  BY DEF ReportInv, ReportTypeOK
<1>2. CASE ask' = ask
  BY <1>2
<1>3. ASSUME NEW d \in Calls, NEW k \in Params, Reuse(d, k) PROVE FALSE
  <2>1. CASE d = c
    <3>1. ask'[c] = [ask[c] EXCEPT !.at = "reused", !.params = k, !.asked = today,
                                   !.reuse = requests[k].id]
      BY <1>1, <1>3, <2>1 DEF Reuse
    <3>2. QED
      BY <1>1, <3>1 DEF Asks
  <2>2. CASE d # c
    BY <1>1, <1>3, <2>2 DEF Reuse
  <2>3. QED
    BY <2>1, <2>2
<1>4. ASSUME NEW d \in Calls, NEW k \in Params, NEW force \in BOOLEAN, Request(d, k, force)
      PROVE  ~Logged(ask'[c].params)
  <2> DEFINE others == {e \in Calls : UnderWay(e) /\ ask[e].params = k}
             sent == [ask[d] EXCEPT !.at = "sent", !.params = k, !.force = force,
                                    !.asked = today, !.boot = boot, !.met = others # {}]
             met(e) == [ask[e] EXCEPT !.met = ask[e].met \/ e \in others]
  <2>1. ask' = [e \in Calls |-> IF e = d THEN sent ELSE met(e)]
    BY <1>4 DEF Request
  <2>2. force \/ ~Logged(k)
    BY <1>4 DEF Request
  <2>3. CASE d = c
    <3>1. ask'[c] = sent
      BY <2>1, <2>3
    <3>2. sent.params = k /\ sent.force = force
      BY <1>1, <2>3 DEF Asks
    <3>3. QED
      BY <2>2, <3>1, <3>2
  <2>4. CASE d # c
    <3>1. ask'[c] = met(c)
      BY <2>1, <2>4
    <3>2. met(c).at = ask[c].at
      BY <1>1 DEF Asks
    <3>3. QED
      BY <3>1, <3>2
  <2>5. QED
    BY <2>3, <2>4
<1>5. ASSUME NEW d \in Calls, RequestAnswered(d) \/ RequestFails(d) PROVE FALSE
  <2>1. CASE d = c
    BY <1>5, <2>1 DEF RequestAnswered, RequestFails, UnderWay
  <2>2. CASE d # c
    BY <1>1, <1>5, <2>2 DEF RequestAnswered, RequestFails
  <2>3. QED
    BY <2>1, <2>2
<1>6. CASE ServerRestart
  BY <1>6 DEF ServerRestart, UnderWay
<1>7. QED
  BY <1>2, <1>3, <1>4, <1>5, <1>6 DEF ReportNext, AnafFiles, Midnight

\* A second request of the day is sent only when the first one was lost, is still
\* under way, met another, or was another process's - or by force.
THEOREM RepeatsExplained == ReportSpec => RepeatsAreExplained
<1>1. ASSUME ReportInv, ReportNext, NEW c \in Calls, NEW d \in Calls,
             ask[c].at = "unused", ask'[c].at = "sent", ~ask'[c].force,
             ask[d].params = ask'[c].params, Known(d)
      PROVE  ask[d].asked # today
  <2>1. ~Logged(ask[d].params)
    BY <1>1, SentUnlogged
  <2>2. Remembered(d) /\ EntryHolds(ask[d].params) /\ Alone(d)
    BY <1>1, ReportFacts DEF ReportInv, Known, Alone
  <2>3. /\ requests[ask[d].params] # None
        /\ ask[d].asked <= requests[ask[d].params].day
        /\ requests[ask[d].params].day <= today
    BY <2>2 DEF Remembered, EntryHolds
  <2>4. requests[ask[d].params].day \in Nat /\ ask[d].asked \in Nat /\ today \in Nat
    BY <1>1, <2>3, ReportFacts
  <2>5. requests[ask[d].params].day # today
    BY <2>1, <2>3 DEF Logged
  <2>6. QED
    BY <2>3, <2>4, <2>5
<1>2. ReportInv /\ [ReportNext]_reportVars =>
        [\A c, d \in Calls :
            ask[c].at = "unused" /\ ask'[c].at = "sent" /\ ~ask'[c].force
            /\ ask[d].params = ask'[c].params /\ Known(d)
            => ask[d].asked # today]_reportVars
  BY <1>1
<1>3. QED
  BY <1>2, ReportInvariant, PTL DEF ReportSpec, RepeatsAreExplained

-----------------------------------------------------------------------------
(* The wait for a document.                                                *)

\* A pause ends, and a read is answered, before their bounds pass; the last pause
\* began within the budget.
OnTime(w) ==
    /\ wait[w].at \in {"reading", "read"} =>
          /\ hour <= wait[w].until /\ wait[w].until <= hour + ReadMax
          /\ wait[w].until < wait[w].began + Budget + MaxPause + ReadMax
    /\ wait[w].at = "pausing" =>
          /\ hour <= wait[w].until
          /\ wait[w].until < wait[w].began + Budget + MaxPause

\* A read that did not find the document ran before it came, or after it had left
\* the inbox window.
MissedFor(w) ==
    wait[w].at = "read" /\ ~wait[w].seen /\ work[w].state = "there" =>
        \/ work[w].at + ReadMax >= wait[w].until
        \/ w \notin uploads /\ work[w].at + Window < hour

WaitInv ==
    /\ WaitTypeOK
    /\ \A w \in Waits : wait[w].at # "done" => wait[w].answer = "none"
    /\ \A w \in Waits : OnTime(w)
    /\ \A w \in Waits : MissedFor(w)
    /\ FoundInTime

LEMMA TheHours ==
    /\ Budget \in Nat /\ MaxPause \in Nat /\ ReadMax \in Nat /\ Window \in Nat
    /\ Budget > 0 /\ MaxPause > 0 /\ ReadMax > 0 /\ Window > 0
  BY WaitBounds

LEMMA WaitFields ==
    ASSUME WaitTypeOK, NEW w \in Waits
    PROVE  /\ wait[w] \in WaitStates /\ wait[w].began \in Nat /\ wait[w].until \in Nat
           /\ wait[w].overwrite \in BOOLEAN /\ wait[w].seen \in BOOLEAN
           /\ work[w] \in Works /\ work[w].at \in Nat /\ hour \in Nat
           /\ wait[w].at \in {"idle", "reading", "read", "pausing", "found", "have",
                              "checked", "open", "done"}
           /\ work[w].state \in {"none", "working", "there"}
  BY DEF WaitTypeOK, WaitStates, Works

LEMMA InitWait == WaitInit => WaitInv
<1> SUFFICES ASSUME WaitInit PROVE WaitInv
  OBVIOUS
<1>1. WaitTypeOK
  <2>1. NoWait \in WaitStates  BY DEF NoWait, WaitStates
  <2>2. \A s \in {"none", "working"} : [NoWork EXCEPT !.state = s] \in Works
    BY DEF NoWork, Works
  <2>3. uploads \subseteq Waits  BY WaitBounds DEF WaitInit
  <2>4. QED  BY <2>1, <2>2, <2>3 DEF WaitInit, WaitTypeOK, Contents
<1>2. \A w \in Waits : wait[w].at = "idle" /\ wait[w].answer = "none"
  BY DEF WaitInit, NoWait
<1>3. QED
  BY <1>1, <1>2 DEF WaitInv, OnTime, MissedFor, FoundInTime

\* A step of one call leaves the others, and what ANAF makes for them, alone; so
\* it is enough to look at that call.
LEMMA OneMoves ==
    ASSUME WaitInv, NEW w \in Waits, WaitTypeOK', uploads' = uploads, hour' = hour,
           \A v \in Waits \ {w} : wait'[v] = wait[v] /\ work'[v] = work[v],
           wait'[w].at # "done" => wait'[w].answer = "none",
           OnTime(w)', MissedFor(w)',
           wait'[w].answer = "pending" /\ work'[w].state = "there" =>
               \/ work'[w].at + ReadMax >= wait'[w].began + Budget
               \/ /\ w \notin uploads
                  /\ work'[w].at + Window + 1 < wait'[w].began + Budget + MaxPause + ReadMax
    PROVE  WaitInv'
<1>1. \A v \in Waits \ {w} : /\ wait'[v].at # "done" => wait'[v].answer = "none"
                             /\ OnTime(v)' /\ MissedFor(v)'
  BY DEF WaitInv, OnTime, MissedFor
<1>2. FoundInTime'
  <2> SUFFICES ASSUME NEW v \in Waits, wait'[v].answer = "pending", work'[v].state = "there"
               PROVE  \/ work'[v].at + ReadMax >= wait'[v].began + Budget
                      \/ /\ v \notin uploads'
                         /\ work'[v].at + Window + 1
                                < wait'[v].began + Budget + MaxPause + ReadMax
    BY DEF FoundInTime
  <2>1. CASE v = w  BY <2>1
  <2>2. CASE v # w  BY <2>2 DEF WaitInv, FoundInTime
  <2>3. QED  BY <2>1, <2>2
<1>3. QED  BY <1>1, <1>2 DEF WaitInv

\* The end of a poll, but for the one that polled in vain.
LEMMA LeaveKeeps ==
    ASSUME WaitInv, NEW w \in Waits, NEW at \in {"found", "done"},
           NEW answer \in {"none", "refused", "error", "ok", "nok", "rejected", "saved",
                           "save_error"},
           at = "found" => answer = "none",
           Leave(w, at, answer), uploads' = uploads, hour' = hour, path' \in Contents
    PROVE  WaitInv'
<1> DEFINE keep == at # "done" /\ wait[w].overwrite
<1>1. keep \in BOOLEAN /\ wait \in [Waits -> WaitStates] /\ work \in [Waits -> Works]
      /\ WaitTypeOK
  BY WaitFields DEF WaitInv, WaitTypeOK
<1> HIDE DEF keep
<1>2. /\ wait' = [wait EXCEPT ![w] = [NoWait EXCEPT !.at = at, !.answer = answer,
                                                    !.overwrite = keep, !.began = 0]]
      /\ work' = [work EXCEPT ![w] = NoWork]
  BY DEF Leave, keep
<1>3. /\ [NoWait EXCEPT !.at = at, !.answer = answer, !.overwrite = keep, !.began = 0]
            \in WaitStates
      /\ NoWork \in Works
  BY <1>1 DEF NoWait, NoWork, WaitStates, Works
<1>4. WaitTypeOK'  BY <1>1, <1>2, <1>3 DEF WaitTypeOK
<1>5. /\ wait'[w].at = at /\ wait'[w].answer = answer
      /\ \A v \in Waits \ {w} : wait'[v] = wait[v] /\ work'[v] = work[v]
  BY <1>1, <1>2 DEF NoWait
<1>6. OnTime(w)' /\ MissedFor(w)'  BY <1>5 DEF OnTime, MissedFor
<1>7. QED  BY <1>4, <1>5, <1>6, OneMoves

LEMMA PollingKeeps ==
    ASSUME WaitInv, NEW w \in Waits, NEW overwrite \in BOOLEAN, wait[w].at = "idle",
           Polling(w, overwrite), uploads' = uploads, hour' = hour, path' = path,
           work' \in [Waits -> Works], \A v \in Waits \ {w} : work'[v] = work[v]
    PROVE  WaitInv'
<1>1. /\ wait[w] \in WaitStates /\ hour \in Nat /\ WaitTypeOK
      /\ wait[w].answer = "none" /\ wait \in [Waits -> WaitStates]
  BY WaitFields DEF WaitInv, WaitTypeOK
<1> DEFINE poll == [wait[w] EXCEPT !.at = "reading", !.overwrite = overwrite,
                                   !.began = hour, !.until = hour + ReadMax]
<1>2. wait' = [wait EXCEPT ![w] = poll]  BY DEF Polling
<1>3. /\ poll \in WaitStates /\ poll.at = "reading" /\ poll.began = hour
      /\ poll.until = hour + ReadMax /\ poll.answer = "none"
  <2>1. hour + ReadMax \in Nat  BY <1>1, TheHours
  <2>2. QED  BY <1>1, <2>1 DEF WaitStates
<1> HIDE DEF poll
<1>4. /\ wait'[w].at = "reading" /\ wait'[w].began = hour
      /\ wait'[w].until = hour + ReadMax /\ wait'[w].answer = "none"
      /\ \A v \in Waits \ {w} : wait'[v] = wait[v]
      /\ wait' \in [Waits -> WaitStates]
  BY <1>1, <1>2, <1>3
<1>5. WaitTypeOK'  BY <1>1, <1>4 DEF WaitTypeOK
<1>6. OnTime(w)' /\ MissedFor(w)'
  BY <1>1, <1>4, TheHours DEF OnTime, MissedFor
<1>7. QED  BY <1>4, <1>5, <1>6, OneMoves

\* A step that goes on with the call; seen and until are what it leaves in them.
LEMMA WaitStepKeeps ==
    ASSUME WaitInv, NEW w \in Waits, wait[w].at # "done",
           NEW to \in {"reading", "read", "pausing"},
           NEW until \in Nat, NEW seen \in BOOLEAN,
           wait' = [wait EXCEPT ![w] = [wait[w] EXCEPT !.at = to, !.until = until,
                                                       !.seen = seen]],
           work' = work, uploads' = uploads, hour' = hour, path' \in Contents,
           to \in {"reading", "read"} =>
               /\ hour <= until /\ until <= hour + ReadMax
               /\ until < wait[w].began + Budget + MaxPause + ReadMax,
           to = "pausing" =>
               hour <= until /\ until < wait[w].began + Budget + MaxPause,
           to = "read" /\ ~seen /\ work[w].state = "there" =>
               \/ work[w].at + ReadMax >= until
               \/ w \notin uploads /\ work[w].at + Window < hour
    PROVE  WaitInv'
<1> DEFINE next == [wait[w] EXCEPT !.at = to, !.until = until, !.seen = seen]
<1>1. /\ wait[w] \in WaitStates /\ WaitTypeOK /\ wait \in [Waits -> WaitStates]
      /\ wait[w].answer = "none"
  BY WaitFields DEF WaitInv, WaitTypeOK
<1>2. /\ next \in WaitStates /\ next.at = to /\ next.until = until /\ next.seen = seen
      /\ next.began = wait[w].began /\ next.answer = "none"
  BY <1>1 DEF WaitStates
<1> HIDE DEF next
<1>3. wait' = [wait EXCEPT ![w] = next]  BY DEF next
<1>4. /\ wait' \in [Waits -> WaitStates] /\ wait'[w] = next
      /\ \A v \in Waits \ {w} : wait'[v] = wait[v]
  BY <1>1, <1>2, <1>3
<1>5. WaitTypeOK'  BY <1>1, <1>4 DEF WaitTypeOK
<1>6. OnTime(w)' /\ MissedFor(w)'  BY <1>2, <1>4 DEF OnTime, MissedFor
<1>7. QED  BY <1>2, <1>4, <1>5, <1>6, OneMoves

LEMMA ReadKeeps ==
    ASSUME WaitInv, NEW w \in Waits, Read(w)
    PROVE  WaitInv'
<1>1. /\ wait[w].at = "reading" /\ UNCHANGED <<uploads, hour, work, path>>
      /\ wait' = [wait EXCEPT ![w] = [wait[w] EXCEPT !.at = "read", !.seen = Visible(w)]]
  BY DEF Read
<1>2. /\ wait[w] \in WaitStates /\ wait[w].until \in Nat /\ path \in Contents
      /\ hour \in Nat /\ work[w].at \in Nat
  BY WaitFields DEF WaitInv, WaitTypeOK
<1>3. OnTime(w)  BY DEF WaitInv
<1> DEFINE seen == Visible(w)
<1>4. seen \in BOOLEAN  BY DEF Visible
<1>5. ~seen /\ work[w].state = "there" => w \notin uploads /\ work[w].at + Window < hour
  BY <1>2, TheHours DEF Visible
<1> HIDE DEF seen
<1>6. wait' = [wait EXCEPT ![w] = [wait[w] EXCEPT !.at = "read", !.until = wait[w].until,
                                                  !.seen = seen]]
  <2>1. [wait[w] EXCEPT !.at = "read", !.seen = seen]
            = [wait[w] EXCEPT !.at = "read", !.until = wait[w].until, !.seen = seen]
    BY <1>2 DEF WaitStates
  <2>2. QED  BY <1>1, <2>1 DEF seen
<1>7. /\ hour <= wait[w].until /\ wait[w].until <= hour + ReadMax
      /\ wait[w].until < wait[w].began + Budget + MaxPause + ReadMax
  BY <1>1, <1>3 DEF OnTime
<1>8. /\ wait[w].at # "done" /\ work' = work /\ uploads' = uploads /\ hour' = hour
      /\ path' \in Contents
  BY <1>1, <1>2
<1>9. QED  BY <1>2, <1>4, <1>5, <1>6, <1>7, <1>8, WaitStepKeeps

LEMMA PauseKeeps ==
    ASSUME WaitInv, NEW w \in Waits, Pause(w)
    PROVE  WaitInv'
<1>1. /\ wait[w].at = "read" /\ ~Expired(w) /\ UNCHANGED <<uploads, hour, work, path>>
  BY DEF Pause
<1>2. PICK d \in 1..MaxPause :
        wait' = [wait EXCEPT ![w] = [wait[w] EXCEPT !.at = "pausing", !.until = hour + d]]
  BY DEF Pause
<1>3. /\ wait[w] \in WaitStates /\ wait[w].began \in Nat /\ path \in Contents
      /\ hour \in Nat /\ wait[w].seen \in BOOLEAN
  BY WaitFields DEF WaitInv, WaitTypeOK
<1>4. [wait[w] EXCEPT !.at = "pausing", !.until = hour + d]
        = [wait[w] EXCEPT !.at = "pausing", !.until = hour + d, !.seen = wait[w].seen]
  BY <1>3 DEF WaitStates
<1>5. /\ hour + d \in Nat /\ hour <= hour + d
      /\ hour + d < wait[w].began + Budget + MaxPause
  BY <1>1, <1>3, TheHours DEF Expired
<1>6. wait' = [wait EXCEPT ![w] = [wait[w] EXCEPT !.at = "pausing", !.until = hour + d,
                                                  !.seen = wait[w].seen]]
  BY <1>2, <1>4
<1>7. /\ wait[w].at # "done" /\ work' = work /\ uploads' = uploads /\ hour' = hour
      /\ path' \in Contents
  BY <1>1, <1>3
<1>8. QED  BY <1>3, <1>5, <1>6, <1>7, WaitStepKeeps

LEMMA WakeKeeps ==
    ASSUME WaitInv, NEW w \in Waits, Wake(w)
    PROVE  WaitInv'
<1>1. /\ wait[w].at = "pausing" /\ hour = wait[w].until
      /\ UNCHANGED <<uploads, hour, work, path>>
      /\ wait' = [wait EXCEPT ![w] =
                    [wait[w] EXCEPT !.at = "reading", !.until = hour + ReadMax]]
  BY DEF Wake
<1>2. /\ wait[w] \in WaitStates /\ wait[w].began \in Nat /\ path \in Contents
      /\ hour \in Nat /\ wait[w].seen \in BOOLEAN /\ wait[w].until \in Nat
  BY WaitFields DEF WaitInv, WaitTypeOK
<1>3. [wait[w] EXCEPT !.at = "reading", !.until = hour + ReadMax]
        = [wait[w] EXCEPT !.at = "reading", !.until = hour + ReadMax, !.seen = wait[w].seen]
  BY <1>2 DEF WaitStates
<1>4. hour < wait[w].began + Budget + MaxPause
  BY <1>1 DEF WaitInv, OnTime
<1>5. /\ hour + ReadMax \in Nat /\ hour <= hour + ReadMax
      /\ hour + ReadMax <= hour + ReadMax
      /\ hour + ReadMax < wait[w].began + Budget + MaxPause + ReadMax
  BY <1>2, <1>4, TheHours
<1>6. wait' = [wait EXCEPT ![w] = [wait[w] EXCEPT !.at = "reading",
                                       !.until = hour + ReadMax, !.seen = wait[w].seen]]
  BY <1>1, <1>3
<1>7. /\ wait[w].at # "done" /\ work' = work /\ uploads' = uploads /\ hour' = hour
      /\ path' \in Contents
  BY <1>1, <1>2
<1>8. QED  BY <1>2, <1>5, <1>6, <1>7, WaitStepKeeps

\* The steps of the save: only where the call stands changes, and the path.
LEMMA SavingKeeps ==
    ASSUME WaitInv, NEW w \in Waits, wait[w].at # "done",
           NEW to \in {"have", "checked", "open"},
           wait' = [wait EXCEPT ![w].at = to],
           work' = work, uploads' = uploads, hour' = hour, path' \in Contents
    PROVE  WaitInv'
<1> DEFINE next == [wait[w] EXCEPT !.at = to]
<1>1. /\ wait[w] \in WaitStates /\ WaitTypeOK /\ wait \in [Waits -> WaitStates]
      /\ wait[w].answer = "none"
  BY WaitFields DEF WaitInv, WaitTypeOK
<1>2. next \in WaitStates /\ next.at = to /\ next.answer = "none"
  BY <1>1 DEF WaitStates
<1>3. /\ wait' \in [Waits -> WaitStates] /\ wait'[w] = next
      /\ \A v \in Waits \ {w} : wait'[v] = wait[v]
  BY <1>1, <1>2
<1> HIDE DEF next
<1>4. WaitTypeOK'  BY <1>1, <1>3 DEF WaitTypeOK
<1>5. OnTime(w)' /\ MissedFor(w)'  BY <1>2, <1>3 DEF OnTime, MissedFor
<1>6. wait'[w].answer = "none"  BY <1>2, <1>3
<1>7. QED  BY <1>3, <1>4, <1>5, <1>6, OneMoves

LEMMA GiveUpKeeps ==
    ASSUME WaitInv, NEW w \in Waits, GiveUp(w)
    PROVE  WaitInv'
<1>1. /\ wait[w].at = "read" /\ ~wait[w].seen /\ Expired(w)
      /\ UNCHANGED <<uploads, hour, path>> /\ End(w, "pending")
  BY DEF GiveUp
<1>2. /\ wait[w] \in WaitStates /\ WaitTypeOK /\ wait \in [Waits -> WaitStates]
      /\ hour \in Nat /\ wait[w].began \in Nat /\ wait[w].until \in Nat
      /\ work[w].at \in Nat
  BY WaitFields DEF WaitInv, WaitTypeOK
<1> DEFINE left == [NoWait EXCEPT !.at = "done", !.answer = "pending",
                                  !.overwrite = FALSE, !.began = wait[w].began]
<1>3. wait' = [wait EXCEPT ![w] = left] /\ work' = work
  BY <1>1 DEF End, Leave
<1>4. /\ left \in WaitStates /\ left.at = "done" /\ left.answer = "pending"
      /\ left.began = wait[w].began
  BY <1>2 DEF NoWait, WaitStates
<1> HIDE DEF left
<1>5. /\ wait' \in [Waits -> WaitStates] /\ wait'[w] = left
      /\ \A v \in Waits \ {w} : wait'[v] = wait[v]
  BY <1>2, <1>3, <1>4
<1>6. WaitTypeOK'  BY <1>1, <1>2, <1>3, <1>5 DEF WaitTypeOK
<1>7. OnTime(w)' /\ MissedFor(w)'  BY <1>4, <1>5 DEF OnTime, MissedFor
<1>8. work[w].state = "there" =>
        \/ work[w].at + ReadMax >= wait[w].began + Budget
        \/ /\ w \notin uploads
           /\ work[w].at + Window + 1 < wait[w].began + Budget + MaxPause + ReadMax
  <2>1. hour >= wait[w].began + Budget  BY <1>1 DEF Expired
  <2>2. /\ hour <= wait[w].until
        /\ wait[w].until < wait[w].began + Budget + MaxPause + ReadMax
    BY <1>1 DEF WaitInv, OnTime
  <2>3. work[w].state = "there" =>
          \/ work[w].at + ReadMax >= wait[w].until
          \/ w \notin uploads /\ work[w].at + Window < hour
    BY <1>1 DEF WaitInv, MissedFor
  <2>4. QED  BY <1>2, <2>1, <2>2, <2>3, TheHours
<1>9. /\ uploads' = uploads /\ hour' = hour /\ wait'[w].at = "done"
      /\ wait'[w].began = wait[w].began /\ work' = work
  BY <1>1, <1>3, <1>4, <1>5
<1>10. QED  BY <1>5, <1>6, <1>7, <1>8, <1>9, OneMoves

LEMMA DeliverKeeps ==
    ASSUME WaitInv, NEW w \in Waits, Deliver(w)
    PROVE  WaitInv'
<1>1. /\ work[w].state = "working" /\ wait[w].at # "done"
      /\ UNCHANGED <<uploads, hour, wait, path>>
  BY DEF Deliver
<1>2. PICK good \in BOOLEAN :
        work' = [work EXCEPT ![w] = [state |-> "there", at |-> hour, good |-> good]]
  BY DEF Deliver
<1>3. /\ WaitTypeOK /\ hour \in Nat /\ work \in [Waits -> Works]
      /\ wait[w].answer = "none" /\ wait[w].until \in Nat
  BY <1>1, WaitFields DEF WaitInv, WaitTypeOK
<1>4. /\ work' \in [Waits -> Works] /\ work'[w].at = hour
      /\ \A v \in Waits \ {w} : work'[v] = work[v]
  BY <1>2, <1>3 DEF Works
<1>5. WaitTypeOK'  BY <1>1, <1>3, <1>4 DEF WaitTypeOK
<1>6. OnTime(w)'
  <2>1. OnTime(w)  BY DEF WaitInv
  <2>2. QED  BY <1>1, <2>1 DEF OnTime
<1>7. MissedFor(w)'
  <2>1. wait[w].at = "read" => wait[w].until <= hour + ReadMax
    BY DEF WaitInv, OnTime
  <2>2. QED  BY <1>1, <1>3, <1>4, <2>1, TheHours DEF MissedFor
<1>8. /\ uploads' = uploads /\ hour' = hour /\ wait' = wait  BY <1>1
<1>9. QED  BY <1>3, <1>4, <1>5, <1>6, <1>7, <1>8, OneMoves

LEMMA HourPassesKeeps ==
    ASSUME WaitInv, HourPasses
    PROVE  WaitInv'
<1>1. /\ hour \in Nat /\ hour' = hour + 1 /\ UNCHANGED <<uploads, work, wait, path>>
      /\ \A w \in Waits : /\ wait[w].at \in {"reading", "read"} => hour < wait[w].until
                          /\ wait[w].at = "pausing" => hour < wait[w].until
  BY DEF HourPasses, WaitInv, WaitTypeOK
<1>2. WaitTypeOK'  BY <1>1 DEF WaitInv, WaitTypeOK
<1>3. ASSUME NEW w \in Waits PROVE OnTime(w)' /\ MissedFor(w)'
  <2>1. OnTime(w) /\ MissedFor(w)  BY DEF WaitInv
  <2>2. wait[w].until \in Nat /\ wait[w].began \in Nat /\ work[w].at \in Nat
    BY WaitFields DEF WaitInv
  <2>3. OnTime(w)'  BY <1>1, <2>1, <2>2, TheHours DEF OnTime
  <2>4. MissedFor(w)'  BY <1>1, <2>1, <2>2, TheHours DEF MissedFor
  <2>5. QED  BY <2>3, <2>4
<1>4. FoundInTime'  BY <1>1 DEF WaitInv, FoundInTime
<1>5. \A w \in Waits : wait'[w].at # "done" => wait'[w].answer = "none"
  BY <1>1 DEF WaitInv
<1>6. QED  BY <1>2, <1>3, <1>4, <1>5 DEF WaitInv

\* What only the path changes.
LEMMA PathKeeps ==
    ASSUME WaitInv, UNCHANGED <<uploads, hour, work, wait>>, path' \in Contents
    PROVE  WaitInv'
<1>1. uploads' = uploads /\ hour' = hour /\ work' = work /\ wait' = wait
  OBVIOUS
<1>2. WaitTypeOK'  BY <1>1 DEF WaitInv, WaitTypeOK
<1>3. \A w \in Waits : OnTime(w)' /\ MissedFor(w)'
  BY <1>1 DEF WaitInv, OnTime, MissedFor
<1>4. FoundInTime'  BY <1>1 DEF WaitInv, FoundInTime
<1>5. QED  BY <1>1, <1>2, <1>3, <1>4 DEF WaitInv

\* WaitInv is inductive: a wait is between its reads, within its bounds, and misses
\* a document only where it was not to be seen.
THEOREM WaitInvariant == WaitSpec => []WaitInv
<1>1. WaitInv /\ [WaitNext]_waitVars => WaitInv'
  <2> SUFFICES ASSUME WaitInv, [WaitNext]_waitVars PROVE WaitInv'
    OBVIOUS
  <2>a. /\ path \in Contents /\ wait \in [Waits -> WaitStates]
        /\ work \in [Waits -> Works] /\ "torn" \in Contents /\ Waits \subseteq Contents
    BY DEF WaitInv, WaitTypeOK, Contents
  <2>1. ASSUME NEW w \in Waits, UploadAccepted(w) PROVE WaitInv'
    <3>1. /\ wait[w].at = "idle" /\ UNCHANGED <<uploads, hour, path>> /\ Polling(w, FALSE)
          /\ work' = [work EXCEPT ![w].state = "working"]
      BY <2>1 DEF UploadAccepted
    <3>2. /\ work' \in [Waits -> Works] /\ \A v \in Waits \ {w} : work'[v] = work[v]
      BY <2>a, <3>1 DEF Works
    <3>3. FALSE \in BOOLEAN  OBVIOUS
    <3>4. QED  BY <3>1, <3>2, <3>3, PollingKeeps
  <2>2. ASSUME NEW w \in Waits, UploadRejected(w) PROVE WaitInv'
    BY <2>2, <2>a, LeaveKeeps DEF UploadRejected, End
  <2>3. ASSUME NEW w \in Waits, UploadLost(w) PROVE WaitInv'
    BY <2>3, <2>a, LeaveKeeps DEF UploadLost, End
  <2>4. ASSUME NEW w \in Waits, Deliver(w) PROVE WaitInv'
    BY <2>4, DeliverKeeps
  <2>5. ASSUME NEW w \in Waits, NEW overwrite \in BOOLEAN, AwaitReport(w, overwrite)
        PROVE  WaitInv'
    <3>1. wait[w].at = "idle" /\ UNCHANGED <<uploads, hour, path>>  BY <2>5 DEF AwaitReport
    <3>2. CASE path # "absent" /\ ~overwrite
      BY <2>5, <2>a, <3>1, <3>2, LeaveKeeps DEF AwaitReport, End
    <3>3. CASE ~(path # "absent" /\ ~overwrite)
      <4>1. Polling(w, overwrite) /\ work' = work  BY <2>5, <3>3 DEF AwaitReport
      <4>2. QED  BY <2>a, <3>1, <4>1, PollingKeeps
    <3>4. QED  BY <3>2, <3>3
  <2>6. ASSUME NEW w \in Waits, Read(w) PROVE WaitInv'
    BY <2>6, ReadKeeps
  <2>7. ASSUME NEW w \in Waits, ReadFails(w) PROVE WaitInv'
    BY <2>7, <2>a, LeaveKeeps DEF ReadFails, End
  <2>8. ASSUME NEW w \in Waits, Settled(w) PROVE WaitInv'
    <3>1. CASE w \in uploads
      BY <2>8, <2>a, <3>1, LeaveKeeps DEF Settled, End
    <3>2. CASE w \notin uploads
      BY <2>8, <2>a, <3>2, LeaveKeeps DEF Settled
    <3>3. QED  BY <3>1, <3>2
  <2>9. ASSUME NEW w \in Waits, GiveUp(w) PROVE WaitInv'
    BY <2>9, GiveUpKeeps
  <2>10. ASSUME NEW w \in Waits, Pause(w) PROVE WaitInv'
    BY <2>10, PauseKeeps
  <2>11. ASSUME NEW w \in Waits, Wake(w) PROVE WaitInv'
    BY <2>11, WakeKeeps
  <2>12. ASSUME NEW w \in Waits, Downloaded(w) PROVE WaitInv'
    <3>1. /\ wait[w].at # "done" /\ wait' = [wait EXCEPT ![w].at = "have"]
          /\ UNCHANGED <<uploads, hour, work, path>>
      BY <2>12 DEF Downloaded
    <3>2. QED  BY <2>a, <3>1, SavingKeeps
  <2>13. ASSUME NEW w \in Waits, CheckAgain(w) PROVE WaitInv'
    <3>1. wait[w].at # "done" /\ UNCHANGED <<uploads, hour, path>>  BY <2>13 DEF CheckAgain
    <3>2. CASE Collides(w)
      BY <2>13, <2>a, <3>1, <3>2, LeaveKeeps DEF CheckAgain, End
    <3>3. CASE ~Collides(w)
      <4>1. wait' = [wait EXCEPT ![w].at = "checked"] /\ work' = work
        BY <2>13, <3>3 DEF CheckAgain
      <4>2. QED  BY <2>a, <3>1, <4>1, SavingKeeps
    <3>4. QED  BY <3>2, <3>3
  <2>14. ASSUME NEW w \in Waits, OpenFile(w) PROVE WaitInv'
    <3>1. wait[w].at # "done" /\ UNCHANGED <<uploads, hour>>  BY <2>14 DEF OpenFile
    <3>2. CASE Blocked(w)
      BY <2>14, <2>a, <3>1, <3>2, LeaveKeeps DEF OpenFile, End
    <3>3. CASE ~Blocked(w)
      <4>1. wait' = [wait EXCEPT ![w].at = "open"] /\ path' = "torn" /\ work' = work
        BY <2>14, <3>3 DEF OpenFile
      <4>2. QED  BY <2>a, <3>1, <4>1, SavingKeeps
    <3>4. QED  BY <3>2, <3>3
  <2>15. ASSUME NEW w \in Waits, WriteFile(w) PROVE WaitInv'
    <3>1. path' \in Contents  BY <2>15, <2>a DEF WriteFile
    <3>2. QED  BY <2>15, <3>1, LeaveKeeps DEF WriteFile, End
  <2>16. ASSUME NEW w \in Waits, SaveFails(w) PROVE WaitInv'
    BY <2>16, <2>a, LeaveKeeps DEF SaveFails, End
  <2>17. CASE OthersWrite
    <3>1. path' \in Contents  BY <2>17 DEF OthersWrite, Contents
    <3>2. QED  BY <2>17, <3>1, PathKeeps DEF OthersWrite
  <2>18. CASE HourPasses  BY <2>18, HourPassesKeeps
  <2>19. CASE UNCHANGED waitVars  BY <2>19, <2>a, PathKeeps DEF waitVars
  <2>20. QED
    BY <2>1, <2>2, <2>3, <2>4, <2>5, <2>6, <2>7, <2>8, <2>9, <2>10, <2>11, <2>12, <2>13,
       <2>14, <2>15, <2>16, <2>17, <2>18, <2>19 DEF WaitNext
<1>2. QED  BY <1>1, InitWait, PTL DEF WaitSpec

\* The waits' variables keep their types.
THEOREM WaitTypes == WaitSpec => []WaitTypeOK
<1>1. WaitInv => WaitTypeOK  BY DEF WaitInv
<1>2. QED  BY <1>1, WaitInvariant, PTL

\* However long reads take, a poll does not outlive its budget by more than a pause
\* and a read.
THEOREM PollsKeepTheirBudget == WaitSpec => []PollsWithinBudget
<1>1. WaitInv => PollsWithinBudget
  <2> SUFFICES ASSUME WaitInv, NEW w \in Waits, wait[w].at \in {"reading", "read", "pausing"}
               PROVE  hour < wait[w].began + Budget + MaxPause + ReadMax
    BY DEF PollsWithinBudget
  <2>1. OnTime(w)  BY DEF WaitInv
  <2>2. wait[w].until \in Nat /\ wait[w].began \in Nat /\ hour \in Nat
    BY WaitFields DEF WaitInv
  <2>3. QED  BY <2>1, <2>2, TheHours DEF OnTime
<1>2. QED  BY <1>1, WaitInvariant, PTL

\* A wait answers pending for a document that is there only where it came too late
\* for the last read of the budget, or may have left the inbox window by then.
THEOREM DocumentsAreFound == WaitSpec => []FoundInTime
<1>1. WaitInv => FoundInTime  BY DEF WaitInv
<1>2. QED  BY <1>1, WaitInvariant, PTL

\* A report written whole, or somebody else's file, is replaced only by a call that
\* had created its file before, or was asked to overwrite.
THEOREM FilesAreNotReplaced == WaitSpec => NeverReplaced
<1> DEFINE Kept ==
        \/ path \notin {"foreign"} \cup Waits
        \/ path' \in {path, "absent", "foreign"}
        \/ \E w \in Waits : wait[w].at = "open"
        \/ \E w \in Waits : wait[w].at = "checked" /\ wait[w].overwrite
<1>1. [WaitNext]_waitVars => [Kept]_waitVars
  <2> SUFFICES ASSUME WaitNext, path' # path PROVE Kept
    BY DEF waitVars
  <2>1. ASSUME NEW w \in Waits, OpenFile(w) PROVE Kept
    <3>1. wait[w].at = "checked" /\ (path = "absent" \/ wait[w].overwrite)
      BY <2>1 DEF OpenFile, Blocked, Collides
    <3>2. path = "absent" => path \notin {"foreign"} \cup Waits  BY WaitsAreNoContents
    <3>3. QED  BY <3>1, <3>2
  <2>2. ASSUME NEW w \in Waits, WriteFile(w) PROVE Kept
    BY <2>2 DEF WriteFile
  <2>3. CASE OthersWrite  BY <2>3 DEF OthersWrite
  <2>4. QED
    BY <2>1, <2>2, <2>3
    DEF WaitNext, UploadAccepted, UploadRejected, UploadLost, Deliver, AwaitReport, Read,
        ReadFails, Settled, GiveUp, Pause, Wake, Downloaded, CheckAgain, SaveFails, HourPasses
<1>2. QED  BY <1>1, PTL DEF WaitSpec, NeverReplaced
=============================================================================
