--------------------------- MODULE LoginAttempts ---------------------------
(***************************************************************************)
(* browser_login (auth/browser.py) on CallbackListener (auth/callback.py): *)
(* login attempts of several processes, one callback port, and the         *)
(* redirects of the user's browser tabs - late, repeated, or belonging to  *)
(* another attempt.                                                        *)
(*                                                                         *)
(* Each request to the listener is handled by a thread of its own, which   *)
(* stores its result, writes the page and then releases the waiter; the    *)
(* waiter may time out, read and close the listener between any of these.  *)
(***************************************************************************)

CONSTANTS
    Attempts,   \* calls of browser_login, each with a `state` of its own
    Tabs,       \* redirects the browser follows
    Nobody      \* no attempt, no tab

ASSUME NobodyIsNone == Nobody \notin Attempts \cup Tabs

VARIABLES
    port,       \* the attempt whose listener holds the callback port
    attempt,    \* the attempts
    tab         \* the redirects

loginVars == <<port, attempt, tab>>

\* code, error: the tab stored in `_result`, if any; done: the event; denied,
\* code taken by wait(): `taken`.
AttemptStates == [at : {"idle", "bound", "waiting", "closing", "exchanging", "ended"},
                  visited : BOOLEAN, code : Tabs \cup {Nobody}, error : Tabs \cup {Nobody},
                  done : BOOLEAN, taken : Tabs \cup {Nobody},
                  outcome : {"none", "unavailable", "not_opened", "denied", "timed_out",
                             "exchange_failed", "not_saved", "completed", "crash"}]

TabStates == [at : {"idle", "sent", "accepted", "stored", "shown", "refused", "over"},
              of : Attempts \cup {Nobody}, brings : {"code", "error"},
              to : Attempts \cup {Nobody}]

LoginInit ==
    /\ port = Nobody
    /\ attempt = [a \in Attempts |->
          [at |-> "idle", visited |-> FALSE, code |-> Nobody, error |-> Nobody,
           done |-> FALSE, taken |-> Nobody, outcome |-> "none"]]
    /\ tab = [t \in Tabs |-> [at |-> "idle", of |-> Nobody, brings |-> "code", to |-> Nobody]]

-----------------------------------------------------------------------------
(* The attempt.                                                            *)

\* The listener is bound before the browser opens.
Bind(a) ==
    /\ attempt[a].at = "idle"
    /\ IF port = Nobody
       THEN port' = a /\ attempt' = [attempt EXCEPT ![a].at = "bound"]
       ELSE port' = port /\ attempt' = [attempt EXCEPT ![a].at = "ended",
                                                       ![a].outcome = "unavailable"]
    /\ UNCHANGED tab

NotClosed(a) == "ended"   \* mutant: the early return skips the with block's end

\* Where an attempt goes whose browser did not open.
GivesUp(a) == "closing"

OpenBrowser(a) ==
    /\ attempt[a].at = "bound"
    /\ \/ attempt' = [attempt EXCEPT ![a].at = "waiting", ![a].visited = TRUE]
       \/ attempt' = [attempt EXCEPT ![a].at = GivesUp(a), ![a].outcome = "not_opened"]
    /\ UNCHANGED <<port, tab>>

\* wait(): the event; an error goes before a code, nothing is a KeyError.
Wakes(a) ==
    /\ attempt[a].at = "waiting" /\ attempt[a].done
    /\ attempt' = [attempt EXCEPT ![a].at = "closing",
          ![a].taken = IF attempt[a].error # Nobody THEN attempt[a].error ELSE attempt[a].code,
          ![a].outcome = IF attempt[a].error # Nobody THEN "denied"
                         ELSE IF attempt[a].code = Nobody THEN "crash" ELSE "none"]
    /\ UNCHANGED <<port, tab>>

TimeOut(a) ==
    /\ attempt[a].at = "waiting" /\ ~attempt[a].done
    /\ attempt' = [attempt EXCEPT ![a].at = "closing", ![a].outcome = "timed_out"]
    /\ UNCHANGED <<port, tab>>

\* The end of the with block.  Threads that are handling a request go on.
Close(a) ==
    /\ attempt[a].at = "closing"
    /\ port' = Nobody
    /\ attempt' = [attempt EXCEPT ![a].at =
          IF attempt[a].outcome = "none" THEN "exchanging" ELSE "ended"]
    /\ UNCHANGED tab

\* finish_login; a store that cannot be written raises out of browser_login.
Exchange(a) ==
    /\ attempt[a].at = "exchanging"
    /\ \E outcome \in {"completed", "exchange_failed", "not_saved"} :
          attempt' = [attempt EXCEPT ![a].at = "ended", ![a].outcome = outcome]
    /\ UNCHANGED <<port, tab>>

-----------------------------------------------------------------------------
(* The browser, and the listener's threads.                                *)

\* ANAF redirects, with the state of the URL that was opened.
Redirect(t, a, brings) ==
    /\ tab[t].at = "idle" /\ attempt[a].visited
    /\ tab' = [tab EXCEPT ![t].at = "sent", ![t].of = a, ![t].brings = brings]
    /\ UNCHANGED <<port, attempt>>

\* Whoever listens on the port gets it; without a listener the tab fails.
Accept(t) ==
    /\ tab[t].at = "sent"
    /\ tab' = [tab EXCEPT ![t].at = IF port = Nobody THEN "over" ELSE "accepted",
                          ![t].to = port]
    /\ UNCHANGED <<port, attempt>>

AnyState(t) == TRUE   \* mutant: the state is not compared

StateMatches(t) == tab[t].of = tab[t].to

Store(t) ==
    /\ tab[t].at = "accepted" /\ StateMatches(t)
    /\ tab' = [tab EXCEPT ![t].at = "stored"]
    /\ attempt' = IF tab[t].brings = "code" THEN [attempt EXCEPT ![tab[t].to].code = t]
                  ELSE [attempt EXCEPT ![tab[t].to].error = t]
    /\ UNCHANGED port

\* Answered 400, and the listener keeps waiting.
Refuse(t) ==
    /\ tab[t].at = "accepted" /\ ~StateMatches(t)
    /\ tab' = [tab EXCEPT ![t].at = "refused"]
    /\ UNCHANGED <<port, attempt>>

Show(t) ==
    /\ tab[t].at = "stored"
    /\ tab' = [tab EXCEPT ![t].at = "shown"]
    /\ UNCHANGED <<port, attempt>>

\* Also when the page could not be written.
Releases(t) == tab[t].at \in {"stored", "shown"}

ReleaseWaiter(t) ==
    /\ Releases(t)
    /\ tab' = [tab EXCEPT ![t].at = "over"]
    /\ attempt' = [attempt EXCEPT ![tab[t].to].done = TRUE]
    /\ UNCHANGED port

LoginNext ==
    \/ \E a \in Attempts :
          \/ Bind(a) \/ OpenBrowser(a) \/ Wakes(a) \/ TimeOut(a) \/ Close(a) \/ Exchange(a)
    \/ \E t \in Tabs :
          \/ \E a \in Attempts, brings \in {"code", "error"} : Redirect(t, a, brings)
          \/ Accept(t) \/ Store(t) \/ Refuse(t) \/ Show(t) \/ ReleaseWaiter(t)

LoginSpec == LoginInit /\ [][LoginNext]_loginVars

-----------------------------------------------------------------------------
(* Properties.                                                             *)

LoginTypeOK ==
    /\ port \in Attempts \cup {Nobody}
    /\ attempt \in [Attempts -> AttemptStates]
    /\ tab \in [Tabs -> TabStates]

\* "Only a redirect echoing that state completes the wait": what an attempt
\* takes - the code it exchanges, the refusal it reports - came with its own
\* state, whichever tab of whichever attempt reached its listener; and it never
\* comes back without either.
OnlyOwnRedirects ==
    \A a \in Attempts :
        /\ attempt[a].taken # Nobody => tab[attempt[a].taken].of = a
        /\ attempt[a].outcome # "crash"

\* Every way an attempt can end gives the port back, so that the next can bind:
\* it is held exactly while its attempt is inside the listener's with block.
ListenerReleased ==
    \A a \in Attempts : port = a <=> attempt[a].at \in {"bound", "waiting", "closing"}
=============================================================================
