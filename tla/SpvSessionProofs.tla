-------------------------- MODULE SpvSessionProofs --------------------------
(***************************************************************************)
(* The SPV session for every number of processes, calls, hops and logins:  *)
(* types, which cookies are stored and sent; and, where every call runs in *)
(* one process, that a rotation is a compare-and-save and that the stored  *)
(* cookies only advance.                                                   *)
(***************************************************************************)
EXTENDS SpvSession, TLAPS

USE BoundsType, ClientOfType

InFlight(r) == pc[r] \in {"sent", "saving"}

\* A call in flight holds cookies of the session it started from, sends what
\* it holds, and saves the date of the login its cookies belong to.
CallHolds(r) ==
    /\ InFlight(r) => /\ seen[r] \in Cookies
                      /\ jar[r] \in Cookies
                      /\ jar[r].login = seen[r].login
    /\ pc[r] = "sent" => header[r] = jar[r]
    /\ pc[r] = "saving" => loaded[r] = jar[r].login

\* CookiesOfTheirLogin is not inductive alone: what SaveRotation stores was
\* loaded and received earlier, and CallHolds remembers how they relate.
SessionInv ==
    /\ TypeOK
    /\ CookiesOfTheirLogin
    /\ \A r \in Requests : CallHolds(r)

LEMMA InitSession == Init => SessionInv
<1> SUFFICES ASSUME Init PROVE SessionInv
  OBVIOUS
<1>1. TypeOK
  BY DEF Init, TypeOK, Session, Cookies
<1>2. CookiesOfTheirLogin
  BY DEF Init, CookiesOfTheirLogin
<1>3. \A r \in Requests : CallHolds(r)
  BY DEF Init, CallHolds, InFlight
<1>4. QED
  BY <1>1, <1>2, <1>3 DEF SessionInv

\* What an answer's Set-Cookie leaves a call with: cookies of its session.
LEMMA ReceivedCookies ==
    ASSUME SessionInv, NEW r \in Requests, NEW cookies \in Cookies,
           Receive(r, cookies)
    PROVE  /\ seen[r] \in Cookies
           /\ jar[r] \in Cookies
           /\ cookies.login = seen[r].login
           /\ cookies.login = jar[r].login
           /\ header[r] = jar[r]
           /\ issued' \in [Logins -> 0..MaxVersions]
           /\ clientJar' \in [Processes -> Cookies \cup {None, Anonymous}]
<1>1. /\ seen[r] \in Cookies
      /\ jar[r] \in Cookies
      /\ jar[r].login = seen[r].login
      /\ header[r] = jar[r]
  BY DEF SessionInv, CallHolds, InFlight, Receive
<1>2. cookies.login = jar[r].login
  BY <1>1 DEF Receive
<1>3. jar[r].login \in Logins
  BY <1>1 DEF Cookies
<1>4. issued \in [Logins -> 0..MaxVersions]
  BY DEF SessionInv, TypeOK
<1>5. issued' \in [Logins -> 0..MaxVersions]
  BY <1>1, <1>3, <1>4 DEF Receive
<1>6. clientJar \in [Processes -> Cookies \cup {None, Anonymous}]
  BY DEF SessionInv, TypeOK
<1>7. clientJar' \in [Processes -> Cookies \cup {None, Anonymous}]
  BY <1>6 DEF Receive
<1>8. QED
  BY <1>1, <1>2, <1>5, <1>7

LEMMA BootstrapKeeps ==
    ASSUME SessionInv, NEW p \in Processes, Bootstrap(p)
    PROVE  SessionInv'
<1>1. logins' \in Logins /\ logins' \in 0..MaxLogins
  BY DEF SessionInv, TypeOK, Bootstrap, Logins
<1>2. pending' \subseteq [by : Processes, login : Logins]
  BY <1>1 DEF SessionInv, TypeOK, Bootstrap
<1>3. issued' \in [Logins -> 0..MaxVersions]
  BY <1>1 DEF SessionInv, TypeOK, Bootstrap
<1>4. TypeOK'
  BY <1>1, <1>2, <1>3 DEF SessionInv, TypeOK, Bootstrap, wire
<1>5. CookiesOfTheirLogin'
  BY DEF SessionInv, CookiesOfTheirLogin, Bootstrap
<1>6. \A r \in Requests : CallHolds(r)'
  BY DEF SessionInv, CallHolds, InFlight, Bootstrap, wire
<1>7. QED
  BY <1>4, <1>5, <1>6 DEF SessionInv

LEMMA SaveLoginKeeps ==
    ASSUME SessionInv, NEW s \in pending, SaveLogin(s)
    PROVE  SessionInv'
<1>1. s \in [by : Processes, login : Logins]
  BY DEF SessionInv, TypeOK
<1>2. store' \in Session
  BY <1>1 DEF SaveLogin, Session, Cookies
<1>3. TypeOK'
  BY <1>2 DEF SessionInv, TypeOK, SaveLogin, wire
<1>4. CookiesOfTheirLogin'
  BY DEF CookiesOfTheirLogin, SaveLogin
<1>5. \A r \in Requests : CallHolds(r)'
  BY DEF SessionInv, CallHolds, InFlight, SaveLogin, wire
<1>6. QED
  BY <1>3, <1>4, <1>5 DEF SessionInv

LEMMA LogoutKeeps ==
    ASSUME SessionInv, NEW p \in Processes, Logout(p)
    PROVE  SessionInv'
<1>1. TypeOK'
  BY DEF SessionInv, TypeOK, Logout, wire, loginVars
<1>2. CookiesOfTheirLogin'
  BY DEF CookiesOfTheirLogin, Logout
<1>3. \A r \in Requests : CallHolds(r)'
  BY DEF SessionInv, CallHolds, InFlight, Logout, wire
<1>4. QED
  BY <1>1, <1>2, <1>3 DEF SessionInv

LEMMA SendKeeps ==
    ASSUME SessionInv, NEW r \in Requests, Send(r)
    PROVE  SessionInv'
<1>1. store.cookies \in Cookies
  BY DEF SessionInv, TypeOK, Send, Session
<1>2. attempts' \in [Requests -> 0..MaxAttempts]
  BY DEF SessionInv, TypeOK, Send, MaySend
<1>3. /\ seen' \in [Requests -> Cookies \cup {None}]
      /\ jar' \in [Requests -> Cookies \cup {None}]
      /\ header' \in [Requests -> Cookies \cup {None}]
  BY <1>1 DEF SessionInv, TypeOK, Send, CookieHeader
<1>4. hops' \in [Requests -> 0..MaxHops] /\ redirect' \in [Requests -> BOOLEAN]
  BY DEF SessionInv, TypeOK, Send
<1>5. pc' \in [Requests -> {"idle", "sent", "lost", "saving"} \cup Ended]
  BY DEF SessionInv, TypeOK, Send
<1>6. TypeOK'
  BY <1>2, <1>3, <1>4, <1>5 DEF SessionInv, TypeOK, Send, loginVars
<1>7. CookiesOfTheirLogin'
  BY DEF SessionInv, CookiesOfTheirLogin, Send
<1>8. ASSUME NEW q \in Requests PROVE CallHolds(q)'
  <2>1. CASE q = r
    BY <1>1, <2>1 DEF SessionInv, TypeOK, CallHolds, InFlight, Send, CookieHeader
  <2>2. CASE q # r
    BY <2>2 DEF SessionInv, TypeOK, CallHolds, InFlight, Send
  <2>3. QED
    BY <2>1, <2>2
<1>9. QED
  BY <1>6, <1>7, <1>8 DEF SessionInv

\* The steps that end an attempt, and leave the cookies and the store alone.
LEMMA EndKeeps ==
    ASSUME SessionInv, NEW r \in Requests,
           NoSession(r) \/ Bounce(r) \/ LoseConnection(r)
    PROVE  SessionInv'
<1>1. /\ UNCHANGED <<store, pending, logins, issued, attempts, seen, jar,
                     header, hops, loaded>>
      /\ \E l \in {"denied", "lost"} : pc' = [pc EXCEPT ![r] = l]
  BY DEF NoSession, Bounce, LoseConnection, loginVars, wire
<1>2. clientJar' \in [Processes -> Cookies \cup {None, Anonymous}]
  BY DEF SessionInv, TypeOK, NoSession, Bounce, LoseConnection
<1>3. redirect' \in [Requests -> BOOLEAN]
  BY DEF SessionInv, TypeOK, NoSession, Bounce, LoseConnection
<1>4. pc' \in [Requests -> {"idle", "sent", "lost", "saving"} \cup Ended]
  BY <1>1 DEF SessionInv, TypeOK, Ended
<1>5. TypeOK'
  BY <1>1, <1>2, <1>3, <1>4 DEF SessionInv, TypeOK
<1>6. CookiesOfTheirLogin'
  BY <1>1 DEF SessionInv, CookiesOfTheirLogin
<1>7. \A q \in Requests : CallHolds(q)'
  BY <1>1 DEF SessionInv, TypeOK, CallHolds, InFlight
<1>8. QED
  BY <1>5, <1>6, <1>7 DEF SessionInv

LEMMA HopKeeps ==
    ASSUME SessionInv, NEW r \in Requests, NEW cookies \in Cookies,
           Hop(r, cookies)
    PROVE  SessionInv'
<1>1. Receive(r, cookies)
  BY DEF Hop
<1>2. /\ seen[r] \in Cookies
      /\ cookies.login = seen[r].login
      /\ issued' \in [Logins -> 0..MaxVersions]
      /\ clientJar' \in [Processes -> Cookies \cup {None, Anonymous}]
  BY <1>1, ReceivedCookies
<1>3. hops' \in [Requests -> 0..MaxHops]
  BY DEF SessionInv, TypeOK, Hop
<1>4. /\ jar' \in [Requests -> Cookies \cup {None}]
      /\ header' \in [Requests -> Cookies \cup {None}]
      /\ redirect' \in [Requests -> BOOLEAN]
  BY DEF SessionInv, TypeOK, Hop, CookieHeader
<1>5. TypeOK'
  BY <1>2, <1>3, <1>4 DEF SessionInv, TypeOK, Hop, loginVars
<1>6. CookiesOfTheirLogin'
  BY DEF SessionInv, CookiesOfTheirLogin, Hop
<1>7. ASSUME NEW q \in Requests PROVE CallHolds(q)'
  <2>1. CASE q = r
    BY <1>1, <1>2, <2>1
    DEF SessionInv, TypeOK, CallHolds, InFlight, Hop, CookieHeader, Receive
  <2>2. CASE q # r
    BY <2>2 DEF SessionInv, TypeOK, CallHolds, InFlight, Hop
  <2>3. QED
    BY <2>1, <2>2
<1>8. QED
  BY <1>5, <1>6, <1>7 DEF SessionInv

LEMMA ExceedKeeps ==
    ASSUME SessionInv, NEW r \in Requests, NEW cookies \in Cookies,
           ExceedHops(r, cookies)
    PROVE  SessionInv'
<1>1. Receive(r, cookies)
  BY DEF ExceedHops
<1>2. /\ issued' \in [Logins -> 0..MaxVersions]
      /\ clientJar' \in [Processes -> Cookies \cup {None, Anonymous}]
  BY <1>1, ReceivedCookies
<1>3. redirect' \in [Requests -> BOOLEAN]
  BY DEF SessionInv, TypeOK, ExceedHops
<1>4. pc' \in [Requests -> {"idle", "sent", "lost", "saving"} \cup Ended]
  BY DEF SessionInv, TypeOK, ExceedHops, Ended
<1>5. TypeOK'
  BY <1>2, <1>3, <1>4 DEF SessionInv, TypeOK, ExceedHops, loginVars, wire
<1>6. CookiesOfTheirLogin'
  BY DEF SessionInv, CookiesOfTheirLogin, ExceedHops
<1>7. \A q \in Requests : CallHolds(q)'
  BY DEF SessionInv, TypeOK, CallHolds, InFlight, ExceedHops, wire
<1>8. QED
  BY <1>5, <1>6, <1>7 DEF SessionInv

LEMMA AnswerKeeps ==
    ASSUME SessionInv, NEW r \in Requests, NEW cookies \in Cookies,
           Answer(r, cookies)
    PROVE  SessionInv'
<1>1. Receive(r, cookies)
  BY DEF Answer
<1>2. /\ seen[r] \in Cookies
      /\ cookies.login = seen[r].login
      /\ issued' \in [Logins -> 0..MaxVersions]
      /\ clientJar' \in [Processes -> Cookies \cup {None, Anonymous}]
  BY <1>1, ReceivedCookies
<1>3. pc' \in [Requests -> {"idle", "sent", "lost", "saving"} \cup Ended]
  BY DEF SessionInv, TypeOK, Answer, Ended
<1>4. StillHeld(r) => /\ store.established \in Logins
                      /\ store.established = seen[r].login
  BY DEF SessionInv, TypeOK, StillHeld, Session, CookiesOfTheirLogin
<1>5. loaded' \in [Requests -> 0..MaxLogins]
  <2>1. loaded \in [Requests -> 0..MaxLogins]
    BY DEF SessionInv, TypeOK
  <2>2. StillHeld(r) => store.established \in 0..MaxLogins
    BY <1>4 DEF Logins
  <2>3. \/ /\ StillHeld(r)
           /\ loaded' = [loaded EXCEPT ![r] = store.established]
        \/ loaded' = loaded
    BY DEF Answer
  <2>4. QED
    BY <2>1, <2>2, <2>3
<1>6. /\ jar' \in [Requests -> Cookies \cup {None}]
      /\ redirect' \in [Requests -> BOOLEAN]
  BY DEF SessionInv, TypeOK, Answer
<1>7. TypeOK'
  BY <1>2, <1>3, <1>5, <1>6 DEF SessionInv, TypeOK, Answer, loginVars, wire
<1>8. CookiesOfTheirLogin'
  BY DEF SessionInv, CookiesOfTheirLogin, Answer
<1>9. ASSUME NEW q \in Requests PROVE CallHolds(q)'
  <2>1. CASE q = r
    <3>1. pc'[r] \in {"saving", "answered"} /\ jar'[r] = cookies /\ seen'[r] = seen[r]
      BY DEF SessionInv, TypeOK, Answer, wire
    <3>2. pc'[r] = "saving" => StillHeld(r) /\ loaded'[r] = store.established
      BY DEF SessionInv, TypeOK, Answer
    <3>3. pc'[r] = "saving" => loaded'[r] = cookies.login
      BY <1>2, <1>4, <3>2
    <3>4. QED
      BY <1>2, <2>1, <3>1, <3>3 DEF CallHolds, InFlight
  <2>2. CASE q # r
    <3>1. /\ pc'[q] = pc[q] /\ jar'[q] = jar[q] /\ loaded'[q] = loaded[q]
          /\ seen'[q] = seen[q] /\ header'[q] = header[q]
      BY <2>2 DEF SessionInv, TypeOK, Answer, wire
    <3>2. QED
      BY <3>1 DEF SessionInv, CallHolds, InFlight
  <2>3. QED
    BY <2>1, <2>2
<1>10. QED
  BY <1>7, <1>8, <1>9 DEF SessionInv

LEMMA SaveRotationKeeps ==
    ASSUME SessionInv, NEW r \in Requests, SaveRotation(r)
    PROVE  SessionInv'
<1>1. jar[r] \in Cookies /\ loaded[r] = jar[r].login
  BY DEF SessionInv, CallHolds, InFlight, SaveRotation
<1>2. loaded[r] \in Logins
  BY <1>1 DEF Cookies
<1>3. store' \in Session \cup {None}
  BY <1>1, <1>2 DEF SessionInv, TypeOK, SaveRotation, Session
<1>4. pc' \in [Requests -> {"idle", "sent", "lost", "saving"} \cup Ended]
  BY DEF SessionInv, TypeOK, SaveRotation, Ended
<1>5. TypeOK'
  BY <1>3, <1>4 DEF SessionInv, TypeOK, SaveRotation, loginVars, wire
<1>6. CookiesOfTheirLogin'
  BY <1>1 DEF SessionInv, CookiesOfTheirLogin, SaveRotation
<1>7. \A q \in Requests : CallHolds(q)'
  BY DEF SessionInv, TypeOK, CallHolds, InFlight, SaveRotation, wire
<1>8. QED
  BY <1>5, <1>6, <1>7 DEF SessionInv

LEMMA StepKeepsSession == SessionInv /\ [Next]_vars => SessionInv'
<1> SUFFICES ASSUME SessionInv, [Next]_vars PROVE SessionInv'
  OBVIOUS
<1>1. ASSUME NEW p \in Processes, User(p) PROVE SessionInv'
  BY <1>1, BootstrapKeeps, LogoutKeeps DEF User
<1>2. ASSUME NEW s \in pending, SaveLogin(s) PROVE SessionInv'
  BY <1>2, SaveLoginKeeps
<1>3. ASSUME NEW r \in Requests, Call(r) PROVE SessionInv'
  <2>1. CASE Send(r)
    BY <2>1, SendKeeps
  <2>2. CASE NoSession(r) \/ Bounce(r) \/ LoseConnection(r)
    BY <2>2, EndKeeps
  <2>3. CASE Respond(r)
    BY <2>3, HopKeeps, ExceedKeeps, AnswerKeeps DEF Respond
  <2>4. CASE SaveRotation(r)
    BY <2>4, SaveRotationKeeps
  <2>5. QED
    BY <1>3, <2>1, <2>2, <2>3, <2>4 DEF Call
<1>4. CASE UNCHANGED vars
  BY <1>4 DEF vars, SessionInv, TypeOK, CookiesOfTheirLogin, CallHolds, InFlight
<1>5. QED
  BY <1>1, <1>2, <1>3, <1>4 DEF Next

THEOREM SessionInvariant == Spec => []SessionInv
BY InitSession, StepKeepsSession, PTL DEF Spec

\* Every variable keeps its type.
THEOREM TypeCorrect == Spec => []TypeOK
<1>1. SessionInv => TypeOK
  BY DEF SessionInv
<1>2. QED
  BY <1>1, SessionInvariant, PTL

\* However many processes race, the stored cookies are those of the login
\* that is stored as their date (rotated).
THEOREM StoredCookiesMatch == Spec => []CookiesOfTheirLogin
<1>1. SessionInv => CookiesOfTheirLogin
  BY DEF SessionInv
<1>2. QED
  BY <1>1, SessionInvariant, PTL

\* Every request on the wire carries the session its call read from the
\* store, and the newest cookies of it (async_auth_flow).
THEOREM WireCarries == Spec => []WireCarriesSession
<1>1. SessionInv => WireCarriesSession
  BY DEF SessionInv, CallHolds, InFlight, WireCarriesSession
<1>2. QED
  BY <1>1, SessionInvariant, PTL

-----------------------------------------------------------------------------
(* One process: all calls, logins and logouts run on one event loop.       *)

Alone == \A p, q \in Processes : p = q

\* Who saves is alone and found the store as its call had read it.
LoopInv ==
    \A r \in Requests : pc[r] = "saving" =>
        /\ StillHeld(r)
        /\ loaded[r] = store.established
        /\ \A q \in Requests : pc[q] = "saving" => q = r

\* A step that waits for the event loop finds nobody saving.
LEMMA FreeIsQuiet ==
    ASSUME Alone, NEW p \in Processes, Free(p), NEW r \in Requests
    PROVE  pc[r] # "saving"
<1>1. ClientOf[r] = p
  BY DEF Alone
<1>2. QED
  BY <1>1 DEF Free

\* A step that is not a rotation's save starts with nobody saving.
LEMMA OthersWait ==
    ASSUME SessionInv, Alone, Next, NEW r \in Requests, pc[r] = "saving"
    PROVE  \E q \in Requests : SaveRotation(q)
<1>1. ASSUME NEW p \in Processes, User(p) PROVE FALSE
  <2>1. Free(p)
    BY <1>1 DEF User, Bootstrap, Logout
  <2>2. QED
    BY <2>1, FreeIsQuiet
<1>2. ASSUME NEW s \in pending, SaveLogin(s) PROVE FALSE
  <2>1. s.by \in Processes
    BY DEF SessionInv, TypeOK
  <2>2. Free(s.by)
    BY <1>2 DEF SaveLogin
  <2>3. QED
    BY <2>1, <2>2, FreeIsQuiet
<1>3. ASSUME NEW q \in Requests, Call(q), ~SaveRotation(q) PROVE FALSE
  <2>1. Free(ClientOf[q])
    BY <1>3 DEF Call, Respond, Send, NoSession, MaySend, Hop, ExceedHops, Answer,
                Receive, Bounce, LoseConnection
  <2>2. ClientOf[q] \in Processes
    OBVIOUS
  <2>3. QED
    BY <2>1, <2>2, FreeIsQuiet
<1>4. QED
  BY <1>1, <1>2, <1>3 DEF Next

\* Of all steps only an answer makes a call start to save.
LEMMA WhoStartsSaving ==
    ASSUME SessionInv, Next, NEW r \in Requests,
           pc'[r] = "saving", pc[r] # "saving"
    PROVE  \E cookies \in Cookies : Answer(r, cookies)
<1>1. pc \in [Requests -> {"idle", "sent", "lost", "saving"} \cup Ended]
  BY DEF SessionInv, TypeOK
<1>2. ASSUME NEW p \in Processes, User(p) PROVE FALSE
  BY <1>2 DEF User, Bootstrap, Logout
<1>3. ASSUME NEW s \in pending, SaveLogin(s) PROVE FALSE
  BY <1>3 DEF SaveLogin
<1>4. ASSUME NEW q \in Requests, Call(q)
      PROVE  \E cookies \in Cookies : Answer(r, cookies)
  <2>1. ASSUME Send(q) \/ NoSession(q) \/ Bounce(q) \/ LoseConnection(q)
               \/ SaveRotation(q)
        PROVE  FALSE
    BY <1>1, <2>1 DEF Send, NoSession, Bounce, LoseConnection, SaveRotation
  <2>2. ASSUME NEW cookies \in Cookies, Hop(q, cookies) \/ ExceedHops(q, cookies)
        PROVE  FALSE
    BY <1>1, <2>2 DEF Hop, ExceedHops
  <2>3. ASSUME NEW cookies \in Cookies, Answer(q, cookies) PROVE q = r
    BY <1>1, <2>3 DEF Answer
  <2>4. QED
    BY <1>4, <2>1, <2>2, <2>3 DEF Call, Respond
<1>5. QED
  BY <1>2, <1>3, <1>4 DEF Next

LEMMA StepKeepsLoop ==
    ASSUME SessionInv, Alone, LoopInv, [Next]_vars
    PROVE  LoopInv'
<1>1. ASSUME Next, NEW r \in Requests, pc[r] = "saving", NEW q \in Requests
      PROVE  pc'[q] # "saving"
  <2>1. PICK s \in Requests : SaveRotation(s)
    BY <1>1, OthersWait
  <2>2. s = r /\ (pc[q] = "saving" => q = r)
    BY <1>1, <2>1 DEF LoopInv, SaveRotation
  <2>3. QED
    BY <2>1, <2>2 DEF SaveRotation, SessionInv, TypeOK
<1>2. ASSUME Next, NEW r \in Requests, pc'[r] = "saving", pc[r] # "saving"
      PROVE  /\ StillHeld(r)'
             /\ loaded'[r] = store'.established
             /\ \A q \in Requests : pc'[q] = "saving" => pc[q] = "saving" \/ q = r
  <2>1. PICK cookies \in Cookies : Answer(r, cookies)
    BY <1>2, WhoStartsSaving
  <2>2. StillHeld(r) /\ loaded'[r] = store.established
    BY <1>2, <2>1 DEF Answer, SessionInv, TypeOK
  <2>3. store' = store /\ seen' = seen
    BY <2>1 DEF Answer, wire
  <2>4. \A q \in Requests : q # r => pc'[q] = pc[q]
    BY <2>1 DEF Answer, SessionInv, TypeOK
  <2>5. QED
    BY <2>2, <2>3, <2>4 DEF StillHeld
<1>3. CASE Next
  BY <1>1, <1>2, <1>3 DEF LoopInv
<1>4. CASE UNCHANGED vars
  BY <1>4 DEF vars, LoopInv, StillHeld
<1>5. QED
  BY <1>3, <1>4

LEMMA InitLoop == Init => LoopInv
BY DEF Init, LoopInv

\* What a save finds and leaves.
LEMMA SaveKeepsSession ==
    ASSUME SessionInv, Alone, LoopInv, Next, NEW r \in Requests,
           pc[r] = "saving", pc'[r] = "answered"
    PROVE  /\ StillHeld(r)
           /\ store' = [cookies |-> jar[r], established |-> store.established]
<1>1. PICK s \in Requests : SaveRotation(s)
  BY OthersWait
<1>2. s = r
  BY <1>1 DEF LoopInv, SaveRotation
<1>3. pc'[r] # "failed"
  OBVIOUS
<1>4. store' = [cookies |-> jar[r], established |-> loaded[r]]
  BY <1>1, <1>2, <1>3 DEF SaveRotation, SessionInv, TypeOK
<1>5. QED
  BY <1>4 DEF LoopInv

\* In one process a rotation is a compare-and-save: it writes only over the
\* session its call started from (rotated).
THEOREM RotationIsCompareAndSave ==
    ASSUME Alone
    PROVE  Spec => RotationKeepsSession
<1>1. SessionInv /\ LoopInv /\ [Next]_vars =>
        [\A r \in Requests :
           (pc[r] = "saving" /\ pc'[r] = "answered") =>
               /\ store # None
               /\ store.cookies = seen[r]
               /\ store'.established = store.established]_vars
  <2> SUFFICES ASSUME SessionInv, LoopInv, Next, NEW r \in Requests,
                      pc[r] = "saving", pc'[r] = "answered"
               PROVE  /\ store # None
                      /\ store.cookies = seen[r]
                      /\ store'.established = store.established
    OBVIOUS
  <2>1. QED
    BY SaveKeepsSession DEF StillHeld
<1>2. LoopInv /\ SessionInv /\ [Next]_vars => LoopInv'
  BY StepKeepsLoop
<1>3. QED
  BY <1>1, <1>2, InitLoop, SessionInvariant, PTL DEF Spec, RotationKeepsSession

-----------------------------------------------------------------------------
(* The stored cookies only advance.                                        *)

\* A call's cookies are at least as new as those it started from, and the
\* APM's counter is ahead of every set that is stored or held.
CallVersions(r) ==
    InFlight(r) => /\ jar[r].login <= logins
                   /\ seen[r].version <= jar[r].version
                   /\ jar[r].version <= issued[jar[r].login]

StoreVersions ==
    store # None => /\ store.established <= logins
                    /\ store.cookies.version <= issued[store.established]

\* A session that waits to be saved was never stored.
Unsaved ==
    \A s \in pending :
        /\ s.login <= logins
        /\ issued[s.login] >= 1
        /\ store # None => store.established # s.login
        /\ \A t \in pending : t.login = s.login => t = s

VersionInv ==
    /\ \A n \in Logins : n > logins => issued[n] = 0
    /\ StoreVersions
    /\ Unsaved
    /\ \A r \in Requests : CallVersions(r)

LEMMA InitVersions == Init => VersionInv
BY DEF Init, VersionInv, StoreVersions, Unsaved, CallVersions, InFlight

\* The APM's counters only grow.
LEMMA CountersGrow ==
    ASSUME SessionInv, VersionInv, [Next]_vars
    PROVE  /\ \A n \in Logins : issued[n] \in Nat /\ issued'[n] \in Nat
           /\ \A n \in Logins : issued[n] <= issued'[n]
           /\ logins \in Nat /\ logins' \in Nat /\ logins <= logins'
           /\ \A n \in Logins : n > logins' => issued'[n] = 0
<1>1. issued \in [Logins -> 0..MaxVersions] /\ logins \in 0..MaxLogins
  BY DEF SessionInv, TypeOK
<1>2. issued' \in [Logins -> 0..MaxVersions] /\ logins' \in 0..MaxLogins
  BY StepKeepsSession DEF SessionInv, TypeOK
<1>3. \A n \in Logins : n > logins => issued[n] = 0
  BY DEF VersionInv
<1>4. ASSUME NEW p \in Processes, Bootstrap(p)
      PROVE  /\ logins <= logins'
             /\ \A n \in Logins : issued[n] <= issued'[n]
             /\ \A n \in Logins : n > logins' => issued'[n] = 0
  <2>1. logins' = logins + 1 /\ issued' = [issued EXCEPT ![logins + 1] = 1]
    BY <1>4 DEF Bootstrap
  <2>2. logins + 1 \in Logins => issued[logins + 1] = 0
    BY <1>1, <1>3
  <2>3. \A n \in Logins : n # logins + 1 => issued'[n] = issued[n]
    BY <1>1, <2>1
  <2>4. \A n \in Logins : issued[n] \in Nat
    BY <1>1
  <2>5. logins + 1 \in Logins => issued'[logins + 1] = 1
    BY <1>1, <2>1
  <2>6. \A n \in Logins : issued[n] <= issued'[n]
    BY <2>2, <2>3, <2>4, <2>5
  <2>7. \A n \in Logins : n > logins + 1 => issued'[n] = 0
    BY <1>1, <1>3, <2>3 DEF Logins
  <2>8. QED
    BY <1>1, <2>1, <2>6, <2>7
<1>5. ASSUME NEW r \in Requests, NEW cookies \in Cookies, Receive(r, cookies),
             logins' = logins
      PROVE  /\ \A n \in Logins : issued[n] <= issued'[n]
             /\ \A n \in Logins : n > logins => issued'[n] = 0
  <2>1. header[r] = jar[r] /\ jar[r] \in Cookies
    BY <1>5, ReceivedCookies
  <2>2. jar[r].login \in Logins /\ jar[r].login <= logins
    BY <1>5, <2>1 DEF VersionInv, CallVersions, InFlight, Receive, Cookies
  <2>3. \/ issued' = issued
        \/ issued' = [issued EXCEPT ![jar[r].login] = @ + 1]
    BY <1>5, <2>1 DEF Receive
  <2>4. \A n \in Logins : issued[n] <= issued'[n]
    BY <1>1, <2>2, <2>3
  <2>5. \A n \in Logins : n > logins => issued'[n] = issued[n]
    BY <1>1, <2>2, <2>3 DEF Logins
  <2>6. QED
    BY <1>3, <2>4, <2>5
<1>6. \/ \E p \in Processes : Bootstrap(p)
      \/ \E r \in Requests, cookies \in Cookies :
             Receive(r, cookies) /\ logins' = logins
      \/ issued' = issued /\ logins' = logins
  BY DEF Next, User, Call, Respond, Logout, SaveLogin, Send, NoSession, Hop,
         ExceedHops, Answer, Bounce, LoseConnection, SaveRotation, loginVars, vars
<1>7. /\ logins <= logins'
      /\ \A n \in Logins : issued[n] <= issued'[n]
      /\ \A n \in Logins : n > logins' => issued'[n] = 0
  <2>1. CASE \E p \in Processes : Bootstrap(p)
    BY <1>4, <2>1
  <2>2. CASE \E r \in Requests, cookies \in Cookies :
                 Receive(r, cookies) /\ logins' = logins
    BY <1>1, <1>5, <2>2
  <2>3. CASE issued' = issued /\ logins' = logins
    BY <1>1, <1>3, <2>3
  <2>4. QED
    BY <1>6, <2>1, <2>2, <2>3
<1>8. QED
  BY <1>1, <1>2, <1>7

\* A call whose cookies a step leaves alone keeps its versions in order.
LEMMA CallKeepsVersions ==
    ASSUME SessionInv, VersionInv, [Next]_vars, NEW r \in Requests,
           InFlight(r)' => InFlight(r),
           seen'[r] = seen[r], jar'[r] = jar[r]
    PROVE  CallVersions(r)'
<1> SUFFICES ASSUME InFlight(r)' PROVE CallVersions(r)'
  BY DEF CallVersions
<1>1. jar[r] \in Cookies /\ seen[r] \in Cookies
  BY DEF SessionInv, CallHolds
<1>2. /\ jar[r].login \in Logins /\ jar[r].version \in Nat
      /\ seen[r].version \in Nat
  BY <1>1 DEF Cookies
<1>3. /\ jar[r].login <= logins
      /\ seen[r].version <= jar[r].version
      /\ jar[r].version <= issued[jar[r].login]
  BY DEF VersionInv, CallVersions
<1>4. jar[r].login <= logins' /\ jar[r].version <= issued'[jar[r].login]
  BY <1>2, <1>3, CountersGrow DEF Logins
<1>5. QED
  BY <1>3, <1>4 DEF CallVersions

LEMMA CallsKeepVersions ==
    ASSUME SessionInv, VersionInv, [Next]_vars, NEW r \in Requests
    PROVE  CallVersions(r)'
<1>1. CASE UNCHANGED vars
  BY <1>1, CallKeepsVersions DEF vars, InFlight
<1>2. ASSUME (\E p \in Processes : User(p)) \/ (\E s \in pending : SaveLogin(s))
      PROVE  CallVersions(r)'
  <2>1. pc' = pc /\ seen' = seen /\ jar' = jar
    BY <1>2 DEF User, Bootstrap, Logout, SaveLogin, wire
  <2>2. QED
    BY <2>1, CallKeepsVersions DEF InFlight
<1>3. ASSUME NEW q \in Requests, Call(q)
      PROVE  CallVersions(r)'
  <2>1. CASE Send(q) /\ q = r
    <3>1. jar'[r] = store.cookies /\ seen'[r] = store.cookies
      BY <2>1 DEF Send, SessionInv, TypeOK
    <3>2. store \in Session /\ store.cookies.login = store.established
      BY <2>1 DEF Send, SessionInv, TypeOK, CookiesOfTheirLogin
    <3>3. /\ store.established <= logins
          /\ store.cookies.version <= issued[store.established]
      BY <2>1 DEF Send, VersionInv, StoreVersions
    <3>4. logins' = logins /\ issued' = issued
      BY <2>1 DEF Send, loginVars
    <3>5. store.cookies.version <= store.cookies.version
      BY <3>2 DEF Session, Cookies
    <3>6. QED
      BY <3>1, <3>2, <3>3, <3>4, <3>5 DEF CallVersions
  <2>2. ASSUME NEW cookies \in Cookies,
               Hop(q, cookies) \/ Answer(q, cookies), q = r
        PROVE  CallVersions(r)'
    <3>1. Receive(r, cookies) /\ logins' = logins /\ seen' = seen
      BY <2>2 DEF Hop, Answer, loginVars, wire
    <3>2. jar'[r] = cookies
      BY <2>2 DEF Hop, Answer, SessionInv, TypeOK
    <3>3. /\ seen[r] \in Cookies /\ jar[r] \in Cookies /\ header[r] = jar[r]
          /\ cookies.login = jar[r].login
      BY <3>1, ReceivedCookies
    <3>4. /\ jar[r].login <= logins
          /\ seen[r].version <= jar[r].version
          /\ jar[r].version <= issued[jar[r].login]
      BY <3>1 DEF VersionInv, CallVersions, InFlight, Receive
    <3>5. /\ jar[r].login \in Logins /\ jar[r].version \in Nat
          /\ seen[r].version \in Nat /\ issued[jar[r].login] \in Nat
      BY <3>3 DEF SessionInv, TypeOK, Cookies
    <3>6. CASE cookies = jar[r] /\ issued' = issued
      BY <3>1, <3>2, <3>4, <3>6 DEF CallVersions
    <3>7. CASE /\ cookies.version = issued[jar[r].login] + 1
               /\ issued' = [issued EXCEPT ![jar[r].login] = @ + 1]
      <4>1. issued'[jar[r].login] = issued[jar[r].login] + 1
        BY <3>5, <3>7 DEF SessionInv, TypeOK
      <4>2. cookies.version <= issued'[cookies.login]
        BY <3>3, <3>5, <3>7, <4>1
      <4>3. seen[r].version <= cookies.version
        BY <3>4, <3>5, <3>7
      <4>4. QED
        BY <3>1, <3>2, <3>3, <3>4, <4>2, <4>3 DEF CallVersions
    <3>8. QED
      BY <3>1, <3>3, <3>6, <3>7 DEF Receive
  <2>3. CASE \/ q # r
             \/ NoSession(q) \/ Bounce(q) \/ LoseConnection(q) \/ SaveRotation(q)
             \/ \E cookies \in Cookies : ExceedHops(q, cookies)
    <3>1. seen'[r] = seen[r] /\ jar'[r] = jar[r]
      BY <1>3, <2>3 DEF Call, Respond, Send, NoSession, Hop, ExceedHops, Answer,
         Bounce, LoseConnection, SaveRotation, wire, SessionInv, TypeOK
    <3>2. InFlight(r)' => InFlight(r)
      BY <1>3, <2>3 DEF Call, Respond, Send, NoSession, Hop, ExceedHops, Answer,
         Bounce, LoseConnection, SaveRotation, InFlight, SessionInv, TypeOK
    <3>3. QED
      BY <3>1, <3>2, CallKeepsVersions
  <2>4. QED
    BY <1>3, <2>1, <2>2, <2>3 DEF Call, Respond
<1>4. QED
  BY <1>1, <1>2, <1>3 DEF Next

\* Who writes the store, or adds a session to be saved.
LEMMA WhoTouchesStore ==
    ASSUME SessionInv, [Next]_vars
    PROVE  \/ store' = store /\ pending' = pending
           \/ \E p \in Processes : Bootstrap(p) \/ Logout(p)
           \/ \E s \in pending : SaveLogin(s)
           \/ \E r \in Requests : pc[r] = "saving" /\ pc'[r] = "answered"
<1>1. ASSUME NEW r \in Requests, SaveRotation(r)
      PROVE  \/ store' = store /\ pending' = pending
             \/ pc[r] = "saving" /\ pc'[r] = "answered"
  BY <1>1 DEF SaveRotation, loginVars, SessionInv, TypeOK
<1>2. ASSUME NEW r \in Requests, Call(r), ~SaveRotation(r)
      PROVE  store' = store /\ pending' = pending
  BY <1>2 DEF Call, Respond, Send, NoSession, Hop, ExceedHops, Answer, Bounce,
              LoseConnection, loginVars
<1>3. CASE UNCHANGED vars
  BY <1>3 DEF vars
<1>4. QED
  BY <1>1, <1>2, <1>3 DEF Next, User

LEMMA StoreKeepsVersions ==
    ASSUME SessionInv, Alone, LoopInv, VersionInv, [Next]_vars
    PROVE  StoreVersions' /\ Unsaved'
<1> USE DEF Logins
<1>1. /\ \A n \in Logins : issued[n] \in Nat /\ issued'[n] \in Nat
      /\ \A n \in Logins : issued[n] <= issued'[n]
      /\ logins \in Nat /\ logins' \in Nat /\ logins <= logins'
  BY CountersGrow
<1>2. StoreVersions /\ Unsaved
  BY DEF VersionInv
<1>3. store # None => /\ store.established \in Logins
                      /\ store.cookies.version \in Nat
  BY DEF SessionInv, TypeOK, Session, Cookies
<1>4. \A s \in pending : s.login \in Logins
  BY DEF SessionInv, TypeOK
\* what the growing counters alone do not disturb
<1>5. store' = store => StoreVersions'
  BY <1>1, <1>2, <1>3 DEF StoreVersions
<1>6. \A s \in pending : s.login <= logins' /\ issued'[s.login] >= 1
  BY <1>1, <1>2, <1>4 DEF Unsaved
<1>7. CASE store' = store /\ pending' = pending
  BY <1>2, <1>5, <1>6, <1>7 DEF Unsaved
<1>8. ASSUME NEW p \in Processes, Bootstrap(p) PROVE StoreVersions' /\ Unsaved'
  <2>1. /\ store' = store
        /\ logins' = logins + 1
        /\ pending' = pending \cup {[by |-> p, login |-> logins + 1]}
    BY <1>8 DEF Bootstrap
  <2>2. logins + 1 \in Logins /\ issued'[logins + 1] = 1
    BY <1>8 DEF Bootstrap, SessionInv, TypeOK
  <2>3. \A s \in pending : s.login # logins + 1
    BY <1>1, <1>2, <1>4 DEF Unsaved
  <2>4. store # None => store.established # logins + 1
    BY <1>1, <1>2, <1>3 DEF StoreVersions
  <2>5. \A s \in pending' : s.login <= logins' /\ issued'[s.login] >= 1
    BY <1>6, <2>1, <2>2
  <2>6. \A s \in pending' : store' # None => store'.established # s.login
    BY <1>2, <2>1, <2>4 DEF Unsaved
  <2>7. \A s, t \in pending' : t.login = s.login => t = s
    BY <1>2, <2>1, <2>3 DEF Unsaved
  <2>8. QED
    BY <1>5, <2>1, <2>5, <2>6, <2>7 DEF Unsaved
<1>9. ASSUME NEW p \in Processes, Logout(p) PROVE StoreVersions' /\ Unsaved'
  <2>1. store' = None /\ pending' = pending
    BY <1>9 DEF Logout, loginVars
  <2>2. QED
    BY <1>2, <1>6, <2>1 DEF StoreVersions, Unsaved
<1>10. ASSUME NEW s \in pending, SaveLogin(s) PROVE StoreVersions' /\ Unsaved'
  <2>1. /\ store'.established = s.login
        /\ store'.cookies.version = 1
        /\ pending' = pending \ {s}
    BY <1>10 DEF SaveLogin
  <2>2. s.login <= logins' /\ issued'[s.login] >= 1
    BY <1>6
  <2>3. StoreVersions'
    BY <1>1, <1>4, <2>1, <2>2 DEF StoreVersions
  <2>4. \A t \in pending' : t.login # s.login
    BY <1>2, <2>1 DEF Unsaved
  <2>5. QED
    BY <1>2, <1>6, <2>1, <2>3, <2>4 DEF Unsaved
<1>11. ASSUME Next, NEW r \in Requests, pc[r] = "saving", pc'[r] = "answered"
       PROVE  StoreVersions' /\ Unsaved'
  <2>1. /\ store # None
        /\ store' = [cookies |-> jar[r], established |-> store.established]
    BY <1>11, SaveKeepsSession DEF StillHeld
  <2>2. PICK q \in Requests : SaveRotation(q)
    BY <1>11, OthersWait
  <2>3. pending' = pending /\ issued' = issued /\ logins' = logins
    BY <2>2 DEF SaveRotation, loginVars
  <2>4. jar[r].version <= issued[jar[r].login] /\ jar[r].login = store.established
    BY <1>11 DEF SessionInv, CallHolds, LoopInv, VersionInv, CallVersions, InFlight
  <2>5. StoreVersions'
    BY <1>2, <2>1, <2>3, <2>4 DEF StoreVersions
  <2>6. QED
    BY <1>2, <1>6, <2>1, <2>3, <2>5 DEF Unsaved
<1>12. (\E r \in Requests : pc[r] = "saving" /\ pc'[r] = "answered") => Next
  BY DEF vars
<1>13. QED
  BY <1>7, <1>8, <1>9, <1>10, <1>11, <1>12, WhoTouchesStore

LEMMA StepKeepsVersions ==
    ASSUME SessionInv, Alone, LoopInv, VersionInv, [Next]_vars
    PROVE  VersionInv'
<1>1. \A n \in Logins : n > logins' => issued'[n] = 0
  BY CountersGrow
<1>2. \A r \in Requests : CallVersions(r)'
  BY CallsKeepVersions
<1>3. QED
  BY <1>1, <1>2, StoreKeepsVersions DEF VersionInv

\* In one process the stored cookies of a session never go back to an older
\* set, whichever calls rotate them at once (rotated).
THEOREM StoreOnlyAdvances ==
    ASSUME Alone
    PROVE  Spec => StoreAdvances
<1>1. SessionInv /\ LoopInv /\ VersionInv /\ [Next]_vars =>
        [(/\ store # None
          /\ store' # None
          /\ store'.established = store.established)
             => store'.cookies.version >= store.cookies.version]_vars
  <2> SUFFICES ASSUME SessionInv, LoopInv, VersionInv, Next,
                      store # None, store' # None,
                      store'.established = store.established
               PROVE  store'.cookies.version >= store.cookies.version
    OBVIOUS
  <2>1. store.cookies.version \in Nat
    BY DEF SessionInv, TypeOK, Session, Cookies
  <2>2. CASE store' = store
    BY <2>1, <2>2
  <2>3. ASSUME NEW p \in Processes, Bootstrap(p) \/ Logout(p)
        PROVE  store' = store
    BY <2>3 DEF Bootstrap, Logout
  <2>4. ASSUME NEW s \in pending, SaveLogin(s) PROVE FALSE
    <3>1. store'.established = s.login
      BY <2>4 DEF SaveLogin
    <3>2. QED
      BY <3>1 DEF VersionInv, Unsaved
  <2>5. ASSUME NEW r \in Requests, pc[r] = "saving", pc'[r] = "answered"
        PROVE  store'.cookies.version >= store.cookies.version
    <3>1. store.cookies = seen[r] /\ store'.cookies = jar[r]
      BY <2>5, SaveKeepsSession DEF StillHeld
    <3>2. seen[r].version <= jar[r].version /\ jar[r] \in Cookies
      BY <2>5 DEF VersionInv, CallVersions, SessionInv, CallHolds, InFlight
    <3>3. jar[r].version \in Nat
      BY <3>2 DEF Cookies
    <3>4. QED
      BY <2>1, <3>1, <3>2, <3>3
  <2>6. QED
    BY <2>2, <2>3, <2>4, <2>5, WhoTouchesStore
<1>2. SessionInv /\ LoopInv /\ [Next]_vars => LoopInv'
  BY StepKeepsLoop
<1>3. SessionInv /\ LoopInv /\ VersionInv /\ [Next]_vars => VersionInv'
  BY StepKeepsVersions
<1>4. QED
  BY <1>1, <1>2, <1>3, InitLoop, InitVersions, SessionInvariant, PTL
  DEF Spec, StoreAdvances
=============================================================================
