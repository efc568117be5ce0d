----------------------------- MODULE SpvSession -----------------------------
(***************************************************************************)
(* The SPV cookie session: SpvSessionProvider reads and saves the APM      *)
(* cookie set, SpvAuth attaches it to every request, follows revalidation  *)
(* hops and hands a rotated set back (spv/auth.py); a login replaces the   *)
(* set, a logout removes it (cli/main.py, mcp/spv/tools.py).               *)
(*                                                                         *)
(* Several processes share the session file.  A process runs one event     *)
(* loop, so its code between two awaits is one step, with one exception:   *)
(* rotated() loads the file and saves it in two steps, because another     *)
(* process may write in between.  The provider's lock is never held over   *)
(* an await, so it has no state here.                                      *)
(*                                                                         *)
(* A cookie set is the login it was minted by and its version.             *)
(***************************************************************************)
EXTENDS Naturals

CONSTANTS
    Processes,      \* processes, each with one long-lived SpvClient
    Requests,       \* SPV calls; each is made at most once, with its retries
    ClientOf,       \* the process that makes a call
    None,           \* no session, no cookies
    MaxHops,        \* _MAX_REDIRECT_HOPS
    MaxAttempts,    \* stop_after_attempt of _get_retrying
    MaxLogins,      \* bound: certificate handshakes
    MaxVersions     \* bound: cookie sets the APM issues to one session

ASSUME ClientOfType == ClientOf \in [Requests -> Processes]
ASSUME BoundsType ==
    /\ MaxHops \in Nat
    /\ MaxAttempts \in Nat
    /\ MaxLogins \in Nat
    /\ MaxVersions \in Nat \ {0}

Logins == 1..MaxLogins
Cookies == [login : Logins, version : 1..MaxVersions]

\* The cookie the login wall sets: it opens no session.
Anonymous == [login |-> 0, version |-> 1]

Session == [cookies : Cookies, established : Logins]

ASSUME NoneDiffers == None \notin Session \cup Cookies \cup {Anonymous}

VARIABLES
    store,      \* the session file
    pending,    \* sessions bootstrapped by a process and not saved yet
    logins,     \* how many handshakes succeeded
    issued,     \* the last version the APM issued to a session
    clientJar,  \* what a process's http client remembers of Set-Cookie
    pc,         \* where each call is
    attempts,   \* how often it was sent
    seen,       \* the cookies it started from (initial)
    jar,        \* the cookies it has now
    header,     \* the Cookie header it is on the wire with
    hops,       \* the redirects it followed
    redirect,   \* whether its last response was a redirect
    loaded      \* established_at of the session rotated() loaded

vars == <<store, pending, logins, issued, clientJar, pc, attempts, seen, jar,
          header, hops, redirect, loaded>>
loginVars == <<pending, logins>>
wire == <<attempts, seen, header, hops>>

Init ==
    /\ store = None
    /\ pending = {}
    /\ logins = 0
    /\ issued = [n \in Logins |-> 0]
    /\ clientJar = [p \in Processes |-> None]
    /\ pc = [r \in Requests |-> "idle"]
    /\ attempts = [r \in Requests |-> 0]
    /\ seen = [r \in Requests |-> None]
    /\ jar = [r \in Requests |-> None]
    /\ header = [r \in Requests |-> None]
    /\ hops = [r \in Requests |-> 0]
    /\ redirect = [r \in Requests |-> FALSE]
    /\ loaded = [r \in Requests |-> 0]

NeverBusy(p) == TRUE   \* mutant: the store's I/O moved to a thread

\* No step of p's event loop runs between rotated()'s load and its save.
Free(p) == \A r \in Requests : ClientOf[r] = p => pc[r] # "saving"

-----------------------------------------------------------------------------
(* Logins and logouts.                                                     *)

\* bootstrap() returned: the APM minted a session and its first cookies.
Bootstrap(p) ==
    /\ Free(p)
    /\ logins < MaxLogins
    /\ logins' = logins + 1
    /\ issued' = [issued EXCEPT ![logins'] = 1]
    /\ pending' = pending \cup {[by |-> p, login |-> logins']}
    /\ UNCHANGED <<store, clientJar, pc, jar, redirect, loaded, wire>>

SaveLogin(s) ==
    /\ s \in pending
    /\ Free(s.by)
    /\ store' = [cookies |-> [login |-> s.login, version |-> 1],
                 established |-> s.login]
    /\ pending' = pending \ {s}
    /\ UNCHANGED <<logins, issued, clientJar, pc, jar, redirect, loaded, wire>>

Logout(p) ==
    /\ Free(p)
    /\ store' = None
    /\ UNCHANGED <<loginVars, issued, clientJar, pc, jar, redirect, loaded, wire>>

-----------------------------------------------------------------------------
(* A call and the auth flow around it.                                     *)

\* Mutant: the header stamped by the client stays, and nothing is added.
StampedHeader(stamped, cookies) == IF stamped = None THEN cookies ELSE stamped

\* set_cookie_header adds the jar's cookies to a request without a Cookie
\* header; the flow drops the header first, whatever was stamped on it.
CookieHeader(stamped, cookies) == cookies

MaySendForever(r) == pc[r] \in {"idle", "lost"}   \* mutant: no last attempt

\* The first attempt, or a retry after a network failure: cookies() reads the
\* store again.
MaySend(r) ==
    /\ pc[r] \in {"idle", "lost"}
    /\ attempts[r] < MaxAttempts
    /\ Free(ClientOf[r])

Send(r) ==
    /\ MaySend(r)
    /\ store # None
    /\ pc' = [pc EXCEPT ![r] = "sent"]
    /\ attempts' = [attempts EXCEPT ![r] = @ + 1]
    /\ seen' = [seen EXCEPT ![r] = store.cookies]
    /\ jar' = [jar EXCEPT ![r] = store.cookies]
    /\ header' = [header EXCEPT
           ![r] = CookieHeader(clientJar[ClientOf[r]], store.cookies)]
    /\ hops' = [hops EXCEPT ![r] = 0]
    /\ redirect' = [redirect EXCEPT ![r] = FALSE]
    /\ UNCHANGED <<store, loginVars, issued, clientJar, loaded>>

NoSession(r) ==
    /\ MaySend(r)
    /\ store = None
    /\ pc' = [pc EXCEPT ![r] = "denied"]
    /\ UNCHANGED <<store, loginVars, issued, clientJar, jar, redirect, loaded, wire>>

\* The APM answers a session it knows, with a rotated set or without.  The
\* http client's own jar takes every Set-Cookie.
Receive(r, cookies) ==
    /\ pc[r] = "sent"
    /\ Free(ClientOf[r])
    /\ header[r] # Anonymous
    /\ \/ /\ cookies = jar[r]
          /\ UNCHANGED <<issued, clientJar>>
       \/ /\ issued[header[r].login] < MaxVersions
          /\ issued' = [issued EXCEPT ![header[r].login] = @ + 1]
          /\ cookies = [login |-> header[r].login,
                        version |-> issued[header[r].login] + 1]
          /\ clientJar' = [clientJar EXCEPT ![ClientOf[r]] = cookies]

\* A redirect on the host, to the revalidation or to the resource.
Hop(r, cookies) ==
    /\ Receive(r, cookies)
    /\ hops[r] < MaxHops
    /\ hops' = [hops EXCEPT ![r] = @ + 1]
    /\ jar' = [jar EXCEPT ![r] = cookies]
    /\ header' = [header EXCEPT ![r] = CookieHeader(header[r], cookies)]
    /\ redirect' = [redirect EXCEPT ![r] = TRUE]
    /\ UNCHANGED <<store, loginVars, pc, attempts, seen, loaded>>

\* The loop's else: range(MaxHops) is used up before the last response is
\* looked at.
ExceedHops(r, cookies) ==
    /\ Receive(r, cookies)
    /\ hops[r] = MaxHops
    /\ pc' = [pc EXCEPT ![r] = "exceeded"]
    /\ \E again \in BOOLEAN : redirect' = [redirect EXCEPT ![r] = again]
    /\ UNCHANGED <<store, loginVars, jar, loaded, wire>>

\* A bounce to the login wall, or off the host.
Bounce(r) ==
    /\ pc[r] = "sent"
    /\ Free(ClientOf[r])
    /\ hops[r] < MaxHops
    /\ pc' = [pc EXCEPT ![r] = "denied"]
    /\ redirect' = [redirect EXCEPT ![r] = TRUE]
    /\ \/ clientJar' = [clientJar EXCEPT ![ClientOf[r]] = Anonymous]
       \/ UNCHANGED clientJar
    /\ UNCHANGED <<store, loginVars, issued, jar, loaded, wire>>

LoseConnection(r) ==
    /\ pc[r] = "sent"
    /\ Free(ClientOf[r])
    /\ pc' = [pc EXCEPT ![r] = "lost"]
    /\ UNCHANGED <<store, loginVars, issued, clientJar, jar, redirect, loaded, wire>>

HeldAtAll(r) == store # None   \* mutant: whatever is stored is replaced

\* rotated() keeps the store unless it still holds what the call started from.
StillHeld(r) == store # None /\ store.cookies = seen[r]

\* The answer: an unchanged set ends the call, a rotated one goes to
\* rotated(), which loads the store at once.
Answer(r, cookies) ==
    /\ Receive(r, cookies)
    /\ hops[r] < MaxHops
    /\ jar' = [jar EXCEPT ![r] = cookies]
    /\ redirect' = [redirect EXCEPT ![r] = FALSE]
    /\ IF cookies # seen[r] /\ StillHeld(r)
       THEN /\ pc' = [pc EXCEPT ![r] = "saving"]
            /\ loaded' = [loaded EXCEPT ![r] = store.established]
       ELSE /\ pc' = [pc EXCEPT ![r] = "answered"]
            /\ UNCHANGED loaded
    /\ UNCHANGED <<store, loginVars, wire>>

SaveRotation(r) ==
    /\ pc[r] = "saving"
    /\ \/ /\ store' = [cookies |-> jar[r], established |-> loaded[r]]
          /\ pc' = [pc EXCEPT ![r] = "answered"]
       \/ \* the write fails: the answer is lost with it
          /\ pc' = [pc EXCEPT ![r] = "failed"]
          /\ UNCHANGED store
    /\ UNCHANGED <<loginVars, issued, clientJar, jar, redirect, loaded, wire>>

-----------------------------------------------------------------------------
Respond(r) ==
    \E cookies \in Cookies :
        \/ Hop(r, cookies)
        \/ ExceedHops(r, cookies)
        \/ Answer(r, cookies)

Call(r) ==
    \/ Send(r)
    \/ NoSession(r)
    \/ Respond(r)
    \/ Bounce(r)
    \/ LoseConnection(r)
    \/ SaveRotation(r)

User(p) == Bootstrap(p) \/ Logout(p)

Next ==
    \/ \E p \in Processes : User(p)
    \/ \E s \in pending : SaveLogin(s)
    \/ \E r \in Requests : Call(r)

Spec == Init /\ [][Next]_vars

-----------------------------------------------------------------------------
Ended == {"answered", "denied", "exceeded", "failed"}

TypeOK ==
    /\ store \in Session \cup {None}
    /\ pending \subseteq [by : Processes, login : Logins]
    /\ logins \in 0..MaxLogins
    /\ issued \in [Logins -> 0..MaxVersions]
    /\ clientJar \in [Processes -> Cookies \cup {None, Anonymous}]
    /\ pc \in [Requests -> {"idle", "sent", "lost", "saving"} \cup Ended]
    /\ attempts \in [Requests -> 0..MaxAttempts]
    /\ seen \in [Requests -> Cookies \cup {None}]
    /\ jar \in [Requests -> Cookies \cup {None}]
    /\ header \in [Requests -> Cookies \cup {None}]
    /\ hops \in [Requests -> 0..MaxHops]
    /\ redirect \in [Requests -> BOOLEAN]
    /\ loaded \in [Requests -> 0..MaxLogins]

\* The stored cookies belong to the login whose established_at is stored with
\* them: a rotation that ends after a login never dates the old session as the
\* new one (rotated).
CookiesOfTheirLogin ==
    store # None => store.cookies.login = store.established

\* A request on the wire, first send or hop, carries cookies of the session
\* the store held when the call read it, the newest ones the APM gave to the
\* call: the http client's own jar never shadows them (async_auth_flow).
WireCarriesSession ==
    \A r \in Requests : pc[r] = "sent" =>
        /\ header[r] = jar[r]
        /\ header[r].login = seen[r].login

\* A rotation writes only over the session its call started from, so it
\* neither replaces a fresh login nor brings back a session that was logged
\* out (rotated).
RotationKeepsSession ==
    [][\A r \in Requests :
           (pc[r] = "saving" /\ pc'[r] = "answered") =>
               /\ store # None
               /\ store.cookies = seen[r]
               /\ store'.established = store.established]_vars

\* While a session is stored, its cookies only advance: of several calls that
\* rotate at once none puts back an older set (rotated).
StoreAdvances ==
    [][(/\ store # None
        /\ store' # None
        /\ store'.established = store.established)
           => store'.cookies.version >= store.cookies.version]_vars

\* A rotation never replaces a login that was saved since its call started:
\* "if another process replaced the session mid-flight (a fresh login), this
\* rotation belongs to the dead session and must not clobber the new one"
\* (rotated).
LoginNotClobbered ==
    [][\A r \in Requests :
           (pc[r] = "saving" /\ pc'[r] = "answered" /\ store # None) =>
               store'.established = store.established]_vars

\* A call is refused for its redirects only when it was redirected more than
\* MaxHops times: "SPV redirect chain exceeded {_MAX_REDIRECT_HOPS} hops"
\* (async_auth_flow).
RefusedBeyondBound ==
    \A r \in Requests : pc[r] = "exceeded" => redirect[r]

=============================================================================
