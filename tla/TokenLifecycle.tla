--------------------------- MODULE TokenLifecycle ---------------------------
(***************************************************************************)
(* The OAuth tokens: TokenProvider hands out access tokens and rotates the *)
(* refresh token, AnafAuth retries a 401 once (auth/provider.py), a login  *)
(* saves a new set (auth/browser.py), a logout clears it (cli/main.py).    *)
(*                                                                         *)
(* Several processes (MCP servers, the CLI) share one TokenStore.  Each    *)
(* provider holds an asyncio.Lock of its own process; logins and logouts   *)
(* take no lock.  The store is one atomic register here: a JSON file that  *)
(* is replaced, or one keyring entry.                                      *)
(*                                                                         *)
(* A token set is its generation: the n-th set that ANAF issued.           *)
(***************************************************************************)
EXTENDS Naturals

CONSTANTS
    Procs,      \* processes, each with one TokenProvider
    Requests,   \* authenticated API requests; each is made at most once
    ProcOf,     \* the process that makes a request
    None,       \* no token set, no request
    Refused,    \* the token endpoint's answer invalid_grant
    MaxGen,     \* bound: token sets ever issued
    MaxLapsed   \* bound: refresh tokens that get too old

ASSUME ProcOfType == ProcOf \in [Requests -> Procs]
ASSUME BoundsType == MaxGen \in Nat /\ MaxLapsed \in Nat
ASSUME MarkersDiffer ==
    /\ None \notin Requests \cup (1..MaxGen)
    /\ Refused \notin (1..MaxGen) \cup {None}

Gens == 1..MaxGen

VARIABLES
    last,       \* how many token sets ANAF issued
    parent,     \* the generation whose refresh token bought one; 0 for a login
    root,       \* the login a generation descends from
    buyer,      \* the request that bought a generation (history)
    expired,    \* generations up to this one are access_expired()
    lapsed,     \* ... and up to this one refresh_expired()
    rejected,   \* generations whose access token got a 401 (history)
    store,      \* what the TokenStore holds
    saved,      \* generations ever saved there (history)
    current,    \* the last login the user saved, None after a logout (history)
    logins,     \* logins whose code is exchanged and whose set is not saved yet
    lock,       \* the request that holds a provider's lock
    pc,         \* where each request is
    bearer,     \* the access token a request carries
    base,       \* the generation whose refresh token it sent
    posts,      \* token requests sent and not yet processed by ANAF
    answer      \* the token endpoint's answer to a request

vars == <<last, parent, root, buyer, expired, lapsed, rejected, store, saved,
          current, logins, lock, pc, bearer, base, posts, answer>>
issueVars == <<last, parent, root, buyer>>
validity == <<expired, lapsed, rejected>>
storeVars == <<store, saved, current>>
callVars == <<lock, pc, bearer, base>>

Refreshing == {"refreshing", "rerefreshing"}
InFlight == {"authorizing", "sending", "unauthorized", "resending"} \cup Refreshing
Ended == {"done", "failed"}

\* ANAF honours a refresh token once: it was rotated when it has a child.
Rotated(g) == \E h \in 1..last : parent[h] = g

Init ==
    /\ last = 0
    /\ parent = [g \in Gens |-> 0]
    /\ root = [g \in Gens |-> 0]
    /\ buyer = [g \in Gens |-> None]
    /\ expired = 0
    /\ lapsed = 0
    /\ rejected = {}
    /\ store = None
    /\ saved = {}
    /\ current = None
    /\ logins = {}
    /\ lock = [p \in Procs |-> None]
    /\ pc = [r \in Requests |-> "idle"]
    /\ bearer = [r \in Requests |-> None]
    /\ base = [r \in Requests |-> None]
    /\ posts = {}
    /\ answer = [r \in Requests |-> None]

-----------------------------------------------------------------------------
(* A request.                                                              *)

LockIgnored(r) == TRUE                           \* mutant: no asyncio.Lock

\* `async with self._lock`; load() runs in the same stretch, so a request that
\* refreshes nothing holds the lock across no await.
LockFree(r) == lock[ProcOf[r]] = None

Goto(r, place) == pc' = [pc EXCEPT ![r] = place]

Release(r) ==
    lock' = [p \in Procs |-> IF lock[p] = r THEN None ELSE lock[p]]

\* Requests end with an exception or with their process, and leave `async with`;
\* only a token request still on its way remembers what it carries.
Abort(R) ==
    /\ pc' = [r \in Requests |-> IF r \in R THEN "failed" ELSE pc[r]]
    /\ lock' = [p \in Procs |-> IF lock[p] \in R THEN None ELSE lock[p]]
    /\ bearer' = [r \in Requests |-> IF r \in R THEN None ELSE bearer[r]]
    /\ base' = [r \in Requests |-> IF r \in R \ posts THEN None ELSE base[r]]
    /\ answer' = [r \in Requests |-> IF r \in R THEN None ELSE answer[r]]
    /\ UNCHANGED posts

Fail(r) == Abort({r})

\* _refresh up to the POST: a lapsed refresh token raises.
Refresh(r, place) ==
    IF store <= lapsed
    THEN Fail(r)
    ELSE /\ Goto(r, place)
         /\ lock' = [lock EXCEPT ![ProcOf[r]] = r]
         /\ base' = [base EXCEPT ![r] = store]
         /\ posts' = posts \cup {r}
         /\ UNCHANGED <<bearer, answer>>

\* Go on with the stored access token.
Carry(r, place) ==
    /\ Goto(r, place)
    /\ bearer' = [bearer EXCEPT ![r] = store]
    /\ UNCHANGED <<lock, base, posts, answer>>

\* A new request finds the lock taken and waits for it.
Wait(r) ==
    /\ pc[r] = "idle"
    /\ ~LockFree(r)
    /\ Goto(r, "authorizing")
    /\ UNCHANGED <<issueVars, validity, storeVars, logins, lock, bearer, base, posts, answer>>

\* access_token, of a request that waited or comes at once: load, and refresh
\* what has expired.
AccessToken(r) ==
    /\ pc[r] \in {"idle", "authorizing"}
    /\ LockFree(r)
    /\ IF store = None
       THEN Fail(r)
       ELSE IF store <= expired
            THEN Refresh(r, "refreshing")
            ELSE Carry(r, "sending")
    /\ UNCHANGED <<issueVars, validity, storeVars, logins>>

\* Mutant: force_refresh ignores `stale`.
ForceRefreshAlways(r) ==
    /\ pc[r] = "unauthorized"
    /\ LockFree(r)
    /\ IF store = None THEN Fail(r) ELSE Refresh(r, "rerefreshing")
    /\ UNCHANGED <<issueVars, validity, storeVars, logins>>

\* force_refresh(stale=token): a token that was replaced meanwhile is used as
\* it is.
ForceRefresh(r) ==
    /\ pc[r] = "unauthorized"
    /\ LockFree(r)
    /\ IF store = None
       THEN Fail(r)
       ELSE IF store # bearer[r]
            THEN Carry(r, "resending")
            ELSE Refresh(r, "rerefreshing")
    /\ UNCHANGED <<issueVars, validity, storeVars, logins>>

\* Mutant: the token endpoint's status is not looked at.
RefreshedUnchecked(r) ==
    /\ pc[r] \in Refreshing
    /\ answer[r] # None
    /\ store' = answer[r]
    /\ saved' = saved \cup {answer[r]}
    /\ Goto(r, "done")
    /\ Release(r)
    /\ UNCHANGED <<issueVars, validity, current, logins, bearer, base, posts, answer>>

\* _refresh from the answer on: save, release the lock, carry the new token.
Refreshed(r) ==
    /\ pc[r] \in Refreshing
    /\ answer[r] \in Gens
    /\ store' = answer[r]
    /\ saved' = saved \cup {answer[r]}
    /\ bearer' = [bearer EXCEPT ![r] = answer[r]]
    /\ base' = [base EXCEPT ![r] = None]
    /\ answer' = [answer EXCEPT ![r] = None]
    /\ Goto(r, IF pc[r] = "refreshing" THEN "sending" ELSE "resending")
    /\ Release(r)
    /\ UNCHANGED <<issueVars, validity, current, logins, posts>>

\* Mutant: the failed rotation is rolled back to what was loaded.
RefusedRollsBack(r) ==
    /\ pc[r] \in Refreshing
    /\ answer[r] = Refused
    /\ Fail(r)
    /\ store' = base[r]
    /\ saved' = saved \cup {base[r]}
    /\ UNCHANGED <<issueVars, validity, current, logins>>

\* _post_token raises AnafAuthError on invalid_grant.
RefreshRefused(r) ==
    /\ pc[r] \in Refreshing
    /\ answer[r] = Refused
    /\ Fail(r)
    /\ UNCHANGED <<issueVars, validity, storeVars, logins>>

\* The API answers anything; after the retry, a 401 too is the caller's.
Answered(r) ==
    /\ pc[r] \in {"sending", "resending"}
    /\ Goto(r, "done")
    /\ bearer' = [bearer EXCEPT ![r] = None]
    /\ UNCHANGED <<issueVars, validity, storeVars, logins, lock, base, posts, answer>>

\* The API answers the first 401: whatever the token's `exp` says, ANAF may stop
\* to accept it.
Unauthorized(r) ==
    /\ pc[r] = "sending"
    /\ Goto(r, "unauthorized")
    /\ rejected' = rejected \cup {bearer[r]}
    /\ UNCHANGED <<issueVars, expired, lapsed, storeVars, logins, lock, bearer, base, posts, answer>>

\* Mutant: the lock is not released by an exception.
GiveUpKeepsLock(r) ==
    /\ pc[r] \in InFlight
    /\ Goto(r, "failed")
    /\ UNCHANGED <<lock, bearer, base, posts, answer>>
    /\ UNCHANGED <<issueVars, validity, storeVars, logins>>

\* A timeout, a broken connection, an error page, a cancelled tool call, a store
\* that cannot be read or written.  A token request already sent stays sent.
GiveUp(r) ==
    /\ pc[r] \in InFlight
    /\ Fail(r)
    /\ UNCHANGED <<issueVars, validity, storeVars, logins>>

\* A process ends, with all its requests.
Crash(p) ==
    LET dying == {r \in Requests : ProcOf[r] = p /\ pc[r] \in InFlight}
    IN  /\ dying # {}
        /\ Abort(dying)
        /\ UNCHANGED <<issueVars, validity, storeVars, logins>>

-----------------------------------------------------------------------------
(* ANAF, the user and time.                                                *)

\* ANAF issues the next token set, from a refresh token or from a login.
Issue(from, request) ==
    /\ last < MaxGen
    /\ last' = last + 1
    /\ parent' = [parent EXCEPT ![last + 1] = from]
    /\ root' = [root EXCEPT ![last + 1] = IF from = 0 THEN last + 1 ELSE root[from]]
    /\ buyer' = [buyer EXCEPT ![last + 1] = request]

\* ANAF processes a token request, maybe after its sender gave up.  A rotated
\* refresh token is refused.
Rotate(r) ==
    /\ r \in posts
    /\ posts' = posts \ {r}
    /\ IF Rotated(base[r]) THEN UNCHANGED issueVars ELSE Issue(base[r], r)
    /\ IF pc[r] \in Refreshing
       THEN /\ answer' = [answer EXCEPT ![r] =
                             IF Rotated(base[r]) THEN Refused ELSE last + 1]
            /\ UNCHANGED base
       ELSE /\ base' = [base EXCEPT ![r] = None]
            /\ UNCHANGED answer
    /\ UNCHANGED <<validity, storeVars, logins, lock, pc, bearer>>

\* exchange_code: the user's authorization code becomes a token set ...
ExchangeCode ==
    /\ Issue(0, None)
    /\ logins' = logins \cup {last + 1}
    /\ UNCHANGED <<validity, storeVars, callVars, posts, answer>>

\* ... that finish_login saves, without any provider's lock; or never saves,
\* when the answer, the process or the save fails.
FinishLogin(g) ==
    /\ g \in logins
    /\ store' = g
    /\ saved' = saved \cup {g}
    /\ current' = g
    /\ logins' = logins \ {g}
    /\ UNCHANGED <<issueVars, validity, callVars, posts, answer>>

\* auth_logout clears the store of this machine, and nothing else.
Logout ==
    /\ store # None
    /\ store' = None
    /\ current' = None
    /\ UNCHANGED <<issueVars, validity, saved, logins, callVars, posts, answer>>

\* Tokens expire in the order they were issued, the access token (with its
\* leeway) long before the refresh token.
AccessExpires ==
    /\ expired < last
    /\ expired' = expired + 1
    /\ UNCHANGED <<issueVars, lapsed, rejected, storeVars, logins, callVars, posts, answer>>

RefreshLapses ==
    /\ lapsed < expired
    /\ lapsed < MaxLapsed
    /\ lapsed' = lapsed + 1
    /\ UNCHANGED <<issueVars, expired, rejected, storeVars, logins, callVars, posts, answer>>

-----------------------------------------------------------------------------
RequestStep(r) ==
    \/ Wait(r)
    \/ AccessToken(r)
    \/ ForceRefresh(r)
    \/ Refreshed(r)
    \/ RefreshRefused(r)
    \/ Answered(r)
    \/ Unauthorized(r)
    \/ GiveUp(r)

LoginStep ==
    \/ ExchangeCode
    \/ \E g \in Gens : FinishLogin(g)
    \/ Logout

Environment ==
    \/ \E p \in Procs : Crash(p)
    \/ \E r \in Requests : Rotate(r)
    \/ AccessExpires
    \/ RefreshLapses

Next ==
    \/ \E r \in Requests : RequestStep(r)
    \/ LoginStep
    \/ Environment

Spec == Init /\ [][Next]_vars

\* The event loop runs a coroutine that can run, and httpx ends every wait.
Fairness ==
    \A r \in Requests :
        /\ WF_vars(pc[r] = "authorizing" /\ AccessToken(r))
        /\ WF_vars(ForceRefresh(r))
        /\ WF_vars(Refreshed(r) \/ RefreshRefused(r) \/ (pc[r] \in Refreshing /\ GiveUp(r)))
        /\ WF_vars(Answered(r) \/ Unauthorized(r))

FairSpec == Spec /\ Fairness

-----------------------------------------------------------------------------
(* Properties.                                                             *)

BooksType ==
    /\ last \in 0..MaxGen
    /\ parent \in [Gens -> 0..MaxGen]
    /\ root \in [Gens -> 0..MaxGen]
    /\ buyer \in [Gens -> Requests \cup {None}]
    /\ lapsed \in 0..expired
    /\ expired \in 0..last
    /\ rejected \subseteq 1..last
    /\ saved \subseteq 1..last
    /\ store \in saved \cup {None}
    /\ current \in saved \cup {None}
    /\ logins \subseteq 1..last

CallType ==
    /\ lock \in [Procs -> Requests \cup {None}]
    /\ pc \in [Requests -> {"idle"} \cup InFlight \cup Ended]
    /\ bearer \in [Requests -> Gens \cup {None}]
    /\ base \in [Requests -> Gens \cup {None}]
    /\ posts \subseteq Requests
    /\ answer \in [Requests -> Gens \cup {None, Refused}]

\* Every variable holds what its comment says.
TypeOK == BooksType /\ CallType

\* The store never falls behind a rotation that was saved: when ANAF no longer
\* honours the stored refresh token, its successor is on its way to the request
\* that bought it, or that request failed.  Logins, logouts and rotations of
\* other processes, in whatever order, brick nothing.
BehindOnlyByAccident ==
    \A h \in 1..last : store # None /\ parent[h] = store =>
        /\ h \notin saved
        /\ pc[buyer[h]] \in Refreshing \cup {"failed"}

\* A rotation is spent only on an access token that has expired or that ANAF
\* answered with a 401, however many requests see the same 401 (force_refresh:
\* "without burning another rotation").
RotationsJustified ==
    \A h \in 1..last : parent[h] # 0 => parent[h] <= expired \/ parent[h] \in rejected

\* The lock makes refreshes single-flight: a waiting request is refused only
\* because another process rotated the token first, or because the answer to an
\* earlier rotation of its own process was lost.
RefusedOnlyByRace ==
    \A r \in Requests : pc[r] \in Refreshing /\ answer[r] = Refused =>
        \E h \in 1..last :
            /\ parent[h] = base[r]
            /\ h \notin saved \/ ProcOf[buyer[h]] # ProcOf[r]

\* The store is what the user's last login or logout made it, but for rotations
\* of that login (TokenProvider: a login by another process "is picked up on the
\* next call"; auth_logout "ends this machine's access").
StoreFollowsUser ==
    IF current = None THEN store = None ELSE store # None /\ root[store] = current

\* Every request ends: nobody waits for a lock for ever.
EveryRequestEnds ==
    \A r \in Requests : pc[r] # "idle" ~> pc[r] \in Ended

\* The inductive strengthening of the invariants above.  Only saved sets are
\* ever rotated, and a login's set is saved once ...
Ancestry ==
    /\ \A h \in 1..last : parent[h] # 0 => parent[h] \in saved /\ buyer[h] \in Requests
    /\ \A g \in logins : g \notin saved /\ parent[g] = 0

\* ... a token request carries a saved set; its answer is not saved yet, and the
\* lock of its process is its own ...
Pending ==
    /\ \A r \in posts :
          /\ pc[r] \in Refreshing \cup {"failed"}
          /\ base[r] \in saved
          /\ base[r] <= expired \/ base[r] \in rejected
          /\ answer[r] = None
    /\ \A r \in Requests : pc[r] \in Refreshing =>
          /\ lock[ProcOf[r]] = r
          /\ base[r] \in saved
          /\ answer[r] = Refused => Rotated(base[r])
          /\ answer[r] \in Gens =>
                /\ answer[r] \in (1..last) \ saved
                /\ parent[answer[r]] = base[r]
                /\ buyer[answer[r]] = r
    /\ \A r \in Requests : pc[r] \notin Refreshing => answer[r] = None
    /\ \A r \in Requests : pc[r] \in {"sending", "unauthorized"} => bearer[r] \in saved
    /\ \A r \in Requests : pc[r] = "unauthorized" => bearer[r] \in rejected

\* ... a set that was bought and never saved waits at its buyer, or its buyer
\* failed ...
Unsaved ==
    \A h \in (1..last) \ saved : parent[h] # 0 =>
        \/ pc[buyer[h]] = "failed"
        \/ pc[buyer[h]] \in Refreshing /\ answer[buyer[h]] = h

\* ... and no successor of the stored set was saved; nor one of the set that a
\* request is about to rotate, unless another process bought it.
NotBehind ==
    \A h \in 1..last : h \in saved /\ parent[h] # 0 =>
        /\ parent[h] # store
        /\ \A r \in Requests :
              pc[r] \in Refreshing /\ parent[h] = base[r] => ProcOf[buyer[h]] # ProcOf[r]

TokenInv ==
    /\ TypeOK
    /\ Ancestry
    /\ Pending
    /\ Unsaved
    /\ NotBehind
    /\ RotationsJustified
=============================================================================
