------------------------ MODULE TokenLifecycleProofs ------------------------
(***************************************************************************)
(* The token invariants for every number of processes, requests and token  *)
(* sets.  TokenInv is inductive.  Its conjuncts are proved shape by shape: *)
(* every step of the specification has one of nine shapes (StepShape).     *)
(***************************************************************************)
EXTENDS TokenLifecycle, TLAPS

USE DEF Gens, Refreshing, Ended

\* The initial state satisfies the inductive invariant.
LEMMA InitTokenInv == Init => TokenInv
<1> SUFFICES ASSUME Init PROVE TokenInv
  OBVIOUS
<1>1. TypeOK
  BY BoundsType DEF Init, TypeOK, BooksType, CallType
<1>2. Ancestry /\ Unsaved /\ NotBehind /\ RotationsJustified
  BY DEF Init, Ancestry, Unsaved, NotBehind, RotationsJustified
<1>3. Pending
  BY MarkersDiffer DEF Init, Pending
<1>4. QED
  BY <1>1, <1>2, <1>3 DEF TokenInv

-----------------------------------------------------------------------------
(* The shapes of a step, as requests, the store and ANAF's books see it.   *)

\* Time passes; or nothing happens.
Quiet ==
    /\ expired' \in {expired, expired + 1}
    /\ UNCHANGED <<last, parent, buyer, rejected, store, saved, logins,
                   pc, lock, bearer, base, posts, answer>>

\* A request goes on without the token endpoint.
Move(r) ==
    /\ pc[r] \notin Refreshing \cup {"failed"}
    /\ \E place \in {"authorizing", "sending", "unauthorized", "resending", "done"},
          token \in saved \cup {None, bearer[r]} :
          /\ pc' = [pc EXCEPT ![r] = place]
          /\ bearer' = [bearer EXCEPT ![r] = token]
          /\ rejected' = IF place = "unauthorized" THEN rejected \cup {token} ELSE rejected
          /\ place \in {"sending", "unauthorized"} => token \in saved
    /\ UNCHANGED <<last, parent, buyer, expired, store, saved, logins,
                   lock, base, posts, answer>>

\* A request sends the stored refresh token.
Post(r) ==
    /\ pc[r] \in {"idle", "authorizing", "unauthorized"}
    /\ lock[ProcOf[r]] = None
    /\ store # None
    /\ store <= expired \/ store \in rejected
    /\ \E place \in Refreshing : pc' = [pc EXCEPT ![r] = place]
    /\ lock' = [lock EXCEPT ![ProcOf[r]] = r]
    /\ base' = [base EXCEPT ![r] = store]
    /\ posts' = posts \cup {r}
    /\ UNCHANGED <<last, parent, buyer, expired, rejected, store, saved, logins,
                   bearer, answer>>

\* Requests fail.
Drop ==
    /\ \E R \in SUBSET Requests :
          /\ \A r \in R : pc[r] \notin {"done", "failed"}
          /\ Abort(R)
    /\ UNCHANGED <<last, parent, buyer, expired, rejected, store, saved, logins>>

\* The store is cleared.
Clear ==
    /\ store' = None
    /\ UNCHANGED <<last, parent, buyer, expired, rejected, saved, logins,
                   pc, lock, bearer, base, posts, answer>>

\* Every step has one of these shapes, or is one of the four actions that mint
\* or save a token set.
LEMMA StepShape ==
  ASSUME TokenInv, [Next]_vars
  PROVE  \/ Quiet \/ Drop \/ Clear \/ ExchangeCode
         \/ \E r \in Requests : Move(r) \/ Post(r) \/ Refreshed(r) \/ Rotate(r)
         \/ \E g \in Gens : FinishLogin(g)
<1> USE DEF TokenInv, TypeOK, BooksType, CallType, issueVars, validity, storeVars, callVars
<1>1. ASSUME NEW r \in Requests, pc[r] \notin {"done", "failed"}, Fail(r),
             UNCHANGED <<issueVars, validity, storeVars, logins>>
      PROVE  Drop
  BY <1>1 DEF Fail, Drop
<1>2. ASSUME NEW r \in Requests, pc[r] \in {"idle", "authorizing", "unauthorized"},
             LockFree(r), store # None, store <= expired \/ store \in rejected,
             NEW place \in Refreshing, Refresh(r, place),
             UNCHANGED <<issueVars, validity, storeVars, logins>>
      PROVE  Drop \/ Post(r)
  <2>1. CASE store <= lapsed
    BY <1>1, <1>2, <2>1 DEF Refresh
  <2>2. CASE ~(store <= lapsed)
    BY <1>2, <2>2 DEF Refresh, Post, Goto, LockFree
  <2>3. QED
    BY <2>1, <2>2
<1>3. ASSUME NEW r \in Requests, pc[r] \in {"idle", "authorizing", "unauthorized"},
             store # None, NEW place \in {"sending", "resending"}, Carry(r, place),
             UNCHANGED <<issueVars, validity, storeVars, logins>>
      PROVE  Move(r)
  <2>1. store \in saved
    BY <1>3
  <2>2. rejected' = IF place = "unauthorized" THEN rejected \cup {store} ELSE rejected
    BY <1>3
  <2>3. pc' = [pc EXCEPT ![r] = place] /\ bearer' = [bearer EXCEPT ![r] = store]
    BY <1>3 DEF Carry, Goto
  <2>4. QED
    BY <1>3, <2>1, <2>2, <2>3 DEF Carry, Move
<1>4. ASSUME NEW r \in Requests, AccessToken(r)
      PROVE  Drop \/ Post(r) \/ Move(r)
  <2>1. CASE store = None
    BY <1>1, <1>4, <2>1 DEF AccessToken
  <2>2. CASE store # None /\ store <= expired
    BY <1>2, <1>4, <2>2 DEF AccessToken
  <2>3. CASE store # None /\ ~(store <= expired)
    BY <1>3, <1>4, <2>3 DEF AccessToken
  <2>4. QED
    BY <2>1, <2>2, <2>3
<1>5. ASSUME NEW r \in Requests, ForceRefresh(r)
      PROVE  Drop \/ Post(r) \/ Move(r)
  <2>1. CASE store = None
    BY <1>1, <1>5, <2>1 DEF ForceRefresh
  <2>2. CASE store # None /\ store = bearer[r]
    <3>1. store \in rejected
      BY <1>5, <2>2 DEF ForceRefresh, Pending
    <3>2. QED
      BY <1>2, <1>5, <2>2, <3>1 DEF ForceRefresh
  <2>3. CASE store # None /\ store # bearer[r]
    BY <1>3, <1>5, <2>3 DEF ForceRefresh
  <2>4. QED
    BY <2>1, <2>2, <2>3
<1>6. ASSUME NEW r \in Requests, Wait(r)
      PROVE  Move(r)
  <2>1. bearer' = [bearer EXCEPT ![r] = bearer[r]]
    BY <1>6 DEF Wait
  <2>2. pc' = [pc EXCEPT ![r] = "authorizing"] /\ rejected' = rejected
    BY <1>6 DEF Wait, Goto
  <2>3. QED
    BY <1>6, <2>1, <2>2 DEF Wait, Move
<1>7. ASSUME NEW r \in Requests, Answered(r)
      PROVE  Move(r)
  BY <1>7 DEF Answered, Move, Goto
<1>8. ASSUME NEW r \in Requests, Unauthorized(r)
      PROVE  Move(r)
  <2>1. bearer' = [bearer EXCEPT ![r] = bearer[r]] /\ bearer[r] \in saved
    BY <1>8 DEF Unauthorized, Pending
  <2>2. pc' = [pc EXCEPT ![r] = "unauthorized"] /\ rejected' = rejected \cup {bearer[r]}
    BY <1>8 DEF Unauthorized, Goto
  <2>3. pc[r] \notin Refreshing \cup {"failed"}
    BY <1>8 DEF Unauthorized
  <2>4. /\ "unauthorized" \in {"authorizing", "sending", "unauthorized", "resending", "done"}
        /\ bearer[r] \in saved \cup {None, bearer[r]}
        /\ rejected' = IF "unauthorized" = "unauthorized"
                       THEN rejected \cup {bearer[r]} ELSE rejected
    BY <2>2
  <2>5. QED
    BY <1>8, <2>1, <2>2, <2>3, <2>4, Zenon DEF Unauthorized, Move
<1>9. ASSUME NEW r \in Requests, RefreshRefused(r) \/ GiveUp(r)
      PROVE  Drop
  BY <1>1, <1>9 DEF RefreshRefused, GiveUp, InFlight
<1>10. ASSUME NEW p \in Procs, Crash(p)
       PROVE  Drop
  BY <1>10 DEF Crash, Drop, InFlight
<1>11. CASE Logout
  BY <1>11 DEF Logout, Clear
<1>12. CASE AccessExpires \/ RefreshLapses \/ UNCHANGED vars
  BY <1>12 DEF AccessExpires, RefreshLapses, Quiet, vars
<1>13. QED
  BY <1>4, <1>5, <1>6, <1>7, <1>8, <1>9, <1>10, <1>11, <1>12, Zenon
  DEF Next, RequestStep, LoginStep, Environment

-----------------------------------------------------------------------------
(* Types.                                                                  *)

\* Failing requests keep their types.
LEMMA AbortType ==
  ASSUME CallType, NEW R \in SUBSET Requests, Abort(R)
  PROVE  CallType'
BY DEF CallType, Abort

\* Every step keeps the types.
LEMMA TypeStep ==
  ASSUME TokenInv, [Next]_vars
  PROVE  TypeOK'
<1> USE BoundsType, ProcOfType DEF TokenInv, TypeOK, issueVars, validity, storeVars, callVars
<1>0. ASSUME UNCHANGED <<issueVars, validity, storeVars, logins>>
      PROVE  BooksType'
  BY <1>0 DEF BooksType
<1>1. ASSUME NEW R \in SUBSET Requests, Abort(R),
             UNCHANGED <<issueVars, validity, storeVars, logins>>
      PROVE  TypeOK'
  BY <1>0, <1>1, AbortType
<1>2. ASSUME NEW r \in Requests, store # None, NEW place \in Refreshing, Refresh(r, place),
             UNCHANGED <<issueVars, validity, storeVars, logins>>
      PROVE  TypeOK'
  <2>1. CASE store <= lapsed
    BY <1>1, <1>2, <2>1 DEF Refresh, Fail
  <2>2. CASE ~(store <= lapsed)
    <3>1. store \in Gens
      BY <1>2 DEF BooksType
    <3>2. CallType'
      BY <1>2, <2>2, <3>1 DEF Refresh, CallType, Goto, InFlight
    <3>3. QED
      BY <1>0, <1>2, <3>2
  <2>3. QED
    BY <2>1, <2>2
<1>3. ASSUME NEW r \in Requests, store # None, NEW place \in {"sending", "resending"},
             Carry(r, place), UNCHANGED <<issueVars, validity, storeVars, logins>>
      PROVE  TypeOK'
  <2>1. store \in Gens
    BY <1>3 DEF BooksType
  <2>2. CallType'
    BY <1>3, <2>1 DEF Carry, CallType, Goto, InFlight
  <2>3. QED
    BY <1>0, <1>3, <2>2
<1>4. ASSUME NEW r \in Requests, AccessToken(r) \/ ForceRefresh(r)
      PROVE  TypeOK'
  <2>1. CASE Fail(r)
    BY <1>1, <1>4, <2>1 DEF AccessToken, ForceRefresh, Fail
  <2>2. CASE store # None /\ \E place \in Refreshing : Refresh(r, place)
    BY <1>2, <1>4, <2>2 DEF AccessToken, ForceRefresh
  <2>3. CASE store # None /\ \E place \in {"sending", "resending"} : Carry(r, place)
    BY <1>3, <1>4, <2>3 DEF AccessToken, ForceRefresh
  <2>4. QED
    BY <1>4, <2>1, <2>2, <2>3 DEF AccessToken, ForceRefresh
<1>5. ASSUME NEW r \in Requests, RefreshRefused(r) \/ GiveUp(r)
      PROVE  TypeOK'
  BY <1>1, <1>5 DEF RefreshRefused, GiveUp, Fail
<1>6. ASSUME NEW r \in Requests, Wait(r) \/ Answered(r) \/ Unauthorized(r)
      PROVE  TypeOK'
  <2>1. CallType'
    BY <1>6 DEF Wait, Answered, Unauthorized, CallType, Goto, InFlight
  <2>2. CASE Wait(r) \/ Answered(r)
    BY <1>0, <2>1, <2>2 DEF Wait, Answered
  <2>3. CASE Unauthorized(r)
    <3>1. bearer[r] \in 1..last
      BY <2>3 DEF Unauthorized, Pending, BooksType
    <3>2. rejected' \subseteq 1..last
      BY <2>3, <3>1 DEF Unauthorized, BooksType
    <3>3. BooksType'
      BY <2>3, <3>2 DEF Unauthorized, BooksType
    <3>4. QED
      BY <2>1, <3>3
  <2>4. QED
    BY <1>6, <2>2, <2>3
<1>7. ASSUME NEW r \in Requests, Refreshed(r)
      PROVE  TypeOK'
  <2>1. answer[r] \in (1..last) \ saved
    BY <1>7 DEF Refreshed, Pending
  <2>2. BooksType'
    BY <1>7, <2>1 DEF Refreshed, BooksType
  <2>3. pc' \in [Requests -> {"idle"} \cup InFlight \cup Ended]
    BY <1>7 DEF Refreshed, CallType, Goto, InFlight
  <2>4. lock' \in [Procs -> Requests \cup {None}]
    BY <1>7 DEF Refreshed, CallType, Release
  <2>5. CallType'
    BY <1>7, <2>3, <2>4 DEF Refreshed, CallType
  <2>6. QED
    BY <2>2, <2>5
<1>8. ASSUME NEW r \in Requests, Rotate(r)
      PROVE  TypeOK'
  <2>1. last + 1 \in Gens \/ Rotated(base[r])
    BY <1>8 DEF Rotate, Issue, BooksType
  <2>2. CallType'
    BY <1>8, <2>1 DEF Rotate, CallType
  <2>3. base[r] \in 1..last
    BY <1>8 DEF Rotate, Pending, BooksType
  <2>4. last' \in 0..MaxGen /\ last <= last'
    BY <1>8 DEF Rotate, Issue, BooksType
  <2>5. CASE Rotated(base[r])
    <3>1. UNCHANGED issueVars
      BY <1>8, <2>5 DEF Rotate
    <3>2. BooksType'
      BY <1>0, <1>8, <3>1 DEF Rotate
    <3>3. QED
      BY <2>2, <3>2
  <2>6. CASE ~Rotated(base[r])
    <3>1. Issue(base[r], r)
      BY <1>8, <2>6 DEF Rotate
    <3>2. root[base[r]] \in 0..MaxGen
      BY <2>3 DEF BooksType
    <3>3. parent' \in [Gens -> 0..MaxGen] /\ buyer' \in [Gens -> Requests \cup {None}]
      BY <2>3, <3>1 DEF Issue, BooksType
    <3>4. root' \in [Gens -> 0..MaxGen]
      BY <3>1, <3>2 DEF Issue, BooksType
    <3>5. BooksType'
      BY <1>8, <2>4, <3>3, <3>4 DEF Rotate, BooksType
    <3>6. QED
      BY <2>2, <3>5
  <2>7. QED
    BY <2>5, <2>6
<1>9. CASE ExchangeCode
  BY <1>9 DEF ExchangeCode, Issue, BooksType, CallType
<1>10. ASSUME NEW g \in Gens, FinishLogin(g)
       PROVE  TypeOK'
  <2>1. CallType'
    BY <1>10 DEF FinishLogin, CallType
  <2>2. BooksType'
    BY <1>10 DEF FinishLogin, BooksType
  <2>3. QED
    BY <2>1, <2>2
<1>11. CASE Logout \/ AccessExpires \/ RefreshLapses \/ UNCHANGED vars
  <2>1. CallType'
    BY <1>11 DEF Logout, AccessExpires, RefreshLapses, vars, CallType
  <2>2. UNCHANGED <<last, parent, root, buyer, rejected, saved, logins>>
    BY <1>11 DEF Logout, AccessExpires, RefreshLapses, vars
  <2>3. lapsed' \in 0..expired' /\ expired' \in 0..last
    <3>1. CASE expired < last /\ expired' = expired + 1 /\ lapsed' = lapsed
      BY <3>1 DEF BooksType
    <3>2. CASE lapsed < expired /\ lapsed' = lapsed + 1 /\ expired' = expired
      BY <3>2 DEF BooksType
    <3>3. CASE UNCHANGED <<lapsed, expired>>
      BY <3>3 DEF BooksType
    <3>4. QED
      BY <1>11, <3>1, <3>2, <3>3, Zenon DEF Logout, AccessExpires, RefreshLapses, vars
  <2>4. store' \in saved \cup {None} /\ current' \in saved \cup {None}
    BY <1>11 DEF Logout, AccessExpires, RefreshLapses, vars, BooksType
  <2>5. BooksType'
    BY <2>2, <2>3, <2>4 DEF BooksType
  <2>6. QED
    BY <2>1, <2>5
<1>12. ASSUME NEW p \in Procs, Crash(p)
       PROVE  TypeOK'
  BY <1>1, <1>12 DEF Crash
<1>13. QED
  BY <1>4, <1>5, <1>6, <1>7, <1>8, <1>9, <1>10, <1>11, <1>12, Zenon
  DEF Next, RequestStep, LoginStep, Environment

-----------------------------------------------------------------------------
(* The other conjuncts, shape by shape.                                    *)

\* What issuing a token set changes in ANAF's books.
LEMMA IssueFacts ==
  ASSUME BooksType, NEW from, NEW request, Issue(from, request)
  PROVE  /\ last' = last + 1 /\ last + 1 \in Gens /\ last + 1 \notin 1..last
         /\ 1..last' = (1..last) \cup {last + 1}
         /\ parent'[last + 1] = from /\ buyer'[last + 1] = request
         /\ \A h \in 1..last : parent'[h] = parent[h] /\ buyer'[h] = buyer[h]
<1>1. last \in Nat /\ MaxGen \in Nat /\ last' = last + 1 /\ last + 1 \in Gens
  BY BoundsType DEF Issue, BooksType
<1>2. last + 1 \notin 1..last /\ 1..last' = (1..last) \cup {last + 1}
  BY <1>1
<1>3. parent'[last + 1] = from /\ buyer'[last + 1] = request
  BY <1>1 DEF Issue, BooksType
<1>4. ASSUME NEW h \in 1..last
      PROVE  parent'[h] = parent[h] /\ buyer'[h] = buyer[h]
  BY <1>1 DEF Issue, BooksType
<1>5. QED
  BY <1>1, <1>2, <1>3, <1>4

\* Ancestry is kept: what changes is one set issued, or one saved.
LEMMA AncestryStep ==
  ASSUME TokenInv, [Next]_vars
  PROVE  Ancestry'
<1>0. BooksType /\ Ancestry /\ Pending /\ MaxGen \in Nat
  BY BoundsType DEF TokenInv, TypeOK
<1>1. ASSUME UNCHANGED <<last, parent, buyer, saved, logins>>
      PROVE  Ancestry'
  BY <1>0, <1>1 DEF Ancestry
<1>2. ASSUME NEW from \in saved \cup {0}, NEW request \in Requests \cup {None},
             Issue(from, request), from # 0 => request \in Requests, saved' = saved,
             \/ logins' = logins
             \/ from = 0 /\ logins' = logins \cup {last + 1}
      PROVE  Ancestry'
  <2>1. logins \subseteq 1..last /\ saved \subseteq 1..last
    BY <1>0 DEF BooksType
  <2>2. /\ last + 1 \notin 1..last /\ 1..last' = (1..last) \cup {last + 1}
        /\ parent'[last + 1] = from /\ buyer'[last + 1] = request
        /\ \A h \in 1..last : parent'[h] = parent[h] /\ buyer'[h] = buyer[h]
    BY <1>0, <1>2, IssueFacts, Zenon
  <2>3. ASSUME NEW h \in 1..last', parent'[h] # 0
        PROVE  parent'[h] \in saved' /\ buyer'[h] \in Requests
    BY <1>0, <1>2, <2>2, <2>3 DEF Ancestry
  <2>4. ASSUME NEW g \in logins'
        PROVE  g \notin saved' /\ parent'[g] = 0
    BY <1>0, <1>2, <2>1, <2>2, <2>4 DEF Ancestry
  <2>5. QED
    BY <2>3, <2>4 DEF Ancestry
<1>3. CASE ExchangeCode
  <2>1. Issue(0, None) /\ saved' = saved /\ logins' = logins \cup {last + 1}
    BY <1>3 DEF ExchangeCode, storeVars
  <2>2. QED
    BY <1>2, <2>1
<1>4. ASSUME NEW r \in Requests, Rotate(r)
      PROVE  Ancestry'
  <2>1. base[r] \in saved /\ base[r] # 0
    BY <1>0, <1>4 DEF Rotate, Pending, BooksType
  <2>2. saved' = saved /\ logins' = logins
    BY <1>4 DEF Rotate, storeVars
  <2>3. CASE Rotated(base[r])
    BY <1>1, <1>4, <2>2, <2>3 DEF Rotate, issueVars
  <2>4. CASE ~Rotated(base[r])
    <3>1. Issue(base[r], r)
      BY <1>4, <2>4 DEF Rotate
    <3>2. QED
      BY <1>2, <2>1, <2>2, <3>1
  <2>5. QED
    BY <2>3, <2>4
<1>5. ASSUME NEW r \in Requests, Refreshed(r)
      PROVE  Ancestry'
  <2>1. parent[answer[r]] # 0
    BY <1>0, <1>5 DEF Refreshed, Pending, BooksType
  <2>2. QED
    BY <1>0, <1>5, <2>1 DEF Refreshed, Ancestry, issueVars
<1>6. ASSUME NEW g \in Gens, FinishLogin(g)
      PROVE  Ancestry'
  BY <1>0, <1>6 DEF FinishLogin, Ancestry, issueVars
<1>7. CASE Quiet \/ Clear
  BY <1>1, <1>7 DEF Quiet, Clear
<1>8. CASE Drop
  BY <1>1, <1>8 DEF Drop
<1>9. ASSUME NEW r \in Requests, Move(r) \/ Post(r)
      PROVE  Ancestry'
  BY <1>1, <1>9 DEF Move, Post
<1>10. QED
  BY <1>3, <1>4, <1>5, <1>6, <1>7, <1>8, <1>9, StepShape

\* A rotation is paid with a set whose access token had expired or failed.
LEMMA JustifiedStep ==
  ASSUME TokenInv, [Next]_vars
  PROVE  RotationsJustified'
<1>0. BooksType /\ Pending /\ RotationsJustified /\ MaxGen \in Nat
  BY BoundsType DEF TokenInv, TypeOK
<1>1. ASSUME UNCHANGED <<last, parent>>, expired' \in {expired, expired + 1},
             rejected \subseteq rejected'
      PROVE  RotationsJustified'
  BY <1>0, <1>1 DEF RotationsJustified, BooksType
<1>2. ASSUME NEW from \in saved \cup {0}, NEW request, Issue(from, request),
             UNCHANGED <<expired, rejected>>,
             from # 0 => from <= expired \/ from \in rejected
      PROVE  RotationsJustified'
  BY <1>0, <1>2, IssueFacts DEF RotationsJustified
<1>3. CASE ExchangeCode
  <2>1. Issue(0, None) /\ UNCHANGED <<expired, rejected>>
    BY <1>3 DEF ExchangeCode, validity
  <2>2. QED
    BY <1>2, <2>1
<1>4. ASSUME NEW r \in Requests, Rotate(r)
      PROVE  RotationsJustified'
  <2>1. base[r] \in saved /\ (base[r] <= expired \/ base[r] \in rejected)
    BY <1>0, <1>4 DEF Rotate, Pending
  <2>2. UNCHANGED <<expired, rejected>>
    BY <1>4 DEF Rotate, validity
  <2>3. CASE Rotated(base[r])
    BY <1>1, <1>4, <2>2, <2>3 DEF Rotate, issueVars
  <2>4. CASE ~Rotated(base[r])
    <3>1. Issue(base[r], r)
      BY <1>4, <2>4 DEF Rotate
    <3>2. QED
      BY <1>2, <2>1, <2>2, <3>1
  <2>5. QED
    BY <2>3, <2>4
<1>5. ASSUME NEW r \in Requests, Refreshed(r)
      PROVE  RotationsJustified'
  BY <1>1, <1>5 DEF Refreshed, issueVars, validity
<1>6. ASSUME NEW g \in Gens, FinishLogin(g)
      PROVE  RotationsJustified'
  BY <1>1, <1>6 DEF FinishLogin, issueVars, validity
<1>7. CASE Quiet \/ Clear
  BY <1>1, <1>7 DEF Quiet, Clear
<1>8. CASE Drop
  BY <1>1, <1>8 DEF Drop
<1>9. ASSUME NEW r \in Requests, Move(r) \/ Post(r)
      PROVE  RotationsJustified'
  BY <1>1, <1>9 DEF Move, Post
<1>10. QED
  BY <1>3, <1>4, <1>5, <1>6, <1>7, <1>8, <1>9, StepShape

\* Requests keep what they know of their tokens and locks.
LEMMA PendingStep ==
  ASSUME TokenInv, [Next]_vars
  PROVE  Pending'
<1>0. BooksType /\ CallType /\ Pending /\ Ancestry
  BY DEF TokenInv, TypeOK
<1>1. saved \subseteq Gens /\ saved \subseteq 1..last /\ store \in saved \cup {None}
  BY <1>0, BoundsType DEF BooksType
<1> USE MarkersDiffer, ProcOfType
<1>2. ASSUME UNCHANGED <<last, parent, buyer, pc, lock, bearer, base, posts, answer>>,
             expired' \in {expired, expired + 1}, UNCHANGED <<rejected, saved>>
      PROVE  Pending'
  <2>1. ASSUME NEW r \in posts, base[r] <= expired
        PROVE  base[r] <= expired'
    <3>1. base[r] \in saved
      BY <1>0 DEF Pending
    <3>2. base[r] \in Nat /\ expired \in Nat
      <4>1. last \in Nat
        BY <1>0, BoundsType DEF BooksType
      <4>2. expired \in 0..last /\ base[r] \in 1..last
        BY <1>0, <1>1, <3>1 DEF BooksType
      <4>3. QED
        BY <4>1, <4>2
    <3>3. QED
      BY <1>2, <2>1, <3>2
  <2>2. QED
    BY <1>0, <1>2, <2>1 DEF Pending, Rotated
<1>3. CASE Quiet \/ Clear
  BY <1>2, <1>3 DEF Quiet, Clear
<1>4. ASSUME NEW r \in Requests, Move(r)
      PROVE  Pending'
  BY <1>0, <1>1, <1>4 DEF Move, Pending, CallType, Rotated
<1>5. ASSUME NEW r \in Requests, Post(r)
      PROVE  Pending'
  BY <1>0, <1>1, <1>5 DEF Post, Pending, CallType, Rotated
<1>6. CASE Drop
  BY <1>0, <1>1, <1>6 DEF Drop, Abort, Pending, CallType, Rotated
<1>7. CASE ExchangeCode
  BY <1>0, <1>1, <1>7, IssueFacts DEF ExchangeCode, Pending, Rotated, validity, storeVars, callVars
<1>8. ASSUME NEW r \in Requests, Rotate(r)
      PROVE  Pending'
  <2>1. UNCHANGED <<expired, rejected, saved, lock, pc, bearer>> /\ posts' = posts \ {r}
    BY <1>8 DEF Rotate, validity, storeVars
  <2>2. CASE Rotated(base[r])
    <3>1. UNCHANGED <<last, parent, buyer>>
      BY <1>8, <2>2 DEF Rotate, issueVars
    <3>2. QED
      BY <1>0, <1>1, <1>8, <2>1, <2>2, <3>1 DEF Rotate, Pending, Rotated, CallType
  <2>3. CASE ~Rotated(base[r])
    <3>1. Issue(base[r], r)
      BY <1>8, <2>3 DEF Rotate
    <3>2. /\ last + 1 \in Gens /\ last + 1 \notin 1..last /\ 1..last' = (1..last) \cup {last + 1}
          /\ parent'[last + 1] = base[r] /\ buyer'[last + 1] = r
          /\ \A h \in 1..last : parent'[h] = parent[h] /\ buyer'[h] = buyer[h]
      BY <1>0, <3>1, IssueFacts, Zenon
    <3>3. QED
      BY <1>0, <1>1, <1>8, <2>1, <2>3, <3>2 DEF Rotate, Pending, Rotated, CallType
  <2>4. QED
    BY <2>2, <2>3
<1>9. ASSUME NEW r \in Requests, Refreshed(r)
      PROVE  Pending'
  BY <1>0, <1>1, <1>9 DEF Refreshed, Goto, Release, Pending, Rotated, CallType, validity, issueVars
<1>10. ASSUME NEW g \in Gens, FinishLogin(g)
       PROVE  Pending'
  BY <1>0, <1>1, <1>10 DEF FinishLogin, Pending, Rotated, Ancestry, validity, issueVars, callVars
<1>11. QED
  BY <1>3, <1>4, <1>5, <1>6, <1>7, <1>8, <1>9, <1>10, StepShape

\* A set that was bought and not saved still waits at its buyer.
LEMMA UnsavedStep ==
  ASSUME TokenInv, [Next]_vars
  PROVE  Unsaved'
<1>0. BooksType /\ CallType /\ Pending /\ Ancestry /\ Unsaved
  BY DEF TokenInv, TypeOK
<1>1. saved \subseteq Gens /\ saved \subseteq 1..last
  BY <1>0, BoundsType DEF BooksType
<1> USE MarkersDiffer
<1>2. CASE Quiet \/ Clear
  BY <1>0, <1>2 DEF Quiet, Clear, Unsaved
<1>3. ASSUME NEW r \in Requests, Move(r) \/ Post(r)
      PROVE  Unsaved'
  BY <1>0, <1>3 DEF Move, Post, Unsaved, Ancestry, CallType
<1>4. CASE Drop
  BY <1>0, <1>4 DEF Drop, Abort, Unsaved, Ancestry, CallType
<1>5. CASE ExchangeCode
  BY <1>0, <1>1, <1>5, IssueFacts DEF ExchangeCode, Unsaved, storeVars, callVars
<1>6. ASSUME NEW r \in Requests, Rotate(r)
      PROVE  Unsaved'
  <2>1. UNCHANGED <<saved, pc>> /\ r \in posts /\ answer[r] = None
    BY <1>0, <1>6 DEF Rotate, storeVars, Pending
  <2>0. \A h \in 1..last, q \in Requests : answer[q] = h => answer'[q] = h
    BY <1>0, <1>6, <2>1, BoundsType DEF Rotate, CallType, BooksType
  <2>2. CASE Rotated(base[r])
    <3>1. UNCHANGED <<last, parent, buyer>>
      BY <1>6, <2>2 DEF Rotate, issueVars
    <3>2. ASSUME NEW h \in (1..last) \ saved, parent[h] # 0
          PROVE  \/ pc[buyer[h]] = "failed"
                 \/ pc[buyer[h]] \in Refreshing /\ answer'[buyer[h]] = h
      BY <1>0, <2>0, <3>2 DEF Unsaved, Ancestry
    <3>3. QED
      BY <2>1, <3>1, <3>2 DEF Unsaved
  <2>3. CASE ~Rotated(base[r])
    <3>1. Issue(base[r], r)
      BY <1>6, <2>3 DEF Rotate
    <3>2. /\ last + 1 \in Gens /\ last + 1 \notin 1..last /\ 1..last' = (1..last) \cup {last + 1}
          /\ parent'[last + 1] = base[r] /\ buyer'[last + 1] = r
          /\ \A h \in 1..last : parent'[h] = parent[h] /\ buyer'[h] = buyer[h]
      BY <1>0, <3>1, IssueFacts, Zenon
    <3>3. pc[r] \in Refreshing \cup {"failed"}
      BY <1>0, <2>1 DEF Pending
    <3>4. pc[r] \in Refreshing => answer'[r] = last + 1
      BY <1>0, <1>6, <2>3 DEF Rotate, CallType
    <3>5. ASSUME NEW h \in (1..last) \ saved, parent[h] # 0
          PROVE  \/ pc[buyer[h]] = "failed"
                 \/ pc[buyer[h]] \in Refreshing /\ answer'[buyer[h]] = h
      BY <1>0, <2>0, <3>5 DEF Unsaved, Ancestry
    <3>6. QED
      BY <2>1, <3>2, <3>3, <3>4, <3>5 DEF Unsaved
  <2>4. QED
    BY <2>2, <2>3
<1>7. ASSUME NEW r \in Requests, Refreshed(r)
      PROVE  Unsaved'
  BY <1>0, <1>1, <1>7 DEF Refreshed, Goto, Unsaved, Ancestry, CallType, issueVars
<1>8. ASSUME NEW g \in Gens, FinishLogin(g)
      PROVE  Unsaved'
  BY <1>0, <1>8 DEF FinishLogin, Unsaved, issueVars, callVars
<1>9. QED
  BY <1>2, <1>3, <1>4, <1>5, <1>6, <1>7, <1>8, StepShape

\* No successor of the stored set, nor of one about to be rotated, gets saved
\* behind the back of its process.
LEMMA NotBehindStep ==
  ASSUME TokenInv, [Next]_vars
  PROVE  NotBehind'
<1>0. BooksType /\ CallType /\ Pending /\ Ancestry /\ NotBehind
  BY DEF TokenInv, TypeOK
<1>1. saved \subseteq Gens /\ saved \subseteq 1..last
  BY <1>0, BoundsType DEF BooksType
<1> USE MarkersDiffer, ProcOfType
<1>2. CASE Quiet
  BY <1>0, <1>2 DEF Quiet, NotBehind
<1>3. CASE Clear
  BY <1>0, <1>1, <1>3 DEF Clear, NotBehind, BooksType, Ancestry
<1>4. ASSUME NEW r \in Requests, Move(r)
      PROVE  NotBehind'
  BY <1>0, <1>4 DEF Move, NotBehind, CallType
<1>5. ASSUME NEW r \in Requests, Post(r)
      PROVE  NotBehind'
  BY <1>0, <1>5 DEF Post, NotBehind, CallType
<1>6. CASE Drop
  BY <1>0, <1>6 DEF Drop, Abort, NotBehind, CallType
<1>7. CASE ExchangeCode
  BY <1>0, <1>1, <1>7, IssueFacts DEF ExchangeCode, NotBehind, storeVars, callVars
<1>8. ASSUME NEW r \in Requests, Rotate(r)
      PROVE  NotBehind'
  <2>1. UNCHANGED <<store, saved, pc>> /\ r \in posts
    BY <1>8 DEF Rotate, storeVars
  <2>2. \A q \in Requests : pc[q] \in Refreshing => base'[q] = base[q]
    BY <1>0, <1>8 DEF Rotate, CallType
  <2>3. \A h \in saved : parent'[h] = parent[h] /\ buyer'[h] = buyer[h]
    BY <1>0, <1>1, <1>8, IssueFacts DEF Rotate, issueVars
  <2>4. QED
    BY <1>0, <1>1, <2>1, <2>2, <2>3 DEF NotBehind
<1>9. ASSUME NEW r \in Requests, Refreshed(r)
      PROVE  NotBehind'
  <2> DEFINE k == answer[r]
  <2>1. /\ k \in (1..last) \ saved /\ parent[k] = base[r] /\ buyer[k] = r
        /\ store' = k /\ saved' = saved \cup {k}
        /\ UNCHANGED <<last, parent, buyer>>
    BY <1>0, <1>9 DEF Refreshed, Pending, issueVars
  <2>2. \A h \in 1..last : parent[h] # k
    BY <1>0, <2>1 DEF Ancestry, BooksType
  <2>3. \A q \in Requests : pc'[q] \in Refreshing =>
            pc[q] \in Refreshing /\ base'[q] = base[q] /\ q # r
    BY <1>0, <1>9 DEF Refreshed, Goto, CallType
  <2>4. \A q \in Requests : pc'[q] \in Refreshing => ProcOf[q] # ProcOf[r]
    BY <1>0, <1>9, <2>3 DEF Refreshed, Pending
  <2>5. QED
    BY <1>0, <2>1, <2>2, <2>3, <2>4 DEF NotBehind
<1>10. ASSUME NEW g \in Gens, FinishLogin(g)
       PROVE  NotBehind'
  <2>1. /\ g \in logins /\ store' = g /\ saved' = saved \cup {g} /\ parent[g] = 0
        /\ UNCHANGED <<last, parent, buyer, pc, base>>
    BY <1>0, <1>10 DEF FinishLogin, Ancestry, issueVars, callVars
  <2>2. \A h \in 1..last : parent[h] # 0 => parent[h] # g
    BY <1>0, <2>1 DEF Ancestry
  <2>3. QED
    BY <1>0, <2>1, <2>2 DEF NotBehind
<1>11. QED
  BY <1>2, <1>3, <1>4, <1>5, <1>6, <1>7, <1>8, <1>9, <1>10, StepShape

-----------------------------------------------------------------------------
(* The theorems.                                                           *)

\* TokenInv is an invariant.
THEOREM TokenInvariant == Spec => []TokenInv
<1>1. TokenInv /\ [Next]_vars => TokenInv'
  <2> SUFFICES ASSUME TokenInv, [Next]_vars PROVE TokenInv'
    OBVIOUS
  <2> QED
    BY TypeStep, AncestryStep, PendingStep, UnsavedStep, NotBehindStep, JustifiedStep
    DEF TokenInv
<1>2. QED
  BY InitTokenInv, <1>1, PTL DEF Spec

\* Every variable keeps its type.
THEOREM TokenTypes == Spec => []TypeOK
<1>1. TokenInv => TypeOK
  BY DEF TokenInv
<1>2. QED
  BY <1>1, TokenInvariant, PTL

\* Whatever processes, logins, logouts and crashes do, the stored refresh token
\* is spent only while its successor is on its way, or after a request that
\* bought it failed.
THEOREM NeverBehind == Spec => []BehindOnlyByAccident
<1>1. TokenInv => BehindOnlyByAccident
  <2> SUFFICES ASSUME TokenInv, NEW h \in 1..last, store # None, parent[h] = store
               PROVE  h \notin saved /\ pc[buyer[h]] \in Refreshing \cup {"failed"}
    BY DEF BehindOnlyByAccident
  <2>1. parent[h] # 0
    BY DEF TokenInv, TypeOK, BooksType
  <2>2. h \notin saved
    BY <2>1 DEF TokenInv, NotBehind
  <2>3. QED
    BY <2>1, <2>2 DEF TokenInv, Unsaved
<1>2. QED
  BY <1>1, TokenInvariant, PTL

\* No rotation is wasted, for any number of requests that see the same 401.
THEOREM NoRotationWasted == Spec => []RotationsJustified
<1>1. TokenInv => RotationsJustified
  BY DEF TokenInv
<1>2. QED
  BY <1>1, TokenInvariant, PTL

\* A process never races itself to a refresh token.
THEOREM SingleFlight == Spec => []RefusedOnlyByRace
<1>1. TokenInv => RefusedOnlyByRace
  <2> SUFFICES ASSUME TokenInv, NEW r \in Requests, pc[r] \in Refreshing, answer[r] = Refused
               PROVE  \E h \in 1..last : /\ parent[h] = base[r]
                                         /\ h \notin saved \/ ProcOf[buyer[h]] # ProcOf[r]
    BY DEF RefusedOnlyByRace
  <2>1. Rotated(base[r]) /\ base[r] \in saved /\ saved \subseteq 1..last
    BY DEF TokenInv, TypeOK, BooksType, Pending
  <2>2. PICK h \in 1..last : parent[h] = base[r]
    BY <2>1 DEF Rotated
  <2>3. parent[h] # 0
    BY <2>1, <2>2 DEF TokenInv, TypeOK, BooksType
  <2>4. QED
    BY <2>2, <2>3 DEF TokenInv, NotBehind
<1>2. QED
  BY <1>1, TokenInvariant, PTL
=============================================================================
