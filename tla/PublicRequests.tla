--------------------------- MODULE PublicRequests ---------------------------
(***************************************************************************)
(* PublicClient (public/client.py): concurrent requests spaced by          *)
(* _RequestPacer, cancelled at any point, answered by ANAF or by the       *)
(* firewall in front of it, and read as a result or an error.              *)
(*                                                                         *)
(* The lock is an asyncio.Lock: first come, first served.  Time is         *)
(* discrete, and the event loop punctual.                                  *)
(***************************************************************************)
EXTENDS Integers, Sequences, SequencesExt

CONSTANTS
    Requests,       \* calls of the client's methods
    Interval,       \* min_request_interval
    LastMoment      \* bound: how long a behaviour lasts

ASSUME PacerBounds == Interval \in Nat \ {0} /\ LastMoment \in Nat

VARIABLES
    moment,     \* loop.time()
    line,       \* the lock: its holder and those who wait for it
    earliest,   \* _earliest
    request,    \* the calls
    sends       \* when the requests were released, in order

pubVars == <<moment, line, earliest, request, sends>>

\* The registers' lookups, the one that tolerates 404, and transformare without
\* and with ANAF's validation.
Kinds == {"lookup", "register", "render_da", "render"}

\* What can come back: a payload, the firewall's block page, a register's "no
\* data", anything else; under a status; or nothing.
Responses ==
    {[body |-> "none", status |-> 0]} \cup
    [body : {"payload", "blocked", "no_data", "junk"}, status : {200, 404, 429}]

RequestStates == [at : {"idle", "queued", "asleep", "away", "done"}, kind : Kinds,
                  arrived : Nat, ended : {"none", "result", "error", "cancelled"}]

NoRequest == [at |-> "idle", kind |-> "lookup", arrived |-> 0, ended |-> "none"]

PubInit ==
    /\ moment = 0 /\ line = <<>> /\ earliest = 0 /\ sends = <<>>
    /\ request = [r \in Requests |-> NoRequest]

Ended(how) == [NoRequest EXCEPT !.at = "done", !.ended = how]

Larger(a, b) == IF a > b THEN a ELSE b

-----------------------------------------------------------------------------
(* _RequestPacer.wait.                                                     *)

Call(r, kind) ==
    /\ request[r].at = "idle"
    /\ request' = [request EXCEPT ![r].at = "queued", ![r].kind = kind, ![r].arrived = moment]
    /\ line' = Append(line, r)
    /\ UNCHANGED <<moment, earliest, sends>>

\* The holder looks at `_earliest` and goes to sleep, if only for no time.
Sleep(r) ==
    /\ line # <<>> /\ Head(line) = r /\ request[r].at = "queued"
    /\ request' = [request EXCEPT ![r].at = "asleep"]
    /\ UNCHANGED <<moment, line, earliest, sends>>

EarliestFromBefore == earliest + Interval   \* mutant: counted from the last slot, not from now

NextEarliest == moment + Interval

Proceed(r) ==
    /\ request[r].at = "asleep" /\ moment >= earliest
    /\ earliest' = NextEarliest
    /\ sends' = Append(sends, moment)
    /\ line' = Tail(line)
    /\ request' = [request EXCEPT ![r].at = "away", ![r].arrived = 0]
    /\ UNCHANGED moment

CancelledPays(r) ==   \* mutant: `_earliest` is set in a finally
    IF request[r].at = "asleep" THEN moment + Interval ELSE earliest

EarliestAfterCancel(r) == earliest

\* Cancelled in the line, in its sleep, or with the request on the wire.
Cancel(r) ==
    /\ request[r].at \in {"queued", "asleep", "away"}
    /\ request' = [request EXCEPT ![r] = Ended("cancelled")]
    /\ line' = RemoveFirst(line, r)
    /\ earliest' = EarliestAfterCancel(r)
    /\ UNCHANGED <<moment, sends>>

-----------------------------------------------------------------------------
(* _request_checked and the parsers behind it.                             *)

Tolerates(kind, status) == kind = "register" /\ status = 404

\* The block page is looked for before the status, which it need not show in.
BlockPage(a) == a.body = "blocked"

\* What the operation makes of a body that got through: the registers check its
\* shape, a tolerated 404 must have the register's, transformare hands it on.
IsResult(kind, a) ==
    /\ ~BlockPage(a) /\ (a.status = 200 \/ Tolerates(kind, a.status))
    /\ \/ kind \in {"render", "render_da"}
       \/ a.body = "payload"
       \/ kind = "register" /\ a.body = "no_data"

\* A block page on the skip-validation path is followed by one more request, in
\* its turn, on the validating path.
Receive(r, a) ==
    /\ request[r].at = "away"
    /\ IF request[r].kind = "render_da" /\ BlockPage(a)
       THEN /\ request' = [request EXCEPT ![r].at = "queued", ![r].kind = "render",
                                          ![r].arrived = moment]
            /\ line' = Append(line, r)
       ELSE /\ request' = [request EXCEPT ![r] =
                              Ended(IF IsResult(request[r].kind, a) THEN "result" ELSE "error")]
            /\ line' = line
    /\ UNCHANGED <<moment, earliest, sends>>

\* Punctual: whoever can go on goes on before time does.
MomentPasses ==
    /\ moment < LastMoment
    /\ line # <<>> => request[Head(line)].at = "asleep" /\ moment < earliest
    /\ moment' = moment + 1
    /\ UNCHANGED <<line, earliest, request, sends>>

PubNext ==
    \/ \E r \in Requests :
          \/ \E kind \in Kinds \ {"render"} : Call(r, kind)
          \/ Sleep(r) \/ Proceed(r) \/ Cancel(r)
          \/ \E a \in Responses : Receive(r, a)
    \/ MomentPasses

PubSpec == PubInit /\ [][PubNext]_pubVars

-----------------------------------------------------------------------------
(* Properties.                                                             *)

PubTypeOK ==
    /\ moment \in Nat /\ earliest \in Nat
    /\ line \in Seq(Requests) /\ sends \in Seq(Nat)
    /\ request \in [Requests -> RequestStates]

\* "Consecutive sends stay interval seconds apart", whoever is cancelled and
\* whatever is retried: no window of time holds more requests than ANAF allows.
Spaced ==
    \A i, j \in DOMAIN sends : i < j => sends[j] - sends[i] >= (j - i) * Interval

\* And no slower than that: while calls wait, the next one is never kept past
\* the interval - a cancelled call takes nobody's turn.
NoSlotWasted ==
    line # <<>> => moment <= Larger(request[Head(line)].arrived,
                                    IF sends = <<>> THEN 0 ELSE Last(sends) + Interval)
=============================================================================
