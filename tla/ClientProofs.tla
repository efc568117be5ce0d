---------------------------- MODULE ClientProofs ----------------------------
(***************************************************************************)
(* The ANAF clients, for every number of calls.  The pacer of the public   *)
(* services: types, that requests leave an interval apart, and that no     *)
(* slot is wasted.  The message listing: types, that no message is         *)
(* skipped, and that a skewed clock costs one correction.  The BNR         *)
(* exchange rates: types, that an answer misses only what was published    *)
(* while its document was kept or fetched, and that the answers for a day  *)
(* do not go back.  And the authored invoice, for every document: types,   *)
(* that what is computed adds up, and that what was read back renders the  *)
(* same.                                                                   *)
(***************************************************************************)
EXTENDS PublicRequests, MessageListing, BnrRates, InvoiceTotals, SequenceTheorems,
        FiniteSetTheorems, WellFoundedInduction, TLAPS

(* The pacer.                                                              *)

\* A call stands in the line while it waits or sleeps, once, and sleeps only at
\* its head; who stands further back has not come earlier.
InLine ==
    /\ \A i \in 1..Len(line) : request[line[i]].at \in {"queued", "asleep"}
    /\ \A i, j \in 1..Len(line) : line[i] = line[j] => i = j
    /\ \A r \in Requests : request[r].at = "asleep" => line # <<>> /\ line[1] = r
    /\ \A i, j \in 1..Len(line) : i < j => request[line[i]].arrived <= request[line[j]].arrived

\* `_earliest` is one interval past the last release, which lies in the past.
Due ==
    /\ earliest = IF sends = <<>> THEN 0 ELSE sends[Len(sends)] + Interval
    /\ \A i \in 1..Len(sends) : sends[i] <= moment
    /\ \A r \in Requests : request[r].arrived <= moment

\* Spaced and NoSlotWasted are not inductive alone: the next release is decided
\* from `_earliest`, and who is next when a call leaves from the line.
PacerInv == PubTypeOK /\ InLine /\ Due /\ Spaced /\ NoSlotWasted

-----------------------------------------------------------------------------
(* Sequences and records.                                                  *)

\* A set of numbers that is not empty has a least one.
LEMMA LeastNumber ==
    ASSUME NEW T \in SUBSET Nat, T # {}
    PROVE  \E m \in T : \A n \in T : m <= n
<1> DEFINE R == {p \in Nat \X Nat : p[1] < p[2]}
<1>1. IsWellFoundedOn(R, Nat)  BY NatLessThanWellFounded DEF OpToRel
<1>2. \A m, n \in T : n < m => <<n, m>> \in R  OBVIOUS
<1> HIDE DEF R
<1>3. PICK m \in T : \A n \in T : ~(<<n, m>> \in R)  BY <1>1, WFMin
<1>4. \A n \in T : m <= n
  <2> SUFFICES ASSUME NEW n \in T PROVE ~(n < m)
    BY DEF R
  <2>1. QED  BY <1>2, <1>3
<1>5. QED  BY <1>4

\* Leaving the line: nothing happens to who does not stand in it; otherwise the
\* ones behind move up by one.
LEMMA Leaving ==
    ASSUME NEW S, NEW s \in Seq(S), NEW e
    PROVE  \/ RemoveFirst(s, e) = s /\ \A i \in 1..Len(s) : s[i] # e
           \/ \E k \in 1..Len(s) :
                 /\ s[k] = e /\ RemoveFirst(s, e) \in Seq(S)
                 /\ Len(RemoveFirst(s, e)) = Len(s) - 1
                 /\ \A i \in 1..(Len(s) - 1) :
                       RemoveFirst(s, e)[i] = IF i < k THEN s[i] ELSE s[i + 1]
<1>1. CASE \A i \in 1..Len(s) : s[i] # e
  BY <1>1 DEF RemoveFirst
<1>2. CASE \E i \in 1..Len(s) : s[i] = e
  <2> DEFINE I == {i \in 1..Len(s) : s[i] = e}
             k == SelectInSeq(s, LAMBDA v : v = e)
             Head1 == SubSeq(s, 1, k - 1)
             Rest == SubSeq(s, k + 1, Len(s))
  <2>1. I # {}  BY <1>2
  <2>2. k = Min(I)  BY <2>1 DEF SelectInSeq
  <2>3. \E m \in I : \A n \in I : m <= n
    <3>1. I \in SUBSET Nat  OBVIOUS
    <3>2. QED  BY <2>1, <3>1, LeastNumber
  <2>4. k \in I  BY <2>2, <2>3 DEF Min
  <2>5. RemoveFirst(s, e) = Head1 \o Rest
    BY <1>2 DEF RemoveFirst, RemoveAt
  <2> HIDE DEF k
  <2>6. k \in 1..Len(s) /\ s[k] = e  BY <2>4
  <2>7. Head1 \in Seq(S) /\ Len(Head1) = k - 1 /\ \A i \in 1..(k - 1) : Head1[i] = s[i]
    BY <2>6
  <2>8. Rest \in Seq(S) /\ Len(Rest) = Len(s) - k /\ \A i \in 1..(Len(s) - k) : Rest[i] = s[k + i]
    BY <2>6
  <2> HIDE DEF Head1, Rest
  <2>9. /\ Head1 \o Rest \in Seq(S) /\ Len(Head1 \o Rest) = Len(s) - 1
        /\ \A i \in 1..(Len(s) - 1) :
              (Head1 \o Rest)[i] = IF i < k THEN Head1[i] ELSE Rest[i - (k - 1)]
    <3>1. Len(Head1) + Len(Rest) = Len(s) - 1  BY <2>6, <2>7, <2>8
    <3>2. /\ Head1 \o Rest \in Seq(S) /\ Len(Head1 \o Rest) = Len(Head1) + Len(Rest)
          /\ \A i \in 1..(Len(Head1) + Len(Rest)) :
                (Head1 \o Rest)[i] = IF i <= Len(Head1) THEN Head1[i] ELSE Rest[i - Len(Head1)]
      BY <2>7, <2>8, ConcatProperties
    <3>3. Len(Head1) = k - 1  BY <2>7
    <3>4. \A i \in 1..(Len(s) - 1) : i <= k - 1 <=> i < k  BY <2>6
    <3>5. QED  BY <3>1, <3>2, <3>3, <3>4
  <2>10. \A i \in 1..(Len(s) - 1) :
             (Head1 \o Rest)[i] = IF i < k THEN s[i] ELSE s[i + 1]
    <3> SUFFICES ASSUME NEW i \in 1..(Len(s) - 1)
                 PROVE  (Head1 \o Rest)[i] = IF i < k THEN s[i] ELSE s[i + 1]
      OBVIOUS
    <3>1. CASE i < k  BY <2>6, <2>7, <2>9, <3>1
    <3>2. CASE ~(i < k)
      <4>1. i - (k - 1) \in 1..(Len(s) - k) /\ k + (i - (k - 1)) = i + 1  BY <2>6, <3>2
      <4>2. QED  BY <2>8, <2>9, <3>2, <4>1
    <3>3. QED  BY <3>1, <3>2
  <2>11. QED  BY <2>5, <2>6, <2>9, <2>10
<1>3. QED  BY <1>1, <1>2

LEMMA InitPacer == PubInit => PacerInv
<1> SUFFICES ASSUME PubInit PROVE PacerInv
  OBVIOUS
<1> USE DEF PubInit
<1>1. NoRequest \in RequestStates /\ NoRequest.at = "idle" /\ NoRequest.arrived = 0
  BY DEF NoRequest, RequestStates, Kinds
<1>2. PubTypeOK  BY <1>1 DEF PubTypeOK
<1>3. InLine  BY <1>1 DEF InLine
<1>4. Due  BY <1>1 DEF Due
<1>5. Spaced  BY DEF Spaced
<1>6. NoSlotWasted  BY DEF NoSlotWasted
<1>7. QED  BY <1>2, <1>3, <1>4, <1>5, <1>6 DEF PacerInv

-----------------------------------------------------------------------------
(* The steps.                                                              *)

\* A release one interval past the last one keeps them all apart.
LEMMA NextRelease ==
    ASSUME PacerInv, moment >= earliest, sends' = Append(sends, moment)
    PROVE  Spaced' /\ sends' \in Seq(Nat) /\ \A i \in 1..Len(sends') : sends'[i] <= moment
<1> DEFINE n == Len(sends)
<1>1. sends \in Seq(Nat) /\ moment \in Nat /\ earliest \in Nat
  BY DEF PacerInv, PubTypeOK
<1>2. n \in Nat /\ DOMAIN sends = 1..n /\ Interval \in Nat /\ \A k \in 1..n : sends[k] \in Nat
  BY <1>1, PacerBounds
<1>3. /\ sends' \in Seq(Nat) /\ Len(sends') = n + 1 /\ DOMAIN sends' = 1..(n + 1)
      /\ sends'[n + 1] = moment /\ \A k \in 1..n : sends'[k] = sends[k]
  BY <1>1
<1>4. \A i, j \in 1..n : i < j => sends[j] - sends[i] >= (j - i) * Interval
  BY <1>2 DEF PacerInv, Spaced
<1>5. n # 0 => moment >= sends[n] + Interval
  BY <1>1, <1>2 DEF PacerInv, Due
<1>6. \A i \in 1..n : sends[i] <= moment
  BY DEF PacerInv, Due
<1> HIDE DEF n
<1>7. ASSUME NEW i \in 1..(n + 1), NEW j \in 1..(n + 1), i < j
      PROVE  sends'[j] - sends'[i] >= (j - i) * Interval
  <2>1. i \in 1..n /\ i \in Nat /\ j \in Nat  BY <1>2, <1>7
  <2>2. CASE j \in 1..n
    BY <1>3, <1>4, <1>7, <2>1, <2>2
  <2>3. CASE j = n + 1
    <3> DEFINE d == n - i
               gap == d * Interval
    <3>1. d \in Nat /\ j - i = d + 1 /\ gap \in Int  BY <1>2, <2>1, <2>3
    <3>2. sends[n] - sends[i] >= gap
      <4>1. CASE i = n
        <5>1. d = 0 /\ sends[n] - sends[i] = 0  BY <1>2, <2>1, <4>1
        <5>2. QED  BY <1>2, <5>1
      <4>2. CASE i # n
        <5>1. i < n /\ n \in 1..n  BY <1>2, <2>1, <4>2
        <5>2. QED  BY <1>4, <2>1, <5>1
      <4>3. QED  BY <4>1, <4>2
    <3>3. (d + 1) * Interval = gap + Interval  BY <1>2, <3>1
    <3>4. (j - i) * Interval = gap + Interval  BY <3>1, <3>3
    <3> HIDE DEF gap, d
    <3>5. n \in 1..n /\ n # 0  BY <1>2, <2>1
    <3>6. sends'[j] = moment /\ sends'[i] = sends[i] /\ sends[i] \in Nat /\ sends[n] \in Nat
      BY <1>2, <1>3, <2>1, <2>3, <3>5
    <3>7. moment - sends[i] >= gap + Interval
      BY <1>1, <1>2, <1>5, <3>1, <3>2, <3>5, <3>6
    <3>8. QED  BY <3>4, <3>6, <3>7
  <2>4. QED  BY <1>2, <2>2, <2>3
<1>8. Spaced'  BY <1>3, <1>7 DEF Spaced
<1>9. \A i \in 1..(n + 1) : sends'[i] <= moment
  BY <1>1, <1>2, <1>3, <1>6
<1>10. QED  BY <1>3, <1>8, <1>9

\* Whoever joins the line now has come last.
LEMMA JoiningKeeps ==
    ASSUME PacerInv, NEW r \in Requests, NEW q \in RequestStates,
           request[r].at \notin {"queued", "asleep"},
           q.at = "queued", q.arrived = moment,
           request' = [request EXCEPT ![r] = q],
           line' = Append(line, r), UNCHANGED <<moment, earliest, sends>>
    PROVE  PacerInv'
<1> USE DEF PacerInv, PubTypeOK
<1> DEFINE n == Len(line)
<1>1. /\ n \in Nat /\ Len(line') = n + 1 /\ line'[n + 1] = r
      /\ \A i \in 1..n : line'[i] = line[i] /\ line[i] \in Requests
      /\ line' \in Seq(Requests) /\ line' # <<>>
  OBVIOUS
<1>2. \A i \in 1..n : line[i] # r  BY <1>1 DEF InLine
<1>3. /\ request' \in [Requests -> RequestStates]
      /\ \A p \in Requests : request'[p] = IF p = r THEN q ELSE request[p]
  OBVIOUS
<1>4. \A p \in Requests : request[p].arrived \in Nat /\ request[p].arrived <= moment
  BY DEF Due, RequestStates
<1>5. PubTypeOK'  BY <1>1, <1>3
<1>6. InLine'
  <2>1. \A i \in 1..(n + 1) : request'[line'[i]] = IF i = n + 1 THEN q ELSE request[line[i]]
    BY <1>1, <1>2, <1>3
  <2>2. \A i, j \in 1..(n + 1) : line'[i] = line'[j] => i = j
    BY <1>1, <1>2 DEF InLine
  <2>3. \A i \in 1..(n + 1) : request'[line'[i]].at \in {"queued", "asleep"}
    BY <1>1, <2>1 DEF InLine
  <2>4. ASSUME NEW p \in Requests, request'[p].at = "asleep"
        PROVE  line'[1] = p
    <3>1. request[p].at = "asleep"  BY <1>3, <2>4
    <3>2. line # <<>> /\ line[1] = p  BY <3>1 DEF InLine
    <3>3. QED  BY <1>1, <3>2
  <2>5. \A i, j \in 1..(n + 1) :
            i < j => request'[line'[i]].arrived <= request'[line'[j]].arrived
    <3> SUFFICES ASSUME NEW i \in 1..(n + 1), NEW j \in 1..(n + 1), i < j
                 PROVE  request'[line'[i]].arrived <= request'[line'[j]].arrived
      OBVIOUS
    <3>1. i \in 1..n /\ request'[line'[i]] = request[line[i]] /\ line[i] \in Requests
      BY <1>1, <2>1
    <3>2. CASE j = n + 1  BY <1>1, <1>4, <2>1, <3>1, <3>2
    <3>3. CASE j \in 1..n
      <4>1. request'[line'[j]] = request[line[j]]  BY <1>1, <2>1, <3>3
      <4>2. QED  BY <3>1, <3>3, <4>1 DEF InLine
    <3>4. j \in 1..n \/ j = n + 1  BY <1>1
    <3>5. QED  BY <3>2, <3>3, <3>4
  <2>6. QED  BY <1>1, <2>2, <2>3, <2>4, <2>5 DEF InLine
<1>7. Due'  BY <1>3 DEF Due
<1>8. Spaced'  BY DEF Spaced
<1>9. NoSlotWasted'
  <2>1. CASE line = <<>>
    <3>1. Head(line') = r /\ request'[r].arrived = moment  BY <1>1, <1>3, <2>1
    <3>2. IF sends = <<>> THEN TRUE ELSE Last(sends) \in Nat  BY DEF Last
    <3>3. QED  BY PacerBounds, <3>1, <3>2 DEF NoSlotWasted, Larger
  <2>2. CASE line # <<>>
    <3>1. Head(line') = Head(line) /\ Head(line) = line[1]  BY <1>1, <2>2
    <3>2. request'[Head(line')] = request[Head(line)]  BY <1>1, <1>2, <1>3, <2>2, <3>1
    <3>3. QED  BY <2>2, <3>2 DEF NoSlotWasted
  <2>3. QED  BY <2>1, <2>2
<1>10. QED  BY <1>5, <1>6, <1>7, <1>8, <1>9

\* A step of one call that leaves the line as it is.
LEMMA InPlaceKeeps ==
    ASSUME PacerInv, NEW r \in Requests, NEW q \in RequestStates,
           q.arrived <= moment,
           (\E i \in 1..Len(line) : line[i] = r) =>
               q.at \in {"queued", "asleep"} /\ q.arrived = request[r].arrived,
           q.at = "asleep" => line # <<>> /\ line[1] = r,
           request' = [request EXCEPT ![r] = q],
           UNCHANGED <<moment, line, earliest, sends>>
    PROVE  PacerInv'
<1> USE DEF PacerInv, PubTypeOK
<1>1. /\ request' \in [Requests -> RequestStates]
      /\ \A p \in Requests : request'[p] = IF p = r THEN q ELSE request[p]
  OBVIOUS
<1>2. \A i \in 1..Len(line) :
          /\ line[i] \in Requests /\ request[line[i]].at \in {"queued", "asleep"}
          /\ request'[line[i]].at \in {"queued", "asleep"}
          /\ request'[line[i]].arrived = request[line[i]].arrived
  BY <1>1 DEF InLine
<1>3. PubTypeOK'  BY <1>1
<1>4. InLine'
  <2>1. \A i \in 1..Len(line') : request'[line'[i]].at \in {"queued", "asleep"}  BY <1>2
  <2>2. \A i, j \in 1..Len(line') : line'[i] = line'[j] => i = j  BY DEF InLine
  <2>3. \A p \in Requests : request'[p].at = "asleep" => line' # <<>> /\ line'[1] = p
    BY <1>1 DEF InLine
  <2>4. \A i, j \in 1..Len(line') :
            i < j => request'[line'[i]].arrived <= request'[line'[j]].arrived
    BY <1>2 DEF InLine
  <2>5. QED  BY <2>1, <2>2, <2>3, <2>4 DEF InLine
<1>5. Due'  BY <1>1 DEF Due
<1>6. Spaced'  BY DEF Spaced
<1>7. NoSlotWasted'
  <2>1. CASE line = <<>>  BY <2>1 DEF NoSlotWasted
  <2>2. CASE line # <<>>
    <3>1. Head(line) = line[1] /\ 1 \in 1..Len(line)  BY <2>2
    <3>2. request'[Head(line)].arrived = request[Head(line)].arrived  BY <1>2, <3>1
    <3>3. QED  BY <2>2, <3>2 DEF NoSlotWasted
  <2>3. QED  BY <2>1, <2>2
<1>8. QED  BY <1>3, <1>4, <1>5, <1>6, <1>7

\* Whoever leaves the line: the others keep their order.
LEMMA LeavingKeepsOrder ==
    ASSUME PacerInv, NEW r \in Requests, NEW q \in RequestStates,
           q.at \notin {"queued", "asleep"},
           request' = [request EXCEPT ![r] = q],
           line' \in Seq(Requests), NEW k \in 1..Len(line), line[k] = r,
           Len(line') = Len(line) - 1,
           \A i \in 1..(Len(line) - 1) : line'[i] = IF i < k THEN line[i] ELSE line[i + 1]
    PROVE  InLine'
<1> DEFINE n == Len(line)
           at(i) == IF i < k THEN i ELSE i + 1
<1>1. line \in Seq(Requests) /\ request \in [Requests -> RequestStates] /\ n \in Nat
  BY DEF PacerInv, PubTypeOK
<1>2. \A p \in Requests : request'[p] = IF p = r THEN q ELSE request[p]
  BY <1>1
<1>3. \A i \in 1..(n - 1) : at(i) \in 1..n /\ at(i) # k /\ line'[i] = line[at(i)]
  BY <1>1
<1>4. \A i, j \in 1..(n - 1) : (at(i) = at(j) => i = j) /\ (i < j => at(i) < at(j))
  BY <1>1
<1>5. \A i, j \in 1..n : line[i] = line[j] => i = j
  BY DEF PacerInv, InLine
<1> HIDE DEF at
<1>6. \A i \in 1..(n - 1) : line'[i] # r /\ line'[i] \in Requests
                            /\ request'[line'[i]] = request[line[at(i)]]
  BY <1>1, <1>2, <1>3, <1>5
<1>7. \A i \in 1..(n - 1) : request'[line'[i]].at \in {"queued", "asleep"}
  BY <1>3, <1>6 DEF PacerInv, InLine
<1>8. \A i, j \in 1..(n - 1) : line'[i] = line'[j] => i = j
  BY <1>3, <1>4, <1>5
<1>9. ASSUME NEW p \in Requests, request'[p].at = "asleep"
      PROVE  line' # <<>> /\ line'[1] = p
  <2>1. p # r /\ request[p].at = "asleep"  BY <1>2, <1>9
  <2>2. line # <<>> /\ line[1] = p  BY <2>1 DEF PacerInv, InLine
  <2>3. k # 1  BY <2>1, <2>2
  <2>4. 1 \in 1..(n - 1) /\ at(1) = 1  BY <1>1, <2>3 DEF at
  <2>5. QED  BY <1>3, <2>2, <2>4
<1>10. \A i, j \in 1..(n - 1) :
           i < j => request'[line'[i]].arrived <= request'[line'[j]].arrived
  <2> SUFFICES ASSUME NEW i \in 1..(n - 1), NEW j \in 1..(n - 1), i < j
               PROVE  request'[line'[i]].arrived <= request'[line'[j]].arrived
    OBVIOUS
  <2>1. at(i) \in 1..n /\ at(j) \in 1..n /\ at(i) < at(j)  BY <1>3, <1>4
  <2>2. request[line[at(i)]].arrived <= request[line[at(j)]].arrived
    BY <2>1 DEF PacerInv, InLine
  <2>3. QED  BY <1>6, <2>2
<1>11. QED  BY <1>7, <1>8, <1>9, <1>10 DEF InLine

LEMMA ProceedKeeps ==
    ASSUME PacerInv, NEW r \in Requests, Proceed(r)
    PROVE  PacerInv'
<1> USE DEF Proceed, NextEarliest
<1> DEFINE q == [request[r] EXCEPT !.at = "away", !.arrived = 0]
<1>1. /\ line \in Seq(Requests) /\ request \in [Requests -> RequestStates]
      /\ moment \in Nat /\ sends \in Seq(Nat)
  BY DEF PacerInv, PubTypeOK
<1>2. q \in RequestStates /\ q.at = "away" /\ q.arrived = 0
  BY <1>1 DEF RequestStates, Kinds
<1>3. request' = [request EXCEPT ![r] = q]  BY <1>1
<1> HIDE DEF q
<1>4. line # <<>> /\ line[1] = r  BY DEF PacerInv, InLine
<1>5. /\ line' \in Seq(Requests) /\ Len(line') = Len(line) - 1
      /\ \A i \in 1..(Len(line) - 1) : line'[i] = line[i + 1]
  BY <1>1, <1>4
<1>6. /\ Spaced' /\ sends' \in Seq(Nat) /\ \A i \in 1..Len(sends') : sends'[i] <= moment
  BY NextRelease
<1>7. sends' # <<>> /\ sends'[Len(sends')] = moment  BY <1>1
<1>8. PubTypeOK'
  <2>1. moment' \in Nat /\ earliest' \in Nat  BY <1>1, PacerBounds
  <2>2. request' \in [Requests -> RequestStates]  BY <1>1, <1>2, <1>3
  <2>3. QED  BY <1>5, <1>6, <2>1, <2>2 DEF PubTypeOK
<1>9. InLine'
  <2>1. 1 \in 1..Len(line)  BY <1>1, <1>4
  <2>2. \A i \in 1..(Len(line) - 1) : line'[i] = IF i < 1 THEN line[i] ELSE line[i + 1]
    BY <1>5
  <2>3. QED  BY <1>2, <1>3, <1>4, <1>5, <2>1, <2>2, LeavingKeepsOrder
<1>10. Due'
  <2>1. \A p \in Requests : request'[p].arrived <= moment'
    BY <1>1, <1>2, <1>3 DEF PacerInv, Due
  <2>2. QED  BY <1>6, <1>7, <2>1 DEF Due
<1>11. NoSlotWasted'
  <2>1. Last(sends') = moment  BY <1>7 DEF Last
  <2>2. ASSUME line' # <<>>
        PROVE  moment' <= Larger(request'[Head(line')].arrived,
                                 IF sends' = <<>> THEN 0 ELSE Last(sends') + Interval)
    <3>1. request'[Head(line')].arrived \in Nat
      <4>1. Head(line') \in Requests  BY <1>5, <2>2
      <4>2. QED  BY <1>8, <4>1 DEF PubTypeOK, RequestStates
    <3>2. moment' = moment /\ moment + Interval \in Nat /\ moment <= moment + Interval
      BY <1>1, PacerBounds
    <3> DEFINE came == request'[Head(line')].arrived
               next == moment + Interval
    <3>3. came \in Nat /\ next \in Nat /\ moment <= next  BY <3>1, <3>2
    <3> HIDE DEF came, next
    <3>4. moment <= Larger(came, next)  BY <1>1, <3>3 DEF Larger
    <3>5. QED  BY <1>7, <2>1, <3>2, <3>4 DEF came, next
  <2>3. QED  BY <2>2 DEF NoSlotWasted
<1>12. QED  BY <1>6, <1>8, <1>9, <1>10, <1>11 DEF PacerInv

\* A call that is cancelled gives up its place, if it has one.
LEMMA CancelKeeps ==
    ASSUME PacerInv, NEW r \in Requests, Cancel(r)
    PROVE  PacerInv'
<1> USE DEF Cancel, EarliestAfterCancel
<1> DEFINE q == Ended("cancelled")
<1>1. /\ line \in Seq(Requests) /\ request \in [Requests -> RequestStates]
      /\ moment \in Nat /\ earliest \in Nat
  BY DEF PacerInv, PubTypeOK
<1>2. q \in RequestStates /\ q.at = "done" /\ q.arrived = 0
  BY DEF Ended, NoRequest, RequestStates, Kinds
<1> HIDE DEF q
<1>3. CASE line' = line /\ \A i \in 1..Len(line) : line[i] # r
  <2>1. request' = [request EXCEPT ![r] = q]  BY DEF q
  <2>2. UNCHANGED <<moment, line, earliest, sends>>  BY <1>3
  <2>3. q.arrived <= moment /\ q.at # "asleep" /\ ~ \E i \in 1..Len(line) : line[i] = r
    BY <1>1, <1>2, <1>3
  <2>4. QED  BY <1>2, <2>1, <2>2, <2>3, InPlaceKeeps
<1>4. ASSUME NEW k \in 1..Len(line), line[k] = r, line' \in Seq(Requests),
             Len(line') = Len(line) - 1,
             \A i \in 1..(Len(line) - 1) : line'[i] = IF i < k THEN line[i] ELSE line[i + 1]
      PROVE  PacerInv'
  <2>1. request' = [request EXCEPT ![r] = q]  BY DEF q
  <2>2. \A p \in Requests : request'[p] = IF p = r THEN q ELSE request[p]  BY <1>1, <2>1
  <2>3. PubTypeOK'  BY <1>1, <1>2, <1>4, <2>1 DEF PacerInv, PubTypeOK
  <2>4. InLine'  BY <1>2, <1>4, <2>1, LeavingKeepsOrder
  <2>5. Due'  BY <1>1, <1>2, <2>2 DEF PacerInv, Due
  <2>6. Spaced'  BY DEF PacerInv, Spaced
  <2>7. ASSUME line' # <<>>
        PROVE  moment <= Larger(request'[Head(line')].arrived,
                                IF sends = <<>> THEN 0 ELSE Last(sends) + Interval)
    <3> DEFINE h == line'[1]
               free == IF sends = <<>> THEN 0 ELSE Last(sends) + Interval
    <3>1. Len(line') # 0 /\ Head(line') = h /\ Len(line) >= 2  BY <1>1, <1>4, <2>7
    <3>2. h = line[1] \/ (h = line[2] /\ k = 1)  BY <1>1, <1>4, <3>1
    <3>3. h # r
      <4>1. k = 1 \/ h = line[1]  BY <3>2
      <4>2. k = 1 => h = line[2]  BY <1>1, <1>4, <3>1
      <4>3. 1 \in 1..Len(line) /\ 2 \in 1..Len(line)  BY <1>1, <3>1
      <4>4. QED  BY <1>4, <4>1, <4>2, <4>3 DEF PacerInv, InLine
    <3>4. h \in Requests /\ line[1] \in Requests  BY <1>1, <3>1, <3>2
    <3>5. request'[h].arrived = request[h].arrived /\ request[h].arrived \in Nat
      BY <1>1, <2>2, <3>3, <3>4 DEF RequestStates
    <3>6. request[line[1]].arrived <= request[h].arrived
      <4>1. CASE h = line[1]  BY <3>5, <4>1
      <4>2. CASE h = line[2]
        <5>1. 1 \in 1..Len(line) /\ 2 \in 1..Len(line) /\ 1 < 2  BY <1>1, <3>1
        <5>2. QED  BY <4>2, <5>1 DEF PacerInv, InLine
      <4>3. QED  BY <3>2, <4>1, <4>2
    <3>7. moment <= Larger(request[line[1]].arrived, free)
      <4>1. line # <<>> /\ Head(line) = line[1]  BY <1>1, <3>1
      <4>2. QED  BY <4>1 DEF PacerInv, NoSlotWasted
    <3>8. free \in Nat /\ request[line[1]].arrived \in Nat
      <4>1. sends \in Seq(Nat)  BY DEF PacerInv, PubTypeOK
      <4>2. sends # <<>> => Last(sends) \in Nat  BY <4>1 DEF Last
      <4>3. QED  BY <1>1, <3>4, <4>2, PacerBounds DEF RequestStates
    <3> HIDE DEF free
    <3>9. moment <= Larger(request'[h].arrived, free)
      BY <1>1, <3>5, <3>6, <3>7, <3>8 DEF Larger
    <3>10. QED  BY <3>1, <3>9 DEF free
  <2>8. NoSlotWasted'  BY <2>7 DEF NoSlotWasted
  <2>9. QED  BY <2>3, <2>4, <2>5, <2>6, <2>8 DEF PacerInv
<1>5. QED
  <2>1. line' = RemoveFirst(line, r)  OBVIOUS
  <2>2. \/ line' = line /\ \A i \in 1..Len(line) : line[i] # r
        \/ \E k \in 1..Len(line) :
              /\ line[k] = r /\ line' \in Seq(Requests) /\ Len(line') = Len(line) - 1
              /\ \A i \in 1..(Len(line) - 1) :
                    line'[i] = IF i < k THEN line[i] ELSE line[i + 1]
    BY <1>1, <2>1, Leaving
  <2>3. QED  BY <1>3, <1>4, <2>2

LEMMA CallKeeps ==
    ASSUME PacerInv, NEW r \in Requests, NEW kind \in Kinds, Call(r, kind)
    PROVE  PacerInv'
<1> DEFINE q == [request[r] EXCEPT !.at = "queued", !.kind = kind, !.arrived = moment]
<1>1. request \in [Requests -> RequestStates] /\ moment \in Nat
  BY DEF PacerInv, PubTypeOK
<1>2. q \in RequestStates /\ q.at = "queued" /\ q.arrived = moment
  BY <1>1 DEF RequestStates, Kinds
<1>3. request' = [request EXCEPT ![r] = q]  BY <1>1 DEF Call
<1> HIDE DEF q
<1>4. QED  BY <1>2, <1>3, JoiningKeeps DEF Call

LEMMA SleepKeeps ==
    ASSUME PacerInv, NEW r \in Requests, Sleep(r)
    PROVE  PacerInv'
<1> DEFINE q == [request[r] EXCEPT !.at = "asleep"]
<1>1. request \in [Requests -> RequestStates] /\ line \in Seq(Requests)
  BY DEF PacerInv, PubTypeOK
<1>2. q \in RequestStates /\ q.at = "asleep" /\ q.arrived = request[r].arrived
  BY <1>1 DEF RequestStates, Kinds
<1>3. request' = [request EXCEPT ![r] = q]  BY <1>1 DEF Sleep
<1> HIDE DEF q
<1>4. line # <<>> /\ line[1] = r  BY <1>1 DEF Sleep
<1>5. q.arrived <= moment  BY <1>2 DEF PacerInv, Due
<1>6. QED  BY <1>2, <1>3, <1>4, <1>5, InPlaceKeeps DEF Sleep

LEMMA ReceiveKeeps ==
    ASSUME PacerInv, NEW r \in Requests, NEW a, Receive(r, a)
    PROVE  PacerInv'
<1>1. request \in [Requests -> RequestStates] /\ moment \in Nat /\ request[r].at = "away"
  BY DEF PacerInv, PubTypeOK, Receive
<1>2. CASE request[r].kind = "render_da" /\ BlockPage(a)
  <2> DEFINE q == [request[r] EXCEPT !.at = "queued", !.kind = "render", !.arrived = moment]
  <2>1. q \in RequestStates /\ q.at = "queued" /\ q.arrived = moment
    BY <1>1 DEF RequestStates, Kinds
  <2>2. request' = [request EXCEPT ![r] = q] /\ line' = Append(line, r)
        /\ UNCHANGED <<moment, earliest, sends>>
    BY <1>1, <1>2 DEF Receive
  <2> HIDE DEF q
  <2>3. QED  BY <1>1, <2>1, <2>2, JoiningKeeps
<1>3. CASE ~(request[r].kind = "render_da" /\ BlockPage(a))
  <2> DEFINE q == Ended(IF IsResult(request[r].kind, a) THEN "result" ELSE "error")
  <2>1. q \in RequestStates /\ q.at = "done" /\ q.arrived = 0
    BY DEF Ended, NoRequest, RequestStates, Kinds
  <2>2. request' = [request EXCEPT ![r] = q] /\ UNCHANGED <<moment, line, earliest, sends>>
    BY <1>3 DEF Receive
  <2> HIDE DEF q
  <2>3. \A i \in 1..Len(line) : line[i] # r  BY <1>1 DEF PacerInv, InLine
  <2>4. q.arrived <= moment /\ q.at # "asleep" /\ ~ \E i \in 1..Len(line) : line[i] = r
    BY <1>1, <2>1, <2>3
  <2>5. QED  BY <2>1, <2>2, <2>4, InPlaceKeeps
<1>4. QED  BY <1>2, <1>3

LEMMA MomentKeeps ==
    ASSUME PacerInv, MomentPasses
    PROVE  PacerInv'
<1> USE DEF PacerInv, MomentPasses
<1>1. PubTypeOK'  BY DEF PubTypeOK
<1>2. InLine'  BY DEF InLine
<1>3. Due'
  <2>1. /\ moment \in Nat /\ sends \in Seq(Nat)
        /\ \A r \in Requests : request[r].arrived \in Nat
    BY DEF PubTypeOK, RequestStates
  <2>2. QED  BY <2>1 DEF Due
<1>4. Spaced'  BY DEF Spaced
<1>5. NoSlotWasted'
  <2> SUFFICES ASSUME line # <<>>
               PROVE  moment + 1 <= Larger(request[Head(line)].arrived,
                                           IF sends = <<>> THEN 0 ELSE Last(sends) + Interval)
    BY DEF NoSlotWasted
  <2>1. moment < earliest /\ moment \in Nat /\ earliest \in Nat  BY DEF PubTypeOK
  <2>2. earliest = IF sends = <<>> THEN 0 ELSE Last(sends) + Interval  BY DEF Due, Last
  <2>3. request[Head(line)].arrived \in Nat  BY DEF PubTypeOK, RequestStates
  <2>4. moment + 1 <= Larger(request[Head(line)].arrived, earliest)
    BY <2>1, <2>3 DEF Larger
  <2>5. QED  BY <2>2, <2>4
<1>6. QED  BY <1>1, <1>2, <1>3, <1>4, <1>5

\* PacerInv is inductive: the line keeps the order of arrival, and `_earliest` is
\* one interval past the last release.
THEOREM PacerInvariant == PubSpec => []PacerInv
<1>1. PubInit => PacerInv  BY InitPacer
<1>2. PacerInv /\ [PubNext]_pubVars => PacerInv'
  <2> SUFFICES ASSUME PacerInv, [PubNext]_pubVars PROVE PacerInv'
    OBVIOUS
  <2>1. ASSUME NEW r \in Requests, NEW kind \in Kinds, Call(r, kind) PROVE PacerInv'
    BY <2>1, CallKeeps
  <2>2. ASSUME NEW r \in Requests, Sleep(r) PROVE PacerInv'
    BY <2>2, SleepKeeps
  <2>3. ASSUME NEW r \in Requests, Proceed(r) PROVE PacerInv'
    BY <2>3, ProceedKeeps
  <2>4. ASSUME NEW r \in Requests, Cancel(r) PROVE PacerInv'
    BY <2>4, CancelKeeps
  <2>5. ASSUME NEW r \in Requests, NEW a \in Responses, Receive(r, a) PROVE PacerInv'
    BY <2>5, ReceiveKeeps
  <2>6. CASE MomentPasses  BY <2>6, MomentKeeps
  <2>7. CASE UNCHANGED pubVars
    BY <2>7 DEF pubVars, PacerInv, PubTypeOK, InLine, Due, Spaced, NoSlotWasted
  <2>8. QED  BY <2>1, <2>2, <2>3, <2>4, <2>5, <2>6, <2>7 DEF PubNext
<1>3. QED  BY <1>1, <1>2, PTL DEF PubSpec

\* The pacer's variables keep their types.
THEOREM PubTypes == PubSpec => []PubTypeOK
<1>1. PacerInv => PubTypeOK  BY DEF PacerInv
<1>2. QED  BY <1>1, PacerInvariant, PTL

\* Consecutive sends stay an interval apart, whoever is cancelled or retried.
THEOREM SendsAreSpaced == PubSpec => []Spaced
<1>1. PacerInv => Spaced  BY DEF PacerInv
<1>2. QED  BY <1>1, PacerInvariant, PTL

\* No slot is wasted: the head of the line is not kept longer than until it came, or
\* one interval past the last request; a cancelled call takes nobody's turn.
THEOREM SlotsAreUsed == PubSpec => []NoSlotWasted
<1>1. PacerInv => NoSlotWasted  BY DEF PacerInv
<1>2. QED  BY <1>1, PacerInvariant, PTL

-----------------------------------------------------------------------------
(* The message listing.                                                    *)

\* What precedes a message in ANAF's order; the window, kept by ANAF or not.
Precedes(n, m) == IF newestFirst THEN n > m ELSE n < m
Ahead(S, m) == {n \in S : Precedes(n, m)}
InWindowNow == {n \in indexed : InWindow(n, walk)}

\* The pages already asked for are behind every message not yet yielded: nothing
\* moves forward in ANAF's list.
Pending(m) ==
    /\ m \in InWindowNow
    /\ Cardinality(Ahead(InWindowNow, m)) >= (walk.page - 1) * PageSize
NotPassed == walk.at = "asking" /\ ~walk.shifted =>
    \A m \in there : yielded[m] >= 1 \/ Pending(m)

\* A `days` window is cut from this machine's clock, and once corrected from ANAF's.
CutAt(from) ==
    /\ walk.start = from - Retention + StartSkew
    /\ walk.end = from - EndSkew
Cut == walk.at = "asking" /\ walk.days =>
    IF walk.corrected THEN CutAt(walk.correctedAt) /\ walk.correctedAt <= tick
    ELSE CutAt(walk.began + skew) /\ walk.began <= tick

ListInv ==
    /\ ListTypeOK
    /\ walk.page >= 1 /\ (walk.at = "idle" => walk.page = 1 /\ ~walk.corrected)
    /\ NotPassed /\ Cut
    /\ NothingSkipped /\ SkewIsAbsorbed

-----------------------------------------------------------------------------
(* Pages.                                                                  *)

LEMMA Division ==
    ASSUME NEW a \in Nat, NEW d \in Nat \ {0}
    PROVE  /\ a \div d \in Nat
           /\ (a \div d) * d <= a /\ a < (a \div d) * d + d
  OBVIOUS

\* The quotient is the number whose multiple is just reached.
LEMMA Quotient ==
    ASSUME NEW a \in Nat, NEW d \in Nat \ {0}, NEW q \in Nat, q * d <= a
    PROVE  /\ a \div d >= q
           /\ a < q * d + d => a \div d = q
<1> DEFINE p == a \div d
<1>1. p \in Nat /\ p * d <= a /\ a < p * d + d  BY Division
<1> HIDE DEF p
<1>2. \A x, y \in Nat : x < y => x * d + d <= y * d
  <2> SUFFICES ASSUME NEW x \in Nat, NEW y \in Nat, x < y PROVE x * d + d <= y * d
    OBVIOUS
  <2>1. PICK z \in Nat : y = x + 1 + z
    <3>1. y - x - 1 \in Nat /\ y = x + 1 + (y - x - 1)  OBVIOUS
    <3>2. QED  BY <3>1
  <2>2. y * d = x * d + d + z * d  BY <2>1
  <2>3. z * d \in Nat /\ x * d \in Nat  OBVIOUS
  <2>4. QED  BY <2>2, <2>3
<1>3. p * d \in Nat /\ q * d \in Nat  BY <1>1
<1>4. ~(p < q)  BY <1>1, <1>2, <1>3
<1>5. a < q * d + d => ~(q < p)  BY <1>1, <1>2, <1>3
<1>6. QED  BY <1>1, <1>4, <1>5 DEF p

LEMMA AheadIsFinite ==
    ASSUME NEW S \in SUBSET Messages
    PROVE  /\ IsFiniteSet(S) /\ Cardinality(S) \in Nat
           /\ \A m : IsFiniteSet(Ahead(S, m)) /\ Cardinality(Ahead(S, m)) \in Nat
<1>1. \A T \in SUBSET Messages : IsFiniteSet(T) /\ Cardinality(T) \in Nat
  BY ListingBounds, FS_Subset, FS_CardinalityType
<1>2. \A m : Ahead(S, m) \in SUBSET Messages  BY DEF Ahead
<1>3. QED  BY <1>1, <1>2

\* Who comes later in the order has more before it.
LEMMA LaterHasMore ==
    ASSUME NEW S \in SUBSET Messages, NEW m \in S, NEW n \in S, Precedes(n, m)
    PROVE  /\ Ahead(S, n) \cup {n} \subseteq Ahead(S, m)
           /\ Cardinality(Ahead(S, n)) < Cardinality(Ahead(S, m))
<1>1. S \subseteq Nat  BY ListingBounds
<1>2. Ahead(S, n) \cup {n} \subseteq Ahead(S, m) /\ n \notin Ahead(S, n)
  <2>1. m \in Nat /\ n \in Nat  BY <1>1
  <2>2. ~Precedes(n, n)  BY <2>1 DEF Precedes
  <2>3. \A l \in Nat : Precedes(l, n) => Precedes(l, m)
    BY <2>1 DEF Precedes
  <2>4. QED  BY <1>1, <2>2, <2>3 DEF Ahead
<1>3. Cardinality(Ahead(S, n) \cup {n}) = Cardinality(Ahead(S, n)) + 1
  BY <1>2, AheadIsFinite, FS_AddElement
<1>4. Cardinality(Ahead(S, n) \cup {n}) <= Cardinality(Ahead(S, m))
  BY <1>2, AheadIsFinite, FS_Subset
<1>5. Cardinality(Ahead(S, n)) \in Nat /\ Cardinality(Ahead(S, m)) \in Nat
  BY AheadIsFinite
<1>6. QED  BY <1>2, <1>3, <1>4, <1>5

\* A list with more than k messages has one with exactly k before it.
LEMMA NthMessage ==
    ASSUME NEW S \in SUBSET Messages, NEW m \in S, NEW k \in Nat,
           Cardinality(Ahead(S, m)) >= k
    PROVE  \E n \in S : Cardinality(Ahead(S, n)) = k
<1> DEFINE Place(n) == Cardinality(Ahead(S, n))
           Places == {Place(n) : n \in {l \in S : Place(l) >= k}}
<1>1. \A n : Place(n) \in Nat  BY AheadIsFinite
<1>2. PICK x \in S : Place(x) >= k /\ \A l \in S : Place(l) >= k => Place(x) <= Place(l)
  <2>1. Places \in SUBSET Nat /\ Places # {}  BY <1>1
  <2>2. PICK p \in Places : \A q \in Places : p <= q
    <3> HIDE DEF Places
    <3>1. QED  BY <2>1, LeastNumber
  <2>3. QED  BY <2>2
<1>3. Place(x) <= k
  <2>1. CASE Ahead(S, x) = {}
    BY <2>1, FS_EmptySet
  <2>2. CASE Ahead(S, x) # {}
    <3> DEFINE Gaps == {Place(x) - Place(n) : n \in Ahead(S, x)}
    <3>1. \A n \in Ahead(S, x) : n \in S /\ Precedes(n, x) /\ Place(n) < Place(x)
      BY LaterHasMore DEF Ahead
    <3>2. Gaps \in SUBSET Nat /\ Gaps # {}  BY <1>1, <2>2, <3>1
    <3>3. PICK gap \in Gaps : \A other \in Gaps : gap <= other
      <4> HIDE DEF Gaps
      <4>1. QED  BY <3>2, LeastNumber
    <3>4. PICK y \in Ahead(S, x) : gap = Place(x) - Place(y)  BY <3>3
    <3>5. \A n \in Ahead(S, x) : Place(n) <= Place(y)
      <4>1. \A n \in Ahead(S, x) : Place(x) - Place(y) <= Place(x) - Place(n)
        BY <3>3, <3>4
      <4>2. QED  BY <1>1, <4>1
    <3>6. Ahead(S, x) \subseteq Ahead(S, y) \cup {y}
      <4> SUFFICES ASSUME NEW n \in Ahead(S, x), n # y PROVE n \in Ahead(S, y)
        OBVIOUS
      <4>1. n \in S /\ y \in S /\ n \in Nat /\ y \in Nat  BY <3>1, ListingBounds
      <4>2. Precedes(n, y) \/ Precedes(y, n)  BY <4>1 DEF Precedes
      <4>3. ~Precedes(y, n)  BY <1>1, <3>5, <4>1, LaterHasMore
      <4>4. QED  BY <4>1, <4>2, <4>3 DEF Ahead
    <3>7. Cardinality(Ahead(S, y) \cup {y}) <= Place(y) + 1
      <4>1. IsFiniteSet(Ahead(S, y)) /\ Cardinality(Ahead(S, y)) \in Nat
        BY AheadIsFinite
      <4>2. \/ Cardinality(Ahead(S, y) \cup {y}) = Cardinality(Ahead(S, y))
            \/ Cardinality(Ahead(S, y) \cup {y}) = Cardinality(Ahead(S, y)) + 1
        BY <4>1, FS_AddElement
      <4>3. QED  BY <4>1, <4>2
    <3>8. IsFiniteSet(Ahead(S, y) \cup {y})  BY AheadIsFinite, FS_AddElement
    <3>9. Place(x) <= Cardinality(Ahead(S, y) \cup {y})  BY <3>6, <3>8, FS_Subset
    <3>10. Cardinality(Ahead(S, y) \cup {y}) \in Nat  BY <3>8, FS_CardinalityType
    <3>11. Place(x) <= Place(y) + 1  BY <1>1, <3>7, <3>9, <3>10
    <3>12. Place(y) < k
      <4>1. y \in S /\ Place(y) < Place(x)  BY <3>1
      <4>2. QED  BY <1>1, <1>2, <4>1
    <3>13. QED  BY <1>1, <3>11, <3>12
  <2>3. QED  BY <2>1, <2>2
<1>4. QED  BY <1>1, <1>2, <1>3

-----------------------------------------------------------------------------
(* The steps.                                                              *)

\* While ANAF accepts the window it still keeps every message of it.
LEMMA WindowIsListed ==
    ASSUME ListTypeOK, ~Faulty(walk)
    PROVE  /\ InWindowNow \in SUBSET Messages /\ Listed(walk) = InWindowNow
           /\ \A m : Before(m, walk) = Ahead(InWindowNow, m)
<1>1. tick \in Nat /\ walk.start \in Int /\ walk.start >= tick - Retention
  BY ListingBounds DEF ListTypeOK, Faulty, Walks
<1>2. \A m \in indexed : InWindow(m, walk) => Kept(m)
  BY <1>1, ListingBounds DEF InWindow, Kept, ListTypeOK
<1>3. QED  BY <1>2 DEF Listed, InWindowNow, Before, Ahead, Precedes, ListTypeOK

\* What a page does to a message that was not passed: it is yielded, or behind
\* the page; and then the page is not the last one.
LEMMA PageTurns ==
    ASSUME ListInv, walk.at = "asking", ~Faulty(walk), NEW m \in there, Pending(m)
    PROVE  \/ m \in OnPage(walk)
           \/ /\ Cardinality(Ahead(InWindowNow, m)) >= walk.page * PageSize
              /\ OnPage(walk) # {} /\ walk.page < TotalPages(walk)
<1> DEFINE place == Cardinality(Ahead(InWindowNow, m))
           p == walk.page - 1
<1>1. /\ InWindowNow \in SUBSET Messages /\ Listed(walk) = InWindowNow /\ m \in InWindowNow
      /\ \A n : Before(n, walk) = Ahead(InWindowNow, n)
  BY WindowIsListed DEF ListInv, Pending
<1>2. place \in Nat /\ Cardinality(InWindowNow) \in Nat /\ IsFiniteSet(InWindowNow)
  BY <1>1, AheadIsFinite
<1>3. p \in Nat /\ walk.page = p + 1 /\ PageSize \in Nat \ {0} /\ p * PageSize \in Nat
  BY ListingBounds DEF ListInv, ListTypeOK, Walks
<1>4. place >= p * PageSize  BY DEF Pending
<1>5. walk.page * PageSize = p * PageSize + PageSize  BY <1>3
<1> HIDE DEF place, p
<1>6. CASE place < walk.page * PageSize
  <2>1. place \div PageSize = p  BY <1>2, <1>3, <1>4, <1>5, <1>6, Quotient
  <2>2. QED  BY <1>1, <1>3, <2>1 DEF OnPage, PageOf, place
<1>7. CASE place >= walk.page * PageSize
  <2>1. PICK n \in InWindowNow : Cardinality(Ahead(InWindowNow, n)) = p * PageSize
    BY <1>1, <1>3, <1>4, NthMessage DEF place
  <2>2. (p * PageSize) \div PageSize = p  BY <1>3, Quotient
  <2>3. n \in OnPage(walk)  BY <1>1, <1>3, <2>1, <2>2 DEF OnPage, PageOf
  <2>4. place < Cardinality(InWindowNow)
    <3>1. Ahead(InWindowNow, m) \in SUBSET InWindowNow /\ m \notin Ahead(InWindowNow, m)
      BY <1>1, ListingBounds DEF Ahead, Precedes
    <3>2. place <= Cardinality(InWindowNow) /\ (place = Cardinality(InWindowNow) => Ahead(InWindowNow, m) = InWindowNow)
      BY <1>2, <3>1, FS_Subset DEF place
    <3>3. QED  BY <1>1, <1>2, <3>1, <3>2
  <2>5. walk.page < TotalPages(walk)
    <3> DEFINE all == Cardinality(InWindowNow) + PageSize - 1
    <3>1. all \in Nat /\ (p + 2) * PageSize <= all /\ p + 2 \in Nat
      <4>1. (p + 2) * PageSize = p * PageSize + PageSize + PageSize  BY <1>3
      <4>2. QED  BY <1>2, <1>3, <1>5, <1>7, <2>4, <4>1
    <3>2. all \div PageSize >= p + 2 /\ all \div PageSize \in Nat
      <4> HIDE DEF all
      <4>1. QED  BY <1>3, <3>1, Quotient, Division
    <3>3. QED  BY <1>1, <1>3, <3>2 DEF TotalPages
  <2>6. QED  BY <1>7, <2>3, <2>5 DEF place
<1>8. QED  BY <1>2, <1>3, <1>5, <1>6, <1>7

LEMMA BeginKeeps ==
    ASSUME ListInv, NEW days \in BOOLEAN, NEW s \in Int, NEW e \in Int,
           Begin(days, s, e)
    PROVE  ListInv'
<1>1. /\ walk.at = "idle" /\ walk.page = 1 /\ ~walk.corrected /\ walk \in Walks
      /\ tick \in Nat /\ skew \in Int
  BY ListingBounds DEF ListInv, ListTypeOK, Begin
<1>2. PICK ws \in Int, we \in Int :
        /\ walk' = [walk EXCEPT !.at = "asking", !.days = days, !.began = tick,
                                !.start = ws, !.end = we]
        /\ days => ws = (tick + skew) - Retention + StartSkew /\ we = (tick + skew) - EndSkew
  <2> DEFINE win == IF days THEN DaysWindow(tick + skew) ELSE [start |-> s, end |-> e]
  <2>1. walk' = [walk EXCEPT !.at = "asking", !.days = days, !.began = tick,
                             !.start = win.start, !.end = win.end]
    BY DEF Begin
  <2>2. /\ win.start \in Int /\ win.end \in Int
        /\ days => /\ win.start = (tick + skew) - Retention + StartSkew
                   /\ win.end = (tick + skew) - EndSkew
    BY <1>1, ListingBounds DEF DaysWindow
  <2> HIDE DEF win
  <2>3. QED  BY <2>1, <2>2
<1>3. /\ walk'.at = "asking" /\ walk'.page = 1 /\ ~walk'.corrected
      /\ walk' \in Walks /\ walk'.days = days /\ walk'.began = tick
      /\ walk'.start = ws /\ walk'.end = we
  BY <1>1, <1>2 DEF Walks
<1>4. /\ there' = {m \in indexed : Kept(m) /\ InWindow(m, walk')}
      /\ UNCHANGED <<tick, skew, newestFirst, sentAt, indexed, yielded>>
  BY DEF Begin, mailbox
<1>5. ListTypeOK'  BY <1>3, <1>4 DEF ListInv, ListTypeOK
<1>6. NotPassed'
  <2>1. there' \subseteq InWindowNow' /\ InWindowNow' \in SUBSET Messages
    BY <1>4, <1>5 DEF InWindowNow, InWindow, ListTypeOK
  <2>2. \A m : Cardinality(Ahead(InWindowNow, m))' \in Nat
    <3>1. \A m : Ahead(InWindowNow, m)' = Ahead(InWindowNow', m)
      <4>1. newestFirst' = newestFirst  BY <1>4
      <4>2. QED  BY <4>1 DEF Ahead, Precedes
    <3>2. QED  BY <2>1, <3>1, AheadIsFinite
  <2>3. \A m : Cardinality(Ahead(InWindowNow, m))' >= (walk'.page - 1) * PageSize
    BY <1>3, <2>2, ListingBounds
  <2>4. QED  BY <2>1, <2>3 DEF NotPassed, Pending
<1>7. Cut'
  <2>1. /\ tick' = tick /\ skew' = skew /\ tick <= tick
    BY <1>1, <1>4
  <2>2. CASE days
    <3>1. ws = (tick + skew) - Retention + StartSkew /\ we = (tick + skew) - EndSkew
      BY <1>2, <2>2
    <3>2. CutAt(walk.began + skew)'  BY <1>3, <2>1, <3>1 DEF CutAt
    <3>3. QED  BY <1>3, <2>1, <3>2 DEF Cut
  <2>3. CASE ~days  BY <1>3, <2>3 DEF Cut
  <2>4. QED  BY <2>2, <2>3
<1>8. QED
  BY <1>3, <1>5, <1>6, <1>7 DEF ListInv, NothingSkipped, SkewIsAbsorbed

LEMMA CorrectKeeps ==
    ASSUME ListInv, Correct
    PROVE  ListInv'
<1> DEFINE behind == walk.page > 1
<1>1. /\ walk.at = "asking" /\ walk \in Walks /\ walk.page \in Nat /\ walk.page >= 1
      /\ tick \in Nat
  BY DEF ListInv, ListTypeOK, Correct, Walks
<1>2. /\ Rebuilt(walk).start \in Int /\ Rebuilt(walk).end \in Int
      /\ walk.days => /\ Rebuilt(walk).start = tick - Retention + StartSkew
                      /\ Rebuilt(walk).end = tick - EndSkew
  BY <1>1, ListingBounds DEF Rebuilt, DaysWindow, Walks
<1>3. walk' = [walk EXCEPT !.corrected = TRUE, !.correctedAt = tick,
                           !.shifted = behind, !.start = Rebuilt(walk).start,
                           !.end = Rebuilt(walk).end]
  BY DEF Correct, Reasked, Moved
<1>a. behind \in BOOLEAN  OBVIOUS
<1> HIDE DEF behind
<1>4. /\ walk' \in Walks /\ walk'.at = "asking" /\ walk'.page = walk.page
      /\ walk'.shifted = behind /\ walk'.correctedAt = tick
      /\ walk'.days = walk.days /\ walk'.corrected
      /\ walk'.start = Rebuilt(walk).start /\ walk'.end = Rebuilt(walk).end
  BY <1>1, <1>2, <1>3, <1>a DEF Walks
<1>5. /\ there' = there \cap {m \in indexed : InWindow(m, walk')}
      /\ UNCHANGED <<tick, skew, newestFirst, sentAt, indexed, yielded>>
  BY DEF Correct, mailbox
<1>6. ListTypeOK'  BY <1>4, <1>5 DEF ListInv, ListTypeOK
<1>7. NotPassed'
  <2>1. CASE walk.page > 1  BY <1>4, <2>1 DEF NotPassed, behind
  <2>2. CASE walk.page = 1
    <3>1. there' \subseteq InWindowNow' /\ InWindowNow' \in SUBSET Messages
      BY <1>5, <1>6 DEF InWindowNow, InWindow, ListTypeOK
    <3>2. \A m : Cardinality(Ahead(InWindowNow, m))' \in Nat
      <4>1. newestFirst' = newestFirst  BY <1>5
      <4>2. \A m : Ahead(InWindowNow, m)' = Ahead(InWindowNow', m)
        BY <4>1 DEF Ahead, Precedes
      <4>3. QED  BY <3>1, <4>2, AheadIsFinite
    <3>3. \A m : Cardinality(Ahead(InWindowNow, m))' >= (walk'.page - 1) * PageSize
      BY <1>4, <2>2, <3>2, ListingBounds
    <3>4. QED  BY <3>1, <3>3 DEF NotPassed, Pending
  <2>3. QED  BY <1>1, <2>1, <2>2
<1>8. Cut'  BY <1>1, <1>2, <1>4, <1>5 DEF Cut, CutAt
<1>9. QED
  BY <1>1, <1>4, <1>6, <1>7, <1>8 DEF ListInv, NothingSkipped, SkewIsAbsorbed

LEMMA WindowFaultKeeps ==
    ASSUME ListInv, NEW quoted \in BOOLEAN, WindowFault(quoted)
    PROVE  ListInv'
<1>1. /\ walk.at = "asking" /\ Faulty(walk) /\ (quoted => walk.corrected \/ ~Moves(walk))
      /\ walk' = [walk EXCEPT !.at = "fault", !.quoted = quoted]
      /\ UNCHANGED <<tick, skew, newestFirst, sentAt, indexed, yielded, there>>
  BY DEF WindowFault, mailbox
<1>2. /\ walk \in Walks /\ walk.page \in Nat /\ walk.page >= 1 /\ tick \in Nat
      /\ walk.start \in Int /\ walk.end \in Int /\ walk.correctedAt \in Nat
      /\ walk.began \in Nat /\ skew \in Int
  BY ListingBounds DEF ListInv, ListTypeOK, Walks
<1>3. /\ walk' \in Walks /\ walk'.at = "fault" /\ walk'.page = walk.page
      /\ walk'.days = walk.days /\ walk'.corrected = walk.corrected
      /\ walk'.correctedAt = walk.correctedAt /\ walk'.began = walk.began
      /\ walk'.quoted = quoted
  BY <1>1, <1>2 DEF Walks
<1>4. ListTypeOK'  BY <1>1, <1>3 DEF ListInv, ListTypeOK
<1>5. ASSUME walk.days
      PROVE  IF walk.corrected THEN tick - walk.correctedAt > StartSkew
             ELSE ~quoted /\ (skew > EndSkew \/ tick - walk.began > StartSkew + skew)
  <2>1. walk.end > tick \/ walk.start < tick - Retention  BY <1>1 DEF Faulty
  <2>2. Cut  BY DEF ListInv
  <2>3. CASE walk.corrected
    <3>1. CutAt(walk.correctedAt) /\ walk.correctedAt <= tick
      BY <1>1, <1>5, <2>2, <2>3 DEF Cut
    <3>2. QED  BY <1>2, <2>1, <2>3, <3>1, ListingBounds DEF CutAt
  <2>4. CASE ~walk.corrected
    <3>1. CutAt(walk.began + skew) /\ walk.began <= tick
      BY <1>1, <1>5, <2>2, <2>4 DEF Cut
    <3>2. skew > EndSkew \/ tick - walk.began > StartSkew + skew
      <4>1. /\ walk.start = (walk.began + skew) - Retention + StartSkew
            /\ walk.end = (walk.began + skew) - EndSkew
        BY <3>1 DEF CutAt
      <4>2. CASE walk.end > tick  BY <1>2, <3>1, <4>1, <4>2, ListingBounds
      <4>3. CASE walk.start < tick - Retention  BY <1>2, <4>1, <4>3, ListingBounds
      <4>4. QED  BY <2>1, <4>2, <4>3
    <3>3. ASSUME quoted PROVE FALSE
      <4>1. Rebuilt(walk) = [start |-> walk.start, end |-> walk.end]
        BY <1>1, <1>5, <2>4, <3>3 DEF Moves
      <4>2. /\ walk.start = tick - Retention + StartSkew
            /\ walk.end = tick - EndSkew
        BY <1>5, <4>1 DEF Rebuilt, DaysWindow
      <4>3. QED  BY <1>2, <2>1, <4>2, ListingBounds
    <3>4. QED  BY <2>4, <3>2, <3>3
  <2>5. QED  BY <2>3, <2>4
<1>6. SkewIsAbsorbed'  BY <1>1, <1>3, <1>5 DEF SkewIsAbsorbed
<1>7. QED
  BY <1>1, <1>2, <1>3, <1>4, <1>6 DEF ListInv, NotPassed, Cut, NothingSkipped

LEMMA PageKeeps ==
    ASSUME ListInv, NEW stated \in BOOLEAN, Page(stated)
    PROVE  ListInv'
<1> DEFINE items == OnPage(walk)
           last == items = {} \/ (stated /\ walk.page >= TotalPages(walk))
<1>1. /\ walk.at = "asking" /\ ~Faulty(walk)
      /\ yielded' = [m \in Messages |-> yielded[m] + IF m \in items THEN 1 ELSE 0]
      /\ walk' = IF last THEN [walk EXCEPT !.at = "done"]
                 ELSE IF walk.page = MaxPages THEN [walk EXCEPT !.at = "aborted"]
                 ELSE [walk EXCEPT !.page = @ + 1]
      /\ UNCHANGED <<tick, skew, newestFirst, sentAt, indexed, there>>
  BY DEF Page, mailbox
<1>2. /\ walk \in Walks /\ walk.page \in Nat /\ walk.page >= 1
      /\ yielded \in [Messages -> Nat] /\ there \subseteq Messages
  BY DEF ListInv, ListTypeOK, Walks
<1>3. ASSUME NEW m \in there, ~walk.shifted
      PROVE  \/ yielded'[m] >= 1
             \/ /\ m \in InWindowNow /\ ~last
                /\ Cardinality(Ahead(InWindowNow, m)) >= walk.page * PageSize
  <2>1. CASE yielded[m] >= 1  BY <1>1, <1>2, <2>1
  <2>2. CASE Pending(m)
    <3>1. CASE m \in items  BY <1>1, <1>2, <3>1
    <3>2. CASE /\ Cardinality(Ahead(InWindowNow, m)) >= walk.page * PageSize
               /\ items # {} /\ walk.page < TotalPages(walk)
      <4>1. m \in InWindowNow  BY <2>2 DEF Pending
      <4>2. TotalPages(walk) \in Nat
        <5>1. Cardinality(Listed(walk)) \in Nat
          BY <1>1, WindowIsListed, AheadIsFinite DEF ListInv
        <5>2. Cardinality(Listed(walk)) + PageSize - 1 \in Nat  BY <5>1, ListingBounds
        <5>3. QED  BY <5>2, ListingBounds, Division DEF TotalPages
      <4>3. QED  BY <1>2, <3>2, <4>1, <4>2
    <3>3. QED  BY <1>1, <2>2, <3>1, <3>2, PageTurns
  <2>3. QED  BY <1>1, <1>3, <2>1, <2>2 DEF ListInv, NotPassed
<1> HIDE DEF items, last
<1>4. /\ walk' \in Walks /\ walk'.page \in Nat /\ walk'.page >= 1
      /\ walk'.at \in {"asking", "done", "aborted"}
      /\ walk'.shifted = walk.shifted /\ walk'.days = walk.days
      /\ walk'.start = walk.start /\ walk'.end = walk.end
      /\ walk'.corrected = walk.corrected /\ walk'.correctedAt = walk.correctedAt
      /\ walk'.began = walk.began
      /\ walk'.at = "asking" => walk'.page = walk.page + 1
      /\ walk'.at = "done" => last
  BY <1>1, <1>2 DEF Walks
<1>5. ListTypeOK'
  <2>1. yielded' \in [Messages -> Nat]  BY <1>1, <1>2
  <2>2. QED  BY <1>1, <1>4, <2>1 DEF ListInv, ListTypeOK
<1>6. NotPassed'
  <2> SUFFICES ASSUME walk'.at = "asking", ~walk'.shifted, NEW m \in there'
               PROVE  yielded'[m] >= 1 \/ Pending(m)'
    BY DEF NotPassed
  <2>1. InWindowNow' = InWindowNow  BY <1>1, <1>4 DEF InWindowNow, InWindow
  <2>2. Ahead(InWindowNow, m)' = Ahead(InWindowNow, m)
    <3>1. newestFirst' = newestFirst  BY <1>1
    <3>2. QED  BY <2>1, <3>1 DEF Ahead, Precedes
  <2>3. walk'.page - 1 = walk.page  BY <1>2, <1>4
  <2>4. m \in there /\ ~walk.shifted  BY <1>1, <1>4
  <2>5. QED  BY <1>3, <2>1, <2>2, <2>3, <2>4 DEF Pending
<1>7. Cut'  BY <1>1, <1>4 DEF ListInv, Cut, CutAt
<1>8. NothingSkipped'  BY <1>1, <1>3, <1>4 DEF NothingSkipped
<1>9. QED
  BY <1>4, <1>5, <1>6, <1>7, <1>8 DEF ListInv, SkewIsAbsorbed

LEMMA IndexKeeps ==
    ASSUME ListInv, NEW n \in Messages, Index(n)
    PROVE  ListInv'
<1>1. /\ indexed' = indexed \cup {n}
      /\ UNCHANGED <<tick, skew, newestFirst, sentAt, walk, yielded, there>>
  BY DEF Index, mailbox
<1>2. ListTypeOK'  BY <1>1 DEF ListInv, ListTypeOK
<1>3. NotPassed'
  <2> SUFFICES ASSUME NEW m \in there, Pending(m) PROVE Pending(m)'
    BY <1>1 DEF ListInv, NotPassed
  <2>1. InWindowNow \subseteq InWindowNow' /\ InWindowNow' \in SUBSET Messages /\ InWindowNow \in SUBSET Messages
    BY <1>1, <1>2 DEF InWindowNow, InWindow, ListTypeOK
  <2>2. Ahead(InWindowNow, m)' = Ahead(InWindowNow', m)
    <3>1. newestFirst' = newestFirst  BY <1>1
    <3>2. QED  BY <3>1 DEF Ahead, Precedes
  <2>3. Ahead(InWindowNow, m) \subseteq Ahead(InWindowNow', m)  BY <2>1 DEF Ahead
  <2>4. /\ IsFiniteSet(Ahead(InWindowNow', m)) /\ Cardinality(Ahead(InWindowNow', m)) \in Nat
        /\ Cardinality(Ahead(InWindowNow, m)) \in Nat
    BY <2>1, AheadIsFinite
  <2>5. Cardinality(Ahead(InWindowNow, m)) <= Cardinality(Ahead(InWindowNow', m))
    BY <2>3, <2>4, FS_Subset
  <2>6. (walk.page - 1) * PageSize \in Int
    BY ListingBounds DEF ListInv, ListTypeOK, Walks
  <2>7. m \in InWindowNow /\ Cardinality(Ahead(InWindowNow, m)) >= (walk.page - 1) * PageSize
    BY DEF Pending
  <2>8. Cardinality(Ahead(InWindowNow', m)) >= (walk.page - 1) * PageSize
    BY <2>4, <2>5, <2>6, <2>7
  <2>9. QED  BY <1>1, <2>1, <2>2, <2>7, <2>8 DEF Pending
<1>4. QED
  BY <1>1, <1>2, <1>3 DEF ListInv, Cut, CutAt, NothingSkipped, SkewIsAbsorbed

LEMMA ClockTicksKeeps ==
    ASSUME ListInv, ClockTicks
    PROVE  ListInv'
<1>1. /\ tick \in Nat /\ tick' = tick + 1 /\ StartSkew \in Nat
      /\ walk.correctedAt \in Nat /\ walk.began \in Nat /\ skew \in Int
      /\ UNCHANGED <<skew, newestFirst, sentAt, indexed, walk, yielded, there>>
  BY ListingBounds DEF ListInv, ListTypeOK, Walks, ClockTicks, mailbox
<1>2. ListTypeOK'  BY <1>1 DEF ListInv, ListTypeOK
<1>3. NotPassed'
  <2>1. InWindowNow' = InWindowNow  BY <1>1 DEF InWindowNow, InWindow
  <2>2. newestFirst' = newestFirst  BY <1>1
  <2>3. \A m : Ahead(InWindowNow, m)' = Ahead(InWindowNow, m)
    BY <2>1, <2>2 DEF Ahead, Precedes
  <2>4. \A m : Pending(m)' = Pending(m)  BY <1>1, <2>1, <2>3 DEF Pending
  <2>5. QED  BY <1>1, <2>4 DEF ListInv, NotPassed
<1>4. Cut'  BY <1>1 DEF ListInv, Cut, CutAt
<1>5. SkewIsAbsorbed'  BY <1>1 DEF ListInv, SkewIsAbsorbed
<1>6. QED  BY <1>1, <1>2, <1>3, <1>4, <1>5 DEF ListInv, NothingSkipped

\* ListInv is inductive: the pages asked for are behind every message not yet
\* yielded, and the window of a walk over days is cut from one of the clocks.
THEOREM ListInvariant == ListSpec => []ListInv
<1>1. ListInit => ListInv
  <2> SUFFICES ASSUME ListInit PROVE ListInv
    OBVIOUS
  <2>1. /\ tick \in Nat /\ sentAt \in [Messages -> Nat] /\ walk \in Walks
        /\ walk.at = "idle" /\ walk.page = 1 /\ ~walk.corrected
        /\ yielded \in [Messages -> Nat] /\ there = {} /\ indexed \subseteq Messages
        /\ skew \in Skews /\ newestFirst \in BOOLEAN
    BY ListingBounds DEF ListInit, Walks
  <2>2. QED
    BY <2>1 DEF ListInv, ListTypeOK, NotPassed, Cut, NothingSkipped, SkewIsAbsorbed
<1>2. ListInv /\ [ListNext]_listVars => ListInv'
  <2> SUFFICES ASSUME ListInv, [ListNext]_listVars PROVE ListInv'
    OBVIOUS
  <2>1. CASE Begin(TRUE, 0, 0)
    <3>1. TRUE \in BOOLEAN /\ 0 \in Int  OBVIOUS
    <3>2. QED  BY <2>1, <3>1, BeginKeeps
  <2>2. ASSUME NEW s \in 0..LastTick, NEW e \in 0..LastTick, Begin(FALSE, s, e)
        PROVE  ListInv'
    <3>1. FALSE \in BOOLEAN /\ s \in Int /\ e \in Int  OBVIOUS
    <3>2. QED  BY <2>2, <3>1, BeginKeeps
  <2>3. CASE Correct  BY <2>3, CorrectKeeps
  <2>4. ASSUME NEW quoted \in BOOLEAN, WindowFault(quoted) PROVE ListInv'
    BY <2>4, WindowFaultKeeps
  <2>5. ASSUME NEW stated \in BOOLEAN, Page(stated) PROVE ListInv'
    BY <2>5, PageKeeps
  <2>6. ASSUME NEW m \in Messages, Index(m) PROVE ListInv'
    BY <2>6, IndexKeeps
  <2>7. CASE ClockTicks  BY <2>7, ClockTicksKeeps
  <2>8. CASE UNCHANGED listVars
    <3>1. UNCHANGED <<tick, skew, newestFirst, sentAt, indexed, walk, yielded, there>>
      BY <2>8 DEF listVars
    <3>2. ListTypeOK' = ListTypeOK /\ Cut' = Cut
          /\ NothingSkipped' = NothingSkipped /\ SkewIsAbsorbed' = SkewIsAbsorbed
      BY <3>1 DEF ListTypeOK, Cut, CutAt, NothingSkipped, SkewIsAbsorbed
    <3>3. NotPassed' = NotPassed
      BY <3>1 DEF NotPassed, Pending, Ahead, Precedes, InWindowNow, InWindow
    <3>4. QED  BY <3>1, <3>2, <3>3 DEF ListInv
  <2>9. QED
    BY <2>1, <2>2, <2>3, <2>4, <2>5, <2>6, <2>7, <2>8 DEF ListNext
<1>3. QED  BY <1>1, <1>2, PTL DEF ListSpec

\* The listing's variables keep their types.
THEOREM ListTypes == ListSpec => []ListTypeOK
<1>1. ListInv => ListTypeOK  BY DEF ListInv
<1>2. QED  BY <1>1, ListInvariant, PTL

\* A walk that ends well, its window not moved behind its first page, has yielded
\* every message that was there when it began.
THEOREM AllAreYielded == ListSpec => []NothingSkipped
<1>1. ListInv => NothingSkipped  BY DEF ListInv
<1>2. QED  BY <1>1, ListInvariant, PTL

\* A walk over days fails on its window long after its one correction, or on a fault
\* that quotes no clock: then this machine's is ahead by more than the end's margin,
\* or the walk has lasted longer than the start's margin and the difference.
THEOREM SkewCostsOneCorrection == ListSpec => []SkewIsAbsorbed
<1>1. ListInv => SkewIsAbsorbed  BY DEF ListInv
<1>2. QED  BY <1>1, ListInvariant, PTL

-----------------------------------------------------------------------------
(* The BNR exchange rates.                                                 *)

LEMMA QuotientGrows ==
    ASSUME NEW a \in Nat, NEW b \in Nat, a <= b, NEW d \in Nat \ {0}
    PROVE  a \div d <= b \div d
<1>1. /\ a \div d \in Nat /\ b \div d \in Nat /\ (a \div d) * d <= a
      /\ (a \div d) * d \in Nat
  BY Division
<1>2. (a \div d) * d <= b  BY <1>1
<1>3. QED  BY <1>1, <1>2, Quotient

LEMMA Greatest ==
    ASSUME NEW S \in SUBSET Int, S # {}, NEW top \in Int, \A x \in S : x <= top
    PROVE  Max(S) \in S /\ \A x \in S : x <= Max(S)
<1> DEFINE Gaps == {top - x : x \in S}
<1>1. Gaps \in SUBSET Nat /\ Gaps # {}
  <2>1. \A x \in S : top - x \in Nat  OBVIOUS
  <2>2. PICK x \in S : TRUE  OBVIOUS
  <2>3. top - x \in Gaps  OBVIOUS
  <2>4. QED  BY <2>1, <2>3
<1>2. PICK g \in Gaps : \A h \in Gaps : g <= h
  <2> HIDE DEF Gaps
  <2>1. QED  BY <1>1, LeastNumber
<1>3. PICK m \in S : g = top - m  BY <1>2
<1>4. \A x \in S : m >= x
  <2>1. \A x \in S : top - m <= top - x  BY <1>2, <1>3
  <2>2. QED  BY <2>1
<1>5. QED  BY <1>4 DEF Max

\* The day of a set is in the document, or is not the document's to tell: for a day
\* that the document answers there is a later set in it.
Tells(x, day) ==
    /\ x.path = LatestFile => \A e \in x.days : day <= e
    /\ x.path = TenDayFile => day \in x.days \/ \A e \in x.days : day < e
    /\ x.path >= 0 /\ YearOf(day) = x.path => day \in x.days

\* The last moment at which a document may be served without a set: until the set is
\* published, but an archive until it has been regenerated the day after.
Out(x, p) == IF x.path >= 0 THEN (p.day + 1) * DayLength + PublishedBy ELSE p.at

\* A document that was served, in the cache or about to be put there.  A day that is
\* out of the ten-day file's reach is over by two days.
DocumentHolds(x) ==
    /\ x.days \subseteq DaysPublished
    /\ x.path = TenDayFile =>
          \A d \in Days : (\A e \in x.days : e > d) => d + 2 <= Today
    /\ x.path = LatestFile =>
          /\ \E m \in x.days : x.days = {m}
          /\ \A d \in Days, e \in x.days : d >= Today => answered[d] <= e
    /\ x.path >= 0 => \A e \in x.days : YearOf(e) = x.path
    /\ x.closed => \A p \in published : Tells(x, p.day) \/ LastOfYear(p.day)

\* A live document tells of what was out before its fetch began.
FetchHolds(f) ==
    /\ f.closed => f.path >= 0 /\ f.path < YearOf(Today)
    /\ time <= f.by /\ f.by <= time + FetchMax
    /\ f.days # NothingYet =>
          /\ DocumentHolds(f)
          /\ \A p \in published : Out(f, p) + FetchMax < f.by => Tells(f, p.day)

CacheHolds(c) ==
    /\ c.closed => c.path >= 0 /\ c.path < YearOf(Today)
    /\ c.days # {} /\ DocumentHolds(c)
    /\ ~c.closed =>
          /\ time < c.expires /\ c.expires <= time + LiveTTL
          /\ \A p \in published :
                Out(c, p) + LiveTTL + FetchMax < c.expires => Tells(c, p.day)

\* What is left to read for a day: an end of SourcesFor.
Plans(day) ==
    IF YearOf(day) = 0
    THEN {<<LatestFile, TenDayFile, YearOf(day)>>, <<TenDayFile, YearOf(day)>>,
          <<YearOf(day)>>}
    ELSE {<<LatestFile, TenDayFile, YearOf(day), YearOf(day) - 1>>,
          <<TenDayFile, YearOf(day), YearOf(day) - 1>>,
          <<YearOf(day), YearOf(day) - 1>>, <<YearOf(day) - 1>>}

\* A day that is not over is looked up in today's file, and an archive is read only
\* for a day that is over by two; the archive of the year before is read for a day
\* with no set in its own year, but for the year's last day.
PendingHolds(k) ==
    /\ k.paths \in Plans(k.day)
    /\ k.day >= Today => Head(k.paths) = LatestFile
    /\ Head(k.paths) >= 0 => k.day + 2 <= Today
    /\ YearOf(k.day) > 0 /\ k.paths = <<YearOf(k.day) - 1>> =>
          \A p \in published : p.day <= k.day =>
              YearOf(p.day) # YearOf(k.day) \/ LastOfYear(p.day)
    /\ k.answer = Nowhere /\ k.floor <= answered[k.day]
    /\ k.floor \in DaysPublished \cup {Nowhere}

\* FreshEnough and NoOlderAnswer, of one lookup.
AnswerHolds(k) ==
    /\ k.answer \in DaysPublished /\ k.answer <= k.day
    /\ \A p \in published :
          p.day <= k.day /\ p.at + LiveTTL + FetchMax <= k.began
              => p.day <= k.answer \/ LastOfYear(p.day)
    /\ k.answer >= k.floor \/ LastOfYear(k.floor)

LookupHolds(k) ==
    /\ k.began <= time /\ k.answer <= answered[k.day]
    /\ k.at \in {"trying", "waiting"} => PendingHolds(k)
    /\ k.at = "done" => AnswerHolds(k)

SetHolds(p) ==
    p.at <= time /\ p.day <= Today /\ p.at <= p.day * DayLength + PublishedBy

\* There is one document of a kind at a time, fetched or cached.
OneEach ==
    /\ \A f, g \in fetches : f.path = g.path /\ f.closed = g.closed => f = g
    /\ \A c, b \in cache : c.path = b.path /\ c.closed = b.closed => c = b
    /\ \A f \in fetches, c \in cache : ~(f.path = c.path /\ f.closed = c.closed)

Fetches == [path : Paths, closed : BOOLEAN, days : (SUBSET Days) \cup {NothingYet}, by : Nat]
Documents == [path : Paths, closed : BOOLEAN, days : SUBSET Days, expires : Nat]

BnrInv ==
    /\ BnrTypeOK /\ fetches \subseteq Fetches /\ cache \subseteq Documents
    /\ 0 \in DaysPublished /\ \A p \in published : SetHolds(p)
    /\ \A d \in Days : answered[d] \in DaysPublished \cup {Nowhere} /\ answered[d] <= d
    /\ OneEach
    /\ \A f \in fetches : FetchHolds(f)
    /\ \A c \in cache : CacheHolds(c)
    /\ \A l \in Lookups : LookupHolds(lookup[l])

-----------------------------------------------------------------------------
(* Days, sets, plans.                                                      *)

LEMMA Numbers ==
    /\ DayLength \in Nat \ {0} /\ YearLength \in Nat \ {0} /\ WindowSize \in Nat \ {0}
    /\ LiveTTL \in Nat \ {0} /\ FetchMax \in Nat \ {0} /\ PublishedBy \in Nat
    /\ PublishedBy < DayLength /\ Reach \in Nat /\ FirstTime \in Nat /\ LastTime \in Nat
    /\ FirstTime <= LastTime /\ PublishedBy + LiveTTL + FetchMax <= DayLength
    /\ Reach >= 1 /\ WindowSize >= 2
  BY BnrBounds, ExpiresByMidnight, TenDaysBridge

LEMMA DayFacts ==
    /\ DayOf(LastTime) \in Nat /\ Days \subseteq Nat /\ 0 \in Days /\ IsFiniteSet(Days)
    /\ \A d \in Days : d <= DayOf(LastTime) /\ YearOf(d) \in Nat /\ YearOf(d) \in Paths
    /\ \A d, e \in Days : d <= e => YearOf(d) <= YearOf(e)
    /\ \A d \in Days : YearOf(d) > 0 => YearOf(d) - 1 \in Paths
<1>1. DayOf(LastTime) \in Nat  BY Numbers, Division DEF DayOf
<1>2. Days \subseteq Nat /\ 0 \in Days /\ IsFiniteSet(Days) /\ \A d \in Days : d <= DayOf(LastTime)
  BY <1>1, FS_Interval DEF Days
<1>3. \A d \in Days : YearOf(d) \in Nat /\ YearOf(d) \in Paths
  BY <1>2, Numbers, Division DEF YearOf, Paths
<1>4. \A d, e \in Days : d <= e => YearOf(d) <= YearOf(e)
  BY <1>2, Numbers, QuotientGrows DEF YearOf
<1>5. ASSUME NEW d \in Days, YearOf(d) > 0 PROVE YearOf(d) - 1 \in Paths
  <2> DEFINE y == YearOf(d)
             e == (y - 1) * YearLength
  <2>1. /\ y \in Nat /\ d \in Nat /\ y * YearLength <= d /\ y > 0
    BY <1>2, <1>3, <1>5, Numbers, Division DEF YearOf
  <2> HIDE DEF y
  <2>2. e \in Nat /\ e <= d
    <3>1. y - 1 \in Nat /\ y * YearLength = e + YearLength  BY <2>1, Numbers
    <3>2. e \in Nat  BY <3>1, Numbers
    <3>3. QED  BY <2>1, <3>1, <3>2, Numbers
  <2>3. e \in Days  BY <1>1, <1>2, <2>1, <2>2 DEF Days
  <2>4. YearOf(e) = y - 1
    <3>1. y - 1 \in Nat /\ e < e + YearLength  BY <2>1, <2>2, Numbers
    <3>2. QED  BY <2>2, <3>1, Numbers, Quotient DEF YearOf
  <2>5. QED  BY <2>3, <2>4 DEF Paths, y
<1>6. QED  BY <1>1, <1>2, <1>3, <1>4, <1>5

\* The latest set of a document up to a day.
LEMMA LatestFacts ==
    ASSUME NEW days \in SUBSET Days, NEW day \in Days
    PROVE  LET found == LatestOnOrBefore(days, day) IN
           /\ found = Nowhere => \A e \in days : e > day
           /\ found # Nowhere => /\ found \in days /\ found <= day
                                 /\ \A e \in days : e <= day => e <= found
           /\ found \in Days \cup {Nowhere}
<1> DEFINE upTo == {e \in days : e <= day}
<1>1. CASE upTo = {}
  BY <1>1, DayFacts DEF LatestOnOrBefore
<1>2. CASE upTo # {}
  <2>1. day \in Int /\ \A x \in days : x \in Nat
    <3>1. Days \subseteq Nat  BY DayFacts
    <3>2. QED  BY <3>1
  <2>2. upTo \in SUBSET Int /\ \A x \in upTo : x <= day
    <3>1. upTo \subseteq days  OBVIOUS
    <3>2. \A x \in upTo : x <= day  OBVIOUS
    <3> HIDE DEF upTo
    <3>3. QED  BY <2>1, <3>1, <3>2
  <2>3. Max(upTo) \in upTo /\ \A x \in upTo : x <= Max(upTo)
    <3> HIDE DEF upTo
    <3>1. QED  BY <1>2, <2>1, <2>2, Greatest
  <2>4. LatestOnOrBefore(days, day) = Max(upTo)  BY <1>2 DEF LatestOnOrBefore
  <2>5. Max(upTo) \in Nat /\ Max(upTo) # Nowhere
    <3>1. Max(upTo) \in days  BY <2>3
    <3>2. \A n \in Nat : n # Nowhere  BY DEF Nowhere
    <3> HIDE DEF upTo
    <3>3. QED  BY <2>1, <3>1, <3>2
  <2>6. QED  BY <2>3, <2>4, <2>5
<1>3. QED  BY <1>1, <1>2

\* A sequence that continues another by one element.
LEMMA OneMore ==
    ASSUME NEW S, NEW s \in Seq(S), NEW c \in S, NEW t \in Seq(S),
           NEW n \in Nat, Len(s) = n, Len(t) = n + 1,
           \A i \in 1..n : t[i] = s[i], t[n + 1] = c
    PROVE  s \o <<c>> = t
<1> DEFINE u == Append(s, c)
<1>1. /\ u \in Seq(S) /\ Len(u) = Len(s) + 1
      /\ \A i \in 1..Len(s) : u[i] = s[i]
      /\ u[Len(s) + 1] = c
  BY AppendProperties
<1>2. s \o <<c>> = u  BY AppendIsConcat
<1> HIDE DEF u
<1>3. Len(s) = n  OBVIOUS
<1>4. \A i \in 1..Len(u) : u[i] = t[i]
  <2> SUFFICES ASSUME NEW i \in 1..Len(u) PROVE u[i] = t[i]
    OBVIOUS
  <2>1. i \in 1..Len(s) \/ i = Len(s) + 1  BY <1>1, <1>3
  <2>2. QED  BY <1>1, <2>1
<1>5. u = t  BY <1>1, <1>4, SeqEqual
<1>6. QED  BY <1>2, <1>5

\* The provers do not see through the concatenation of tuples.
LEMMA Tuples ==
    ASSUME NEW a, NEW b, NEW c, NEW d
    PROVE  /\ <<a>> \o <<b>> \o <<c>> \o <<d>> = <<a, b, c, d>>
           /\ <<a>> \o <<b>> \o <<c>> \o <<>> = <<a, b, c>>
           /\ <<>> \o <<b>> \o <<c>> \o <<d>> = <<b, c, d>>
           /\ <<>> \o <<b>> \o <<c>> \o <<>> = <<b, c>>
           /\ <<>> \o <<>> \o <<c>> \o <<d>> = <<c, d>>
           /\ <<>> \o <<>> \o <<c>> \o <<>> = <<c>>
<1> DEFINE S == {a, b, c, d}
<1>1. /\ <<a, b, c>> \in Seq(S) /\ <<b, c>> \in Seq(S) /\ <<b>> \in Seq(S)
      /\ <<c>> \in Seq(S) /\ <<>> \in Seq(S)
  OBVIOUS
<1>2. \A x, y \in S : <<x>> \o <<y>> = <<x, y>>
  <2> SUFFICES ASSUME NEW x \in S, NEW y \in S PROVE <<x>> \o <<y>> = <<x, y>>
    OBVIOUS
  <2> DEFINE s == <<x>>
             t == <<x, y>>
             n == 1
  <2>1. /\ s \in Seq(S) /\ t \in Seq(S) /\ n \in Nat /\ Len(s) = n /\ Len(t) = n + 1
        /\ t[n + 1] = y /\ \A i \in 1..n : t[i] = s[i]
    OBVIOUS
  <2> HIDE DEF s, t, n
  <2>2. s \o <<y>> = t  BY <2>1, OneMore
  <2>3. QED  BY <2>2 DEF s, t
<1>3. \A x, y, z \in S : <<x, y>> \o <<z>> = <<x, y, z>>
  <2> SUFFICES ASSUME NEW x \in S, NEW y \in S, NEW z \in S
               PROVE  <<x, y>> \o <<z>> = <<x, y, z>>
    OBVIOUS
  <2> DEFINE s == <<x, y>>
             t == <<x, y, z>>
             n == 2
  <2>1. /\ s \in Seq(S) /\ t \in Seq(S) /\ n \in Nat /\ Len(s) = n /\ Len(t) = n + 1
        /\ t[n + 1] = z /\ \A i \in 1..n : t[i] = s[i]
    OBVIOUS
  <2> HIDE DEF s, t, n
  <2>2. s \o <<z>> = t  BY <2>1, OneMore
  <2>3. QED  BY <2>2 DEF s, t
<1>4. <<a, b, c>> \o <<d>> = <<a, b, c, d>>
  <2> DEFINE s == <<a, b, c>>
             t == <<a, b, c, d>>
             n == 3
  <2>1. /\ s \in Seq(S) /\ t \in Seq(S) /\ n \in Nat /\ Len(s) = n /\ Len(t) = n + 1
        /\ t[n + 1] = d /\ \A i \in 1..n : t[i] = s[i]
    OBVIOUS
  <2> HIDE DEF s, t, n
  <2>2. s \o <<d>> = t  BY <2>1, OneMore
  <2>3. QED  BY <2>2 DEF s, t
<1>5. \A s \in Seq(S) : s \o <<>> = s /\ <<>> \o s = s  BY ConcatEmptySeq
<1>6. /\ <<a>> \o <<b>> = <<a, b>> /\ <<b>> \o <<c>> = <<b, c>> /\ <<c>> \o <<d>> = <<c, d>>
      /\ <<a, b>> \o <<c>> = <<a, b, c>> /\ <<b, c>> \o <<d>> = <<b, c, d>>
  BY <1>2, <1>3
<1>7. /\ <<>> \o <<b>> = <<b>> /\ <<>> \o <<c>> = <<c>> /\ <<>> \o <<>> = <<>>
      /\ <<a, b, c>> \o <<>> = <<a, b, c>> /\ <<b, c>> \o <<>> = <<b, c>>
      /\ <<c>> \o <<>> = <<c>>
  BY <1>1, <1>5
<1>8. QED  BY <1>4, <1>6, <1>7, Zenon

\* Up to four paths, their head and tail.
LEMMA TupleFacts ==
    ASSUME NEW S, NEW a \in S, NEW b \in S, NEW c \in S, NEW d \in S
    PROVE  /\ {<<a>>, <<a, b>>, <<a, b, c>>, <<a, b, c, d>>} \subseteq Seq(S)
           /\ Head(<<a>>) = a /\ Head(<<a, b>>) = a /\ Head(<<a, b, c>>) = a
           /\ Head(<<a, b, c, d>>) = a
           /\ Tail(<<a, b>>) = <<b>> /\ Tail(<<a, b, c>>) = <<b, c>>
           /\ Tail(<<a, b, c, d>>) = <<b, c, d>>
           /\ Len(<<a>>) = 1 /\ Len(<<a, b>>) = 2 /\ Len(<<a, b, c>>) = 3
           /\ Len(<<a, b, c, d>>) = 4
<1>1. <<a>> \in Seq(S) /\ <<a, b>> \in Seq(S)  OBVIOUS
<1>2. <<a, b, c>> \in Seq(S) /\ <<a, b, c, d>> \in Seq(S)  OBVIOUS
<1>3. /\ Head(<<a>>) = a /\ Head(<<a, b>>) = a /\ Head(<<a, b, c>>) = a
      /\ Head(<<a, b, c, d>>) = a
  OBVIOUS
<1>4. /\ Tail(<<a, b>>) = <<b>> /\ Tail(<<a, b, c>>) = <<b, c>>
      /\ Tail(<<a, b, c, d>>) = <<b, c, d>>
  OBVIOUS
<1>5. QED  BY <1>1, <1>2, <1>3, <1>4

LEMMA SourcesArePlans ==
    ASSUME NEW day \in Days, Today \in Nat
    PROVE  /\ SourcesFor(day) \in Plans(day)
           /\ day >= Today => Head(SourcesFor(day)) = LatestFile
           /\ Head(SourcesFor(day)) >= 0 => day + 2 <= Today
           /\ YearOf(day) > 0 => SourcesFor(day) # <<YearOf(day) - 1>>
<1> DEFINE y == YearOf(day)
           now == day >= Today
           near == day >= Today - Reach
<1>1. y \in Nat /\ (now => near) /\ (~near => day + 2 <= Today)
  BY DayFacts, Numbers
<1>f. ~(LatestFile >= 0) /\ ~(TenDayFile >= 0)  BY DEF LatestFile, TenDayFile
<1>2. SourcesFor(day) = (IF now THEN <<LatestFile>> ELSE <<>>)
        \o (IF near THEN <<TenDayFile>> ELSE <<>>)
        \o <<y>> \o (IF y > 0 THEN <<y - 1>> ELSE <<>>)
  BY DEF SourcesFor
<1> HIDE DEF y, now, near
<1>t. ASSUME NEW L, NEW T, NEW u, NEW v
      PROVE  /\ <<L>> \o <<T>> \o <<u>> \o <<v>> = <<L, T, u, v>>
             /\ <<L>> \o <<T>> \o <<u>> \o <<>> = <<L, T, u>>
             /\ <<>> \o <<T>> \o <<u>> \o <<v>> = <<T, u, v>>
  BY Tuples, Z3
<1>u. /\ <<LatestFile>> \o <<TenDayFile>> \o <<y>> \o <<y - 1>> = <<LatestFile, TenDayFile, y, y - 1>>
      /\ <<LatestFile>> \o <<TenDayFile>> \o <<y>> \o <<>> = <<LatestFile, TenDayFile, y>>
      /\ <<>> \o <<TenDayFile>> \o <<y>> \o <<y - 1>> = <<TenDayFile, y, y - 1>>
  BY <1>t
<1>3. CASE now /\ y > 0
  <2>1. SourcesFor(day) = <<LatestFile>> \o <<TenDayFile>> \o <<y>> \o <<y - 1>>
    BY <1>1, <1>2, <1>3
  <2>2. SourcesFor(day) = <<LatestFile, TenDayFile, y, y - 1>>  BY <2>1, <1>u
  <2>3. Head(SourcesFor(day)) = LatestFile  BY <2>2
  <2>4. QED  BY <1>1, <1>f, <1>3, <2>2, <2>3 DEF Plans, y, now
<1>4. CASE now /\ ~(y > 0)
  <2>1. SourcesFor(day) = <<LatestFile>> \o <<TenDayFile>> \o <<y>> \o <<>>
    BY <1>1, <1>2, <1>4
  <2>2. SourcesFor(day) = <<LatestFile, TenDayFile, y>>  BY <2>1, <1>u
  <2>3. Head(SourcesFor(day)) = LatestFile  BY <2>2
  <2>4. QED  BY <1>1, <1>f, <1>4, <2>2, <2>3 DEF Plans, y, now
<1>5. CASE ~now /\ near /\ y > 0
  <2>1. SourcesFor(day) = <<>> \o <<TenDayFile>> \o <<y>> \o <<y - 1>>
    BY <1>1, <1>2, <1>5
  <2>2. SourcesFor(day) = <<TenDayFile, y, y - 1>>  BY <2>1, <1>u
  <2>3. Head(SourcesFor(day)) = TenDayFile  BY <2>2
  <2>4. QED  BY <1>1, <1>f, <1>5, <2>2, <2>3 DEF Plans, y, now
<1>6. CASE ~now /\ near /\ ~(y > 0)
  <2>1. SourcesFor(day) = <<>> \o <<TenDayFile>> \o <<y>> \o <<>>
    BY <1>1, <1>2, <1>6
  <2>2. SourcesFor(day) = <<TenDayFile, y>>  BY <2>1, Tuples, Zenon
  <2>3. Head(SourcesFor(day)) = TenDayFile  BY <2>2
  <2>4. QED  BY <1>1, <1>f, <1>6, <2>2, <2>3 DEF Plans, y, now
<1>7. CASE ~now /\ ~near /\ y > 0
  <2>1. SourcesFor(day) = <<>> \o <<>> \o <<y>> \o <<y - 1>>
    BY <1>1, <1>2, <1>7
  <2>2. SourcesFor(day) = <<y, y - 1>>  BY <2>1, Tuples, Zenon
  <2>3. QED  BY <1>1, <1>7, <2>2 DEF Plans, y, now
<1>8. CASE ~now /\ ~near /\ ~(y > 0)
  <2>1. SourcesFor(day) = <<>> \o <<>> \o <<y>> \o <<>>
    BY <1>1, <1>2, <1>8
  <2>2. SourcesFor(day) = <<y>>  BY <2>1, Tuples, Zenon
  <2>3. QED  BY <1>1, <1>8, <2>2 DEF Plans, y, now
<1>9. QED  BY <1>1, <1>3, <1>4, <1>5, <1>6, <1>7, <1>8

\* What a plan is, path by path.
LEMMA PlanFacts ==
    ASSUME NEW day \in Days, NEW paths \in Plans(day)
    PROVE  /\ paths \in Seq(Paths) /\ Head(paths) \in Paths
           /\ Len(paths) # 1 => Tail(paths) \in Plans(day)
           /\ Head(paths) = LatestFile => Len(paths) # 1
           /\ Len(paths) # 1 /\ Head(Tail(paths)) >= 0 => Head(paths) # LatestFile
           /\ Head(paths) \in {LatestFile, TenDayFile} => ~(Head(paths) >= 0)
           /\ Len(paths) # 1 /\ YearOf(day) > 0 /\ Tail(paths) = <<YearOf(day) - 1>> =>
                 Head(paths) = YearOf(day)
           /\ Head(paths) \notin {LatestFile, TenDayFile} =>
                 /\ Head(paths) >= 0
                 /\ \/ Head(paths) = YearOf(day)
                    \/ YearOf(day) > 0 /\ paths = <<YearOf(day) - 1>>
<1> DEFINE y == YearOf(day)
<1>1. /\ y \in Nat /\ y \in Paths /\ (y > 0 => y - 1 \in Paths)
      /\ LatestFile \in Paths /\ TenDayFile \in Paths
  BY DayFacts DEF Paths
<1>2. paths \in IF y = 0
        THEN {<<LatestFile, TenDayFile, y>>, <<TenDayFile, y>>, <<y>>}
        ELSE {<<LatestFile, TenDayFile, y, y - 1>>, <<TenDayFile, y, y - 1>>,
              <<y, y - 1>>, <<y - 1>>}
  BY DEF Plans
<1>3. LatestFile = -2 /\ TenDayFile = -1  BY DEF LatestFile, TenDayFile
<1>4. y = 0 => {<<TenDayFile, y>>, <<y>>} \subseteq Plans(day)  BY DEF Plans
<1>5. y # 0 => {<<TenDayFile, y, y - 1>>, <<y, y - 1>>, <<y - 1>>} \subseteq Plans(day)
  BY DEF Plans
<1> HIDE DEF y
<1>6. CASE y = 0 /\ paths = <<LatestFile, TenDayFile, y>>
  <2>1. /\ Tail(paths) = <<TenDayFile, y>> /\ Head(paths) = LatestFile /\ Len(paths) = 3
        /\ Head(Tail(paths)) = TenDayFile
    BY <1>6
  <2>2. paths \in Seq(Paths)  BY <1>1, <1>6, TupleFacts
  <2>3. QED  BY <1>1, <1>3, <1>4, <1>6, <2>1, <2>2 DEF y
<1>7. CASE y = 0 /\ paths = <<TenDayFile, y>>
  <2>1. Tail(paths) = <<y>> /\ Head(paths) = TenDayFile /\ Len(paths) = 2  BY <1>7
  <2>2. paths \in Seq(Paths)  BY <1>1, <1>7, TupleFacts
  <2>3. QED  BY <1>1, <1>3, <1>4, <1>7, <2>1, <2>2 DEF y
<1>8. CASE paths = <<y>> /\ y = 0
  <2>1. Head(paths) = y /\ Len(paths) = 1  BY <1>8
  <2>2. paths \in Seq(Paths)  BY <1>1, <1>8, TupleFacts
  <2>3. QED  BY <1>1, <1>3, <1>8, <2>1, <2>2 DEF y
<1>9. CASE y # 0 /\ paths = <<LatestFile, TenDayFile, y, y - 1>>
  <2>1. /\ Tail(paths) = <<TenDayFile, y, y - 1>> /\ Head(paths) = LatestFile
        /\ Len(paths) = 4 /\ Len(Tail(paths)) # 1 /\ Head(Tail(paths)) = TenDayFile
    BY <1>9
  <2>2. paths \in Seq(Paths)  BY <1>1, <1>9, TupleFacts
  <2>3. Tail(paths) # <<y - 1>>
    <3>1. Len(<<y - 1>>) = 1  OBVIOUS
    <3>2. QED  BY <2>1, <3>1, Zenon
  <2>4. QED  BY <1>1, <1>3, <1>5, <1>9, <2>1, <2>2, <2>3 DEF y
<1>10. CASE y # 0 /\ paths = <<TenDayFile, y, y - 1>>
  <2>1. /\ Tail(paths) = <<y, y - 1>> /\ Head(paths) = TenDayFile
        /\ Len(paths) = 3 /\ Len(Tail(paths)) # 1
    BY <1>10
  <2>2. paths \in Seq(Paths)  BY <1>1, <1>10, TupleFacts
  <2>3. Tail(paths) # <<y - 1>>
    <3>1. Len(<<y - 1>>) = 1  OBVIOUS
    <3>2. QED  BY <2>1, <3>1, Zenon
  <2>4. QED  BY <1>1, <1>3, <1>5, <1>10, <2>1, <2>2, <2>3 DEF y
<1>11. CASE y # 0 /\ paths = <<y, y - 1>>
  <2>1. Tail(paths) = <<y - 1>> /\ Head(paths) = y /\ Len(paths) = 2  BY <1>11
  <2>2. paths \in Seq(Paths)  BY <1>1, <1>11, TupleFacts
  <2>3. QED  BY <1>1, <1>3, <1>5, <1>11, <2>1, <2>2 DEF y
<1>12. CASE y # 0 /\ paths = <<y - 1>>
  <2>1. Head(paths) = y - 1 /\ Len(paths) = 1  BY <1>12
  <2>2. paths \in Seq(Paths)  BY <1>1, <1>12, TupleFacts
  <2>3. QED  BY <1>1, <1>3, <1>12, <2>1, <2>2 DEF y
<1>13. QED
  BY <1>2, <1>6, <1>7, <1>8, <1>9, <1>10, <1>11, <1>12

-----------------------------------------------------------------------------
(* What the invariant says of a state.                                     *)

LEMMA StateFacts ==
    ASSUME BnrInv
    PROVE  /\ time \in Nat /\ FirstTime <= time /\ time <= LastTime
           /\ Today \in Nat /\ Today \in Days /\ Today * DayLength <= time
           /\ Today * DayLength \in Nat
           /\ DaysPublished \subseteq Days /\ 0 \in DaysPublished
           /\ \A p \in published : /\ p.day \in Days /\ p.day \in DaysPublished /\ p.day \in Nat
                                   /\ p.day <= Today /\ p.at \in Nat /\ p.at <= time
                                   /\ p.at <= p.day * DayLength + PublishedBy
           /\ \A d \in DaysPublished : \E p \in published : p.day = d
<1>1. time \in Nat /\ FirstTime <= time /\ time <= LastTime
  BY Numbers DEF BnrInv, BnrTypeOK
<1>2. Today \in Nat /\ Today * DayLength <= time /\ Today * DayLength \in Nat
  BY <1>1, Numbers, Division DEF Today, DayOf
<1>3. Today \in Days
  <2>1. Today <= DayOf(LastTime)
    BY <1>1, Numbers, QuotientGrows DEF Today, DayOf
  <2>2. DayOf(LastTime) \in Nat  BY DayFacts
  <2>3. QED  BY <1>2, <2>1, <2>2 DEF Days
<1>4. ASSUME NEW p \in published
      PROVE  /\ p.day \in Days /\ p.day \in DaysPublished /\ p.day \in Nat
             /\ p.day <= Today /\ p.at \in Nat /\ p.at <= time
             /\ p.at <= p.day * DayLength + PublishedBy
  <2>1. p \in [day : Days, at : 0..LastTime]  BY DEF BnrInv, BnrTypeOK
  <2>2. p.day \in Days /\ p.at \in Nat  BY <2>1, Numbers
  <2>3. p.day \in Nat  BY <2>2, DayFacts
  <2>4. SetHolds(p)  BY DEF BnrInv
  <2>5. p.day \in DaysPublished  BY DEF DaysPublished
  <2>6. QED  BY <2>2, <2>3, <2>4, <2>5 DEF SetHolds
<1>5. \A d \in DaysPublished : \E p \in published : p.day = d
  BY DEF DaysPublished
<1>6. DaysPublished \subseteq Days  BY <1>4, <1>5
<1>7. 0 \in DaysPublished  BY DEF BnrInv
<1>8. QED  BY <1>1, <1>2, <1>3, <1>4, <1>5, <1>6, <1>7

\* What a live document must tell of: the small files of the days before today, the
\* archives of the days before yesterday.
MustTell(x, p) ==
    IF x.path >= 0 THEN p.day + 2 <= Today
    ELSE p.day < Today \/ p.at + LiveTTL + FetchMax <= time

LEMMA LaterDays ==
    ASSUME NEW a \in Nat, NEW b \in Nat, a <= b
    PROVE  a * DayLength <= b * DayLength /\ a * DayLength \in Nat /\ b * DayLength \in Nat
<1>1. PICK n \in Nat : b = a + n
  <2>1. b - a \in Nat /\ b = a + (b - a)  OBVIOUS
  <2>2. QED  BY <2>1
<1>2. b * DayLength = a * DayLength + n * DayLength  BY <1>1, Numbers
<1>3. n * DayLength \in Nat /\ a * DayLength \in Nat  BY Numbers
<1>4. QED  BY <1>2, <1>3

\* A day is as long as the one before.
LEMMA NextDay ==
    ASSUME NEW a \in Nat
    PROVE  (a + 1) * DayLength = a * DayLength + DayLength /\ a * DayLength \in Nat
           /\ (a + 1) * DayLength \in Nat
  BY Numbers

\* Such sets are out for as long as a live document may be kept and a fetch may take:
\* BNR publishes and regenerates early enough.
LEMMA OldEnough ==
    ASSUME BnrInv, NEW x, NEW p \in published
    PROVE  /\ Out(x, p) \in Nat
           /\ MustTell(x, p) => Out(x, p) + LiveTTL + FetchMax <= time
<1>1. /\ p.at \in Nat /\ p.at <= p.day * DayLength + PublishedBy
      /\ Today * DayLength <= time /\ time \in Nat /\ Today * DayLength \in Nat
      /\ p.day \in Nat /\ Today \in Nat
  BY StateFacts
<1>2. /\ (p.day + 1) * DayLength = p.day * DayLength + DayLength
      /\ ((p.day + 1) + 1) * DayLength = (p.day + 1) * DayLength + DayLength
      /\ p.day * DayLength \in Nat /\ (p.day + 1) * DayLength \in Nat
  BY <1>1, NextDay
<1>3. Out(x, p) \in Nat  BY <1>1, <1>2, Numbers DEF Out
<1>4. ASSUME MustTell(x, p) PROVE Out(x, p) + LiveTTL + FetchMax <= time
  <2>1. CASE x.path >= 0
    <3>1. (p.day + 1) + 1 <= Today /\ (p.day + 1) + 1 \in Nat
      BY <1>1, <1>4, <2>1 DEF MustTell
    <3>2. ((p.day + 1) + 1) * DayLength <= Today * DayLength  BY <1>1, <3>1, LaterDays
    <3>3. Out(x, p) = (p.day + 1) * DayLength + PublishedBy  BY <2>1 DEF Out
    <3>4. QED  BY <1>1, <1>2, <3>2, <3>3, Numbers
  <2>2. CASE ~(x.path >= 0) /\ p.day < Today
    <3>1. p.day + 1 <= Today /\ p.day + 1 \in Nat  BY <1>1, <2>2
    <3>2. (p.day + 1) * DayLength <= Today * DayLength  BY <1>1, <3>1, LaterDays
    <3>3. Out(x, p) = p.at  BY <2>2 DEF Out
    <3>4. QED  BY <1>1, <1>2, <3>2, <3>3, Numbers
  <2>3. QED  BY <1>4, <2>1, <2>2 DEF MustTell, Out
<1>5. QED  BY <1>3, <1>4

\* A document at hand tells of every settled set, but of a year's last one.
LEMMA CachedTells ==
    ASSUME BnrInv, NEW c \in cache, NEW p \in published, MustTell(c, p)
    PROVE  Tells(c, p.day) \/ LastOfYear(p.day)
<1>1. CacheHolds(c) /\ c \in Documents  BY DEF BnrInv
<1>2. CASE c.closed
  BY <1>1, <1>2 DEF CacheHolds, DocumentHolds
<1>3. CASE ~c.closed
  <2>1. Out(c, p) + LiveTTL + FetchMax <= time /\ Out(c, p) \in Nat /\ time \in Nat
    BY OldEnough, StateFacts
  <2>2. c.expires \in Nat  BY <1>1 DEF Documents
  <2>3. time < c.expires  BY <1>1, <1>3 DEF CacheHolds
  <2>4. Out(c, p) + LiveTTL + FetchMax < c.expires  BY <2>1, <2>2, <2>3, Numbers
  <2>5. QED  BY <1>1, <1>3, <2>4 DEF CacheHolds
<1>4. QED  BY <1>2, <1>3

LEMMA FetchedTells ==
    ASSUME BnrInv, NEW f \in fetches, f.days # NothingYet, NEW p \in published,
           MustTell(f, p)
    PROVE  Tells(f, p.day)
<1>1. FetchHolds(f) /\ f \in Fetches  BY DEF BnrInv
<1>2. Out(f, p) + LiveTTL + FetchMax <= time /\ Out(f, p) \in Nat /\ time \in Nat
  BY OldEnough, StateFacts
<1>3. f.by \in Nat  BY <1>1 DEF Fetches
<1>4. time <= f.by  BY <1>1 DEF FetchHolds
<1>5. Out(f, p) + FetchMax < f.by  BY <1>2, <1>3, <1>4, Numbers
<1>6. QED  BY <1>1, <1>5 DEF FetchHolds

LEMMA LookupFacts ==
    ASSUME BnrInv, NEW l \in Lookups
    PROVE  /\ lookup \in [Lookups -> LookupStates] /\ lookup[l] \in LookupStates
           /\ lookup[l].day \in Days /\ lookup[l].day \in Nat /\ lookup[l].began \in Nat
           /\ lookup[l].answer \in Days \cup {Nowhere} /\ lookup[l].floor \in Days \cup {Nowhere}
           /\ lookup[l].paths \in Seq(Paths) /\ lookup[l].closed \in BOOLEAN
           /\ lookup[l].at \in {"idle", "trying", "waiting", "done"}
           /\ LookupHolds(lookup[l]) /\ lookup[l].began <= time
<1>1. lookup \in [Lookups -> LookupStates] /\ LookupHolds(lookup[l])
  BY DEF BnrInv, BnrTypeOK
<1>2. lookup[l] \in LookupStates  BY <1>1
<1>3. /\ lookup[l].day \in Days /\ lookup[l].began \in Nat
      /\ lookup[l].answer \in Days \cup {Nowhere} /\ lookup[l].floor \in Days \cup {Nowhere}
      /\ lookup[l].paths \in Seq(Paths) /\ lookup[l].closed \in BOOLEAN
      /\ lookup[l].at \in {"idle", "trying", "waiting", "done"}
  BY <1>2 DEF LookupStates
<1>4. lookup[l].day \in Nat  BY <1>3, DayFacts
<1>5. lookup[l].began <= time  BY <1>1 DEF LookupHolds
<1>6. QED  BY <1>1, <1>2, <1>3, <1>4, <1>5

LEMMA AnsweredFacts ==
    ASSUME BnrInv, NEW d \in Days
    PROVE  /\ answered \in [Days -> Days \cup {Nowhere}]
           /\ answered[d] \in DaysPublished \cup {Nowhere} /\ answered[d] \in Int
           /\ answered[d] <= d /\ answered[d] >= Nowhere /\ Nowhere \in Int
<1>1. /\ answered \in [Days -> Days \cup {Nowhere}]
      /\ answered[d] \in DaysPublished \cup {Nowhere} /\ answered[d] <= d
  BY DEF BnrInv, BnrTypeOK
<1>2. Nowhere \in Int /\ \A n \in Nat : n >= Nowhere  BY DEF Nowhere
<1>3. answered[d] = Nowhere \/ answered[d] \in Nat  BY <1>1, StateFacts, DayFacts
<1>4. answered[d] \in Int /\ answered[d] >= Nowhere  BY <1>2, <1>3
<1>5. QED  BY <1>1, <1>2, <1>4

-----------------------------------------------------------------------------
(* What a lookup makes of a document.                                      *)

\* A document fit to answer a lookup that waits for its path.
Fits(x) ==
    /\ x.days \in SUBSET Days /\ DocumentHolds(x)
    /\ \A p \in published : MustTell(x, p) => Tells(x, p.day) \/ LastOfYear(p.day)

\* An answer found in such a document misses no settled set, but a year's last one.
LEMMA FoundIsLatest ==
    ASSUME BnrInv, NEW l \in Lookups, PendingHolds(lookup[l]),
           NEW x, Fits(x), x.path = Head(lookup[l].paths),
           NEW a \in x.days, a <= lookup[l].day,
           \A e \in x.days : e <= lookup[l].day => e <= a,
           NEW p \in published, p.day <= lookup[l].day,
           ~(x.path >= 0) => p.day < Today \/ p.at + LiveTTL + FetchMax <= time
    PROVE  p.day <= a \/ LastOfYear(p.day)
<1> DEFINE k == lookup[l]
           y == YearOf(k.day)
<1>0. SUFFICES ASSUME ~LastOfYear(p.day) PROVE p.day <= a
  OBVIOUS
<1>1. /\ k.day \in Days /\ k.day \in Nat /\ k.paths \in Plans(k.day)
      /\ x.path >= 0 => k.day + 2 <= Today
  BY LookupFacts DEF PendingHolds
<1>2. /\ p.day \in Days /\ p.day \in Nat /\ a \in Days /\ a \in Nat /\ Today \in Nat
  BY StateFacts, DayFacts DEF Fits
<1>3. Tells(x, p.day) /\ DocumentHolds(x)
  <2>1. MustTell(x, p)
    <3>1. x.path >= 0 => p.day + 2 <= Today  BY <1>1, <1>2
    <3>2. QED  BY <3>1 DEF MustTell
  <2>2. QED  BY <1>0, <2>1 DEF Fits
<1>4. CASE x.path = LatestFile
  BY <1>3, <1>4 DEF Tells
<1>5. CASE x.path = TenDayFile
  <2>1. CASE p.day \in x.days  BY <2>1
  <2>2. CASE \A e \in x.days : p.day < e
    <3>1. p.day < a  BY <2>2
    <3>2. QED  BY <1>2, <3>1
  <2>3. QED  BY <1>3, <1>5, <2>1, <2>2 DEF Tells
<1>6. CASE x.path \notin {LatestFile, TenDayFile}
  <2>1. /\ x.path >= 0
        /\ x.path = y \/ (y > 0 /\ k.paths = <<y - 1>>)
    BY <1>1, <1>6, PlanFacts
  <2>2. YearOf(a) = x.path  BY <1>3, <2>1 DEF DocumentHolds
  <2>3. YearOf(p.day) \in Nat /\ y \in Nat /\ YearOf(p.day) <= y
    BY <1>1, <1>2, DayFacts
  <2>4. YearOf(p.day) <= x.path
    <3>1. CASE x.path = y  BY <2>3, <3>1
    <3>2. CASE y > 0 /\ k.paths = <<y - 1>>
      <4>1. YearOf(p.day) # y  BY <1>0, <3>2 DEF PendingHolds
      <4>2. x.path = y - 1
        <5>1. Head(<<y - 1>>) = y - 1  OBVIOUS
        <5>2. QED  BY <3>2, <5>1
      <4>3. QED  BY <2>3, <4>1, <4>2
    <3>3. QED  BY <2>1, <3>1, <3>2
  <2>5. CASE YearOf(p.day) = x.path
    <3>1. p.day \in x.days  BY <1>3, <2>1, <2>5 DEF Tells
    <3>2. QED  BY <3>1
  <2>6. CASE YearOf(p.day) # x.path
    <3>0. YearOf(a) \in Nat  BY <1>2, DayFacts
    <3>1. ~(YearOf(a) <= YearOf(p.day))  BY <2>2, <2>3, <2>4, <2>6, <3>0
    <3>2. ~(a <= p.day)  BY <1>2, <3>1, DayFacts
    <3>3. QED  BY <1>2, <3>2
  <2>7. QED  BY <2>5, <2>6
<1>7. QED  BY <1>4, <1>5, <1>6

\* A lookup that found its answer.
LEMMA FoundHolds ==
    ASSUME BnrInv, NEW l \in Lookups, PendingHolds(lookup[l]),
           NEW x, Fits(x), x.path = Head(lookup[l].paths),
           NEW a \in x.days, a <= lookup[l].day,
           \A e \in x.days : e <= lookup[l].day => e <= a
    PROVE  /\ a \in DaysPublished
           /\ \A p \in published :
                 p.day <= lookup[l].day /\ p.at + LiveTTL + FetchMax <= lookup[l].began
                    => p.day <= a \/ LastOfYear(p.day)
           /\ a >= lookup[l].floor \/ LastOfYear(lookup[l].floor)
           /\ lookup[l].day >= Today => x.path = LatestFile
<1> DEFINE k == lookup[l]
<1>1. a \in DaysPublished /\ a \in Nat  BY StateFacts, DayFacts DEF Fits, DocumentHolds
<1>2. ASSUME NEW p \in published, p.day <= k.day, p.at + LiveTTL + FetchMax <= k.began
      PROVE  p.day <= a \/ LastOfYear(p.day)
  <2>1. /\ p.at \in Nat /\ time \in Nat /\ k.began \in Nat /\ k.began <= time
    BY StateFacts, LookupFacts
  <2>2. p.at + LiveTTL + FetchMax <= time  BY <1>2, <2>1, Numbers
  <2>3. QED  BY <1>2, <2>2, FoundIsLatest
<1>3. k.day >= Today => x.path = LatestFile  BY DEF PendingHolds
<1>4. a >= k.floor \/ LastOfYear(k.floor)
  <2> DEFINE b == answered[k.day]
  <2>1. /\ k.day \in Days /\ k.day \in Nat /\ Today \in Nat
        /\ b \in Int /\ b <= k.day
        /\ k.floor \in DaysPublished \cup {Nowhere} /\ k.floor <= b
    BY LookupFacts, StateFacts, AnsweredFacts DEF PendingHolds
  <2>2. CASE k.floor = Nowhere  BY <1>1, <2>2 DEF Nowhere
  <2>3. CASE k.floor # Nowhere /\ k.day >= Today
    <3>1. b <= a  BY <1>3, <2>1, <2>3 DEF Fits, DocumentHolds
    <3>2. k.floor \in Nat  BY <2>1, <2>3, StateFacts
    <3>3. QED  BY <1>1, <2>1, <3>1, <3>2
  <2>4. CASE k.floor # Nowhere /\ ~(k.day >= Today)
    <3>1. PICK p \in published : p.day = k.floor  BY <2>1, <2>4, StateFacts
    <3>2. p.day \in Nat  BY StateFacts
    <3>3. p.day <= k.day /\ p.day < Today  BY <2>1, <2>4, <3>1, <3>2
    <3>4. p.day <= a \/ LastOfYear(p.day)  BY <3>3, FoundIsLatest
    <3>5. QED  BY <1>1, <3>1, <3>2, <3>4
  <2>5. QED  BY <2>2, <2>3, <2>4
<1>5. QED  BY <1>1, <1>2, <1>3, <1>4

\* A lookup that did not: its day is over, by two days if it was not in the ten-day
\* file, and its year's archive holds no set up to it but for the year's last day.
LEMMA NotFoundHolds ==
    ASSUME BnrInv, NEW l \in Lookups, PendingHolds(lookup[l]),
           NEW x, Fits(x), x.path = Head(lookup[l].paths),
           \A e \in x.days : e > lookup[l].day
    PROVE  /\ ~(lookup[l].day >= Today)
           /\ x.path # LatestFile => lookup[l].day + 2 <= Today
           /\ x.path = YearOf(lookup[l].day) =>
                 \A p \in published : p.day <= lookup[l].day =>
                    YearOf(p.day) # YearOf(lookup[l].day) \/ LastOfYear(p.day)
<1> DEFINE k == lookup[l]
<1>1. k.day \in Days /\ k.day \in Nat /\ Today \in Nat /\ YearOf(k.day) \in Nat
      /\ k.paths \in Plans(k.day)
  BY LookupFacts, StateFacts, DayFacts DEF PendingHolds
<1>2. ~(k.day >= Today)
  <2> SUFFICES ASSUME k.day >= Today PROVE FALSE
    OBVIOUS
  <2>1. x.path = LatestFile  BY DEF PendingHolds
  <2>2. PICK m \in x.days : m \in DaysPublished
    BY <2>1 DEF Fits, DocumentHolds
  <2>3. PICK p \in published : p.day = m  BY <2>2, StateFacts
  <2>4. m \in Nat /\ m <= Today  BY <2>3, StateFacts
  <2>5. m > k.day  OBVIOUS
  <2>6. QED  BY <1>1, <2>4, <2>5
<1>3. ASSUME x.path # LatestFile PROVE k.day + 2 <= Today
  <2>1. CASE x.path = TenDayFile
    <3>1. \A d \in Days : (\A e \in x.days : e > d) => d + 2 <= Today
      BY <2>1 DEF Fits, DocumentHolds
    <3>2. QED  BY <1>1, <3>1
  <2>2. CASE x.path # TenDayFile
    <3>1. x.path >= 0  BY <1>1, <1>3, <2>2, PlanFacts
    <3>2. QED  BY <3>1 DEF PendingHolds
  <2>3. QED  BY <2>1, <2>2
<1>4. ASSUME x.path = YearOf(k.day), NEW p \in published, p.day <= k.day,
             YearOf(p.day) = YearOf(k.day), ~LastOfYear(p.day)
      PROVE  FALSE
  <2>1. p.day \in Nat  BY StateFacts
  <2>2. x.path >= 0 /\ x.path # LatestFile  BY <1>1, <1>4 DEF LatestFile
  <2>3. p.day + 2 <= Today  BY <1>1, <1>3, <1>4, <2>1, <2>2
  <2>4. Tells(x, p.day)  BY <1>4, <2>2, <2>3 DEF Fits, MustTell
  <2>5. p.day \in x.days  BY <1>4, <2>2, <2>4 DEF Tells
  <2>6. p.day > k.day  BY <2>5
  <2>7. QED  BY <1>1, <1>4, <2>1, <2>6
<1>5. QED  BY <1>2, <1>3, <1>4

\* What a lookup makes of a document that fits.
LEMMA TookHolds ==
    ASSUME BnrInv, NEW l \in Lookups, PendingHolds(lookup[l]),
           lookup[l].at \in {"trying", "waiting"},
           NEW x, Fits(x), x.path = Head(lookup[l].paths),
           NEW k, k = Took(l, x.days)
    PROVE  /\ k \in LookupStates /\ k.began <= time
           /\ k.at \in {"trying", "waiting"} => PendingHolds(k)
           /\ k.at = "done" => /\ AnswerHolds(k) /\ k.answer \in x.days
                               /\ k.day >= Today => x.path = LatestFile
           /\ k.at # "done" => k.answer = Nowhere
<1> DEFINE o == lookup[l]
           a == LatestOnOrBefore(x.days, o.day)
<1>1. /\ o \in LookupStates /\ o.day \in Days /\ o.began \in Nat /\ o.began <= time
      /\ o.paths \in Plans(o.day) /\ o.answer = Nowhere /\ o.floor <= answered[o.day]
      /\ o.floor \in DaysPublished \cup {Nowhere}
      /\ o.paths \in Seq(Paths) /\ o.closed \in BOOLEAN /\ o.floor \in Days \cup {Nowhere}
      /\ x.days \in SUBSET Days
  BY LookupFacts DEF PendingHolds, Fits
<1>2. /\ a = Nowhere => \A e \in x.days : e > o.day
      /\ a # Nowhere => /\ a \in x.days /\ a <= o.day
                         /\ \A e \in x.days : e <= o.day => e <= a
      /\ a \in Days \cup {Nowhere}
  BY <1>1, LatestFacts
<1> HIDE DEF a
<1>3. CASE a # Nowhere
  <2>1. k = [o EXCEPT !.at = "done", !.answer = a, !.paths = <<>>, !.closed = FALSE]
    BY <1>3 DEF Took, a
  <2>2. /\ k.at = "done" /\ k.answer = a /\ k.day = o.day /\ k.began = o.began /\ k.floor = o.floor
        /\ k \in LookupStates
    <3> HIDE DEF o
    <3>1. o \in LookupStates /\ a \in Days \cup {Nowhere}  BY <1>1, <1>2
    <3>2. <<>> \in Seq(Paths) /\ FALSE \in BOOLEAN  OBVIOUS
    <3>3. QED  BY <2>1, <3>1, <3>2 DEF LookupStates
  <2>3. /\ a \in x.days /\ a <= o.day /\ a \in DaysPublished
        /\ \A p \in published :
               p.day <= o.day /\ p.at + LiveTTL + FetchMax <= o.began
                  => p.day <= a \/ LastOfYear(p.day)
        /\ a >= o.floor \/ LastOfYear(o.floor)
        /\ (o.day >= Today => x.path = LatestFile)
    BY <1>2, <1>3, FoundHolds
  <2>4. AnswerHolds(k)  BY <2>2, <2>3 DEF AnswerHolds
  <2>5. QED  BY <1>1, <2>2, <2>3, <2>4
<1>4. CASE a = Nowhere /\ Len(o.paths) = 1
  <2>1. k = NoLookup  BY <1>4 DEF Took, a
  <2>2. k \in LookupStates /\ k.at = "idle" /\ k.answer = Nowhere /\ k.began = 0
    <3>1. <<>> \in Seq(Paths) /\ 0 \in Days /\ 0 \in Nat  BY DayFacts
    <3>2. NoLookup \in LookupStates  BY <3>1 DEF NoLookup, LookupStates
    <3>3. QED  BY <2>1, <3>2 DEF NoLookup
  <2>3. 0 <= time  BY StateFacts
  <2>4. QED  BY <2>2, <2>3
<1>5. CASE a = Nowhere /\ Len(o.paths) # 1
  <2>1. k = [o EXCEPT !.at = "trying", !.paths = Tail(o.paths)]  BY <1>5 DEF Took, a
  <2>2. /\ Tail(o.paths) \in Plans(o.day)
        /\ YearOf(o.day) > 0 /\ Tail(o.paths) = <<YearOf(o.day) - 1>> =>
              Head(o.paths) = YearOf(o.day)
        /\ Head(Tail(o.paths)) >= 0 => Head(o.paths) # LatestFile
    BY <1>1, <1>5, PlanFacts
  <2>3. Tail(o.paths) \in Seq(Paths)  BY <1>1, <2>2, PlanFacts
  <2>4. /\ k.at = "trying" /\ k.paths = Tail(o.paths) /\ k.day = o.day /\ k.began = o.began
        /\ k.floor = o.floor /\ k.answer = Nowhere /\ k \in LookupStates
    BY <1>1, <2>1, <2>3 DEF LookupStates
  <2>5. /\ ~(o.day >= Today) /\ (x.path # LatestFile => o.day + 2 <= Today)
        /\ x.path = YearOf(o.day) =>
              \A p \in published : p.day <= o.day =>
                  YearOf(p.day) # YearOf(o.day) \/ LastOfYear(p.day)
    BY <1>2, <1>5, NotFoundHolds
  <2>6. PendingHolds(k)  BY <1>1, <2>2, <2>4, <2>5 DEF PendingHolds
  <2>7. QED  BY <1>1, <2>4, <2>6
<1>6. QED  BY <1>3, <1>4, <1>5

\* The latest answers after a step: what was answered before, or what a lookup that
\* has just ended found.
LEMMA LatestAnswersGrow ==
    ASSUME BnrInv, NEW look \in [Lookups -> LookupStates], NEW d \in Days
    PROVE  LET A == LatestAnswers(look) IN
           /\ A \in [Days -> Days \cup {Nowhere}]
           /\ A[d] \in {answered[d]} \cup {look[l].answer : l \in {k \in Lookups : look[k].day = d}}
           /\ A[d] >= answered[d]
           /\ \A l \in Lookups : look[l].day = d => A[d] >= look[l].answer
<1> DEFINE S(e) == {answered[e]} \cup {look[l].answer : l \in {k \in Lookups : look[k].day = e}}
<1>1. ASSUME NEW e \in Days
      PROVE  /\ S(e) \subseteq Days \cup {Nowhere}
             /\ Max(S(e)) \in S(e) /\ \A z \in S(e) : z <= Max(S(e))
  <2>1. \A l \in Lookups : look[l].answer \in Days \cup {Nowhere}
    BY DEF LookupStates
  <2>2. answered[e] \in Days \cup {Nowhere}  BY AnsweredFacts
  <2>3. S(e) \subseteq Days \cup {Nowhere}  BY <2>1, <2>2
  <2>4. answered[e] \in S(e)  OBVIOUS
  <2> HIDE DEF S
  <2>5. S(e) # {}  BY <2>4
  <2>6. \A z \in Days \cup {Nowhere} : z \in Int /\ z <= DayOf(LastTime)
    BY DayFacts DEF Nowhere
  <2>7. S(e) \in SUBSET Int /\ DayOf(LastTime) \in Int /\ \A z \in S(e) : z <= DayOf(LastTime)
    <3>1. DayOf(LastTime) \in Int  BY DayFacts
    <3>2. \A z \in S(e) : z \in Int /\ z <= DayOf(LastTime)  BY <2>3, <2>6
    <3>3. QED  BY <3>1, <3>2
  <2>8. QED  BY <2>3, <2>5, <2>7, Greatest
<1>2. LatestAnswers(look) = [e \in Days |-> Max(S(e))]  BY DEF LatestAnswers
<1>3. answered[d] \in S(d) /\ \A l \in Lookups : look[l].day = d => look[l].answer \in S(d)
  OBVIOUS
<1>4. \A z \in Days \cup {Nowhere} : z \in Int  BY DayFacts DEF Nowhere
<1>5. Max(S(d)) \in S(d) /\ S(d) \subseteq Int /\ \A z \in S(d) : z <= Max(S(d))
  BY <1>1, <1>4
<1>6. \A e \in Days : Max(S(e)) \in Days \cup {Nowhere}  BY <1>1
<1>7. LatestAnswers(look) \in [Days -> Days \cup {Nowhere}] /\ LatestAnswers(look)[d] = Max(S(d))
  BY <1>2, <1>6
<1>8. Max(S(d)) >= answered[d] /\ \A l \in Lookups : look[l].day = d => Max(S(d)) >= look[l].answer
  <2> HIDE DEF S
  <2>1. QED  BY <1>3, <1>5
<1>9. QED  BY <1>5, <1>7, <1>8

-----------------------------------------------------------------------------
(* Steps.                                                                  *)

LEMMA BnrParts ==
    ASSUME time' \in FirstTime..LastTime, published' \subseteq [day : Days, at : 0..LastTime],
           fetches' \subseteq Fetches, cache' \subseteq Documents,
           lookup' \in [Lookups -> LookupStates],
           answered' \in [Days -> Days \cup {Nowhere}],
           0 \in DaysPublished', \A p \in published' : SetHolds(p)',
           \A d \in Days : answered'[d] \in DaysPublished' \cup {Nowhere} /\ answered'[d] <= d,
           OneEach', \A f \in fetches' : FetchHolds(f)', \A c \in cache' : CacheHolds(c)',
           \A l \in Lookups : LookupHolds(lookup[l])'
    PROVE  BnrInv'
<1>1. \A c \in cache' : c.path \in Paths /\ c.days \subseteq Days  BY DEF Documents
<1>2. ASSUME NEW f \in fetches'
      PROVE  f.path \in Paths /\ f.days \subseteq Days \cup NothingYet
  <2>1. f \in Fetches  OBVIOUS
  <2>2. f.path \in Paths /\ (f.days \in SUBSET Days \/ f.days = NothingYet)
    BY <2>1 DEF Fetches
  <2>3. QED  BY <2>2
<1>3. BnrTypeOK'  BY <1>1, <1>2 DEF BnrTypeOK
<1>4. QED  BY <1>3 DEF BnrInv

LEMMA PartsOfBnr ==
    ASSUME BnrInv
    PROVE  /\ time \in FirstTime..LastTime /\ published \subseteq [day : Days, at : 0..LastTime]
           /\ fetches \subseteq Fetches /\ cache \subseteq Documents
           /\ lookup \in [Lookups -> LookupStates]
           /\ answered \in [Days -> Days \cup {Nowhere}]
           /\ 0 \in DaysPublished /\ \A p \in published : SetHolds(p)
           /\ \A d \in Days : answered[d] \in DaysPublished \cup {Nowhere} /\ answered[d] <= d
           /\ OneEach /\ (\A f \in fetches : FetchHolds(f)) /\ (\A c \in cache : CacheHolds(c))
           /\ \A l \in Lookups : LookupHolds(lookup[l])
  BY DEF BnrInv, BnrTypeOK

\* A document stays what it was while no later answer is given for a day that is
\* not over, but by the document itself.
LEMMA DocumentStays ==
    ASSUME BnrInv, UNCHANGED <<time, published>>, NEW x, DocumentHolds(x), x.days \in SUBSET Days,
           x.path = LatestFile =>
               \A d \in Days : d >= Today => answered'[d] = answered[d] \/ answered'[d] \in x.days
    PROVE  DocumentHolds(x)'
<1>1. Today' = Today /\ DaysPublished' = DaysPublished /\ published' = published
  BY DEF Today, DaysPublished
<1>2. ASSUME x.path = LatestFile, NEW d \in Days, NEW e \in x.days, d >= Today
      PROVE  answered'[d] <= e
  <2>1. PICK m \in x.days : x.days = {m}  BY <1>2 DEF DocumentHolds
  <2>2. e \in Nat  BY DayFacts
  <2>3. answered[d] <= e  BY <1>2 DEF DocumentHolds
  <2>4. answered'[d] = answered[d] \/ answered'[d] = e  BY <1>2, <2>1
  <2>5. QED  BY <2>2, <2>3, <2>4
<1>3. /\ x.days \subseteq DaysPublished
      /\ x.path = LatestFile => \E m \in x.days : x.days = {m}
      /\ x.path >= 0 => \A e \in x.days : YearOf(e) = x.path
      /\ x.path = TenDayFile =>
            \A d \in Days : (\A e \in x.days : e > d) => d + 2 <= Today
      /\ x.closed => \A p \in published : Tells(x, p.day) \/ LastOfYear(p.day)
  BY DEF DocumentHolds
<1>4. QED  BY <1>1, <1>2, <1>3 DEF DocumentHolds

\* Documents at hand do not change but for what was answered meanwhile.
LEMMA FetchStays ==
    ASSUME BnrInv, UNCHANGED <<time, published>>, NEW f \in fetches,
           f.days # NothingYet /\ f.path = LatestFile =>
               \A d \in Days : d >= Today => answered'[d] = answered[d] \/ answered'[d] \in f.days
    PROVE  FetchHolds(f)'
<1>1. Today' = Today /\ published' = published /\ time' = time
  BY DEF Today
<1>2. FetchHolds(f) /\ f \in Fetches  BY PartsOfBnr
<1>3. f.days # NothingYet => DocumentHolds(f)'
  <2> SUFFICES ASSUME f.days # NothingYet PROVE DocumentHolds(f)'
    OBVIOUS
  <2>1. f.days \in SUBSET Days
    <3>1. f.days \in (SUBSET Days) \cup {NothingYet}  BY <1>2 DEF Fetches
    <3>2. QED  BY <3>1
  <2>2. DocumentHolds(f)  BY <1>2 DEF FetchHolds
  <2>3. QED  BY <2>1, <2>2, DocumentStays
<1>4. /\ f.closed => f.path >= 0 /\ f.path < YearOf(Today)
      /\ time <= f.by /\ f.by <= time + FetchMax
      /\ f.days # NothingYet =>
            \A p \in published : Out(f, p) + FetchMax < f.by => Tells(f, p.day)
  BY <1>2 DEF FetchHolds
<1>5. QED  BY <1>1, <1>3, <1>4 DEF FetchHolds

LEMMA CacheStays ==
    ASSUME BnrInv, UNCHANGED <<time, published>>, NEW c \in cache,
           c.path = LatestFile =>
               \A d \in Days : d >= Today => answered'[d] = answered[d] \/ answered'[d] \in c.days
    PROVE  CacheHolds(c)'
<1>1. Today' = Today /\ published' = published /\ time' = time
  BY DEF Today
<1>2. CacheHolds(c) /\ c \in Documents  BY PartsOfBnr
<1>3. DocumentHolds(c)'
  <2>1. c.days \in SUBSET Days  BY <1>2 DEF Documents
  <2>2. DocumentHolds(c)  BY <1>2 DEF CacheHolds
  <2>3. QED  BY <2>1, <2>2, DocumentStays
<1>4. /\ c.closed => c.path >= 0 /\ c.path < YearOf(Today)
      /\ c.days # {}
      /\ ~c.closed =>
            /\ time < c.expires /\ c.expires <= time + LiveTTL
            /\ \A p \in published :
                  Out(c, p) + LiveTTL + FetchMax < c.expires => Tells(c, p.day)
  BY <1>2 DEF CacheHolds
<1>5. QED  BY <1>1, <1>3, <1>4 DEF CacheHolds

\* Lookups that go on, or end with an answer; X is what today's file answered.
LEMMA LookupsMove ==
    ASSUME BnrInv, UNCHANGED <<time, published>>, NEW X,
           lookup' \in [Lookups -> LookupStates], answered' = LatestAnswers(lookup'),
           \A l \in Lookups :
              /\ lookup'[l].began <= time
              /\ lookup'[l].at \in {"trying", "waiting"} => PendingHolds(lookup'[l])
              /\ lookup'[l].at = "done" => AnswerHolds(lookup'[l])
              /\ \/ lookup'[l].answer <= answered[lookup'[l].day]
                 \/ /\ lookup'[l].at = "done"
                    /\ lookup'[l].day >= Today => lookup'[l].answer \in X
    PROVE  /\ answered' \in [Days -> Days \cup {Nowhere}]
           /\ \A d \in Days : answered'[d] \in DaysPublished' \cup {Nowhere} /\ answered'[d] <= d
           /\ \A l \in Lookups : LookupHolds(lookup[l])'
           /\ \A d \in Days : d >= Today => answered'[d] = answered[d] \/ answered'[d] \in X
<1>1. Today' = Today /\ DaysPublished' = DaysPublished /\ published' = published /\ time' = time
  BY DEF Today, DaysPublished
<1> DEFINE Ends(d, l) == lookup'[l].at = "done" /\ lookup'[l].day = d
                         /\ (d >= Today => lookup'[l].answer \in X)
<1>2. ASSUME NEW d \in Days
      PROVE  /\ answered'[d] \in Int /\ answered'[d] >= answered[d]
             /\ answered[d] \in Int
             /\ \/ answered'[d] = answered[d]
                \/ \E l \in Lookups : Ends(d, l) /\ answered'[d] = lookup'[l].answer
             /\ \A l \in Lookups : lookup'[l].day = d => lookup'[l].answer <= answered'[d]
             /\ answered' \in [Days -> Days \cup {Nowhere}]
  <2> DEFINE look == lookup'
  <2>1. LET A == LatestAnswers(look) IN
           /\ A \in [Days -> Days \cup {Nowhere}]
           /\ A[d] \in {answered[d]} \cup {look[l].answer : l \in {k \in Lookups : look[k].day = d}}
           /\ A[d] >= answered[d]
           /\ \A l \in Lookups : look[l].day = d => A[d] >= look[l].answer
    <3>1. look \in [Lookups -> LookupStates]  OBVIOUS
    <3> HIDE DEF look
    <3>2. QED  BY <3>1, LatestAnswersGrow
  <2>2. /\ answered' \in [Days -> Days \cup {Nowhere}]
        /\ answered'[d] \in {answered[d]} \cup {look[l].answer : l \in {k \in Lookups : look[k].day = d}}
        /\ answered'[d] >= answered[d]
        /\ \A l \in Lookups : look[l].day = d => answered'[d] >= look[l].answer
    BY <2>1
  <2>3. \A z \in Days \cup {Nowhere} : z \in Int  BY DayFacts DEF Nowhere
  <2>4. answered'[d] \in Int /\ answered[d] \in Int  BY <2>2, <2>3, AnsweredFacts
  <2>5. \A l \in Lookups : look[l].answer \in Int
    BY <2>3 DEF LookupStates
  <2>6. \A l \in Lookups : look[l].day = d => look[l].answer <= answered'[d]
    BY <2>2, <2>4, <2>5
  <2>7. ASSUME answered'[d] # answered[d]
        PROVE  \E l \in Lookups : Ends(d, l) /\ answered'[d] = look[l].answer
    <3>1. PICK l \in Lookups : look[l].day = d /\ answered'[d] = look[l].answer
      BY <2>2, <2>7
    <3>2. ~(look[l].answer <= answered[look[l].day])  BY <2>2, <2>4, <2>7, <3>1
    <3>3. QED  BY <3>1, <3>2
  <2>8. QED  BY <2>2, <2>4, <2>6, <2>7
<1>3. ASSUME NEW d \in Days
      PROVE  answered'[d] \in DaysPublished' \cup {Nowhere} /\ answered'[d] <= d
  <2>1. CASE answered'[d] = answered[d]
    BY <1>1, <2>1, AnsweredFacts
  <2>2. CASE answered'[d] # answered[d]
    <3>1. PICK l \in Lookups : Ends(d, l) /\ answered'[d] = lookup'[l].answer  BY <1>2, <2>2
    <3>2. AnswerHolds(lookup'[l]) /\ lookup'[l].day = d  BY <3>1
    <3>3. QED  BY <1>1, <3>1, <3>2 DEF AnswerHolds
  <2>3. QED  BY <2>1, <2>2
<1>4. ASSUME NEW l \in Lookups PROVE LookupHolds(lookup[l])'
  <2>0. /\ lookup'[l].day \in Days /\ lookup'[l].floor \in Days \cup {Nowhere}
    BY DEF LookupStates
  <2>1. /\ lookup'[l].began <= time
        /\ lookup'[l].at \in {"trying", "waiting"} => PendingHolds(lookup'[l])
        /\ lookup'[l].at = "done" => AnswerHolds(lookup'[l])
    OBVIOUS
  <2>2. lookup'[l].answer <= answered'[lookup'[l].day]  BY <1>2, <2>0
  <2>3. ASSUME lookup'[l].at \in {"trying", "waiting"} PROVE PendingHolds(lookup[l])'
    <3>1. PendingHolds(lookup'[l])  BY <2>1, <2>3
    <3>2. lookup'[l].floor <= answered'[lookup'[l].day]
      <4>1. lookup'[l].floor <= answered[lookup'[l].day]  BY <3>1 DEF PendingHolds
      <4>2. lookup'[l].floor \in Int
        <5>1. \A z \in Days \cup {Nowhere} : z \in Int  BY DayFacts DEF Nowhere
        <5>2. QED  BY <2>0, <5>1
      <4>3. QED  BY <1>2, <2>0, <4>1, <4>2
    <3>3. QED  BY <1>1, <3>1, <3>2 DEF PendingHolds
  <2>4. ASSUME lookup'[l].at = "done" PROVE AnswerHolds(lookup[l])'
    <3>1. AnswerHolds(lookup'[l])  BY <2>1, <2>4
    <3>2. QED  BY <1>1, <3>1 DEF AnswerHolds
  <2>5. QED  BY <1>1, <2>1, <2>2, <2>3, <2>4 DEF LookupHolds
<1>5. ASSUME NEW d \in Days, d >= Today
      PROVE  answered'[d] = answered[d] \/ answered'[d] \in X
  BY <1>2, <1>5
<1>6. answered' \in [Days -> Days \cup {Nowhere}]  BY <1>2, DayFacts
<1>7. QED  BY <1>3, <1>4, <1>5, <1>6

LEMMA Remainder ==
    ASSUME NEW a \in Nat, NEW d \in Nat \ {0}
    PROVE  a <= (a \div d) * d + (a % d)
  OBVIOUS

\* A set that is published now: no document has to tell of it yet.
LEMMA PublishKeeps ==
    ASSUME BnrInv, Publish
    PROVE  BnrInv'
<1>0. PICK new : new = [day |-> Today, at |-> time]  OBVIOUS
<1>1. /\ Today \notin DaysPublished /\ time % DayLength <= PublishedBy
      /\ published' = published \cup {new} /\ new.day = Today /\ new.at = time
      /\ UNCHANGED <<time, cache, fetches, lookup, answered>>
  BY <1>0 DEF Publish
<1>2. /\ Today' = Today /\ time' = time /\ DaysPublished' = DaysPublished \cup {Today}
      /\ DaysPublished \subseteq DaysPublished'
  BY <1>1 DEF Today, DaysPublished
<1>3. /\ time \in Nat /\ Today \in Nat /\ Today \in Days /\ time <= LastTime
      /\ DaysPublished \subseteq Days
  BY StateFacts
<1>4. \A d \in DaysPublished : d \in Nat /\ d <= Today
  BY StateFacts
<1>5. SetHolds(new)'
  <2>1. time <= Today * DayLength + (time % DayLength)
    BY <1>3, Numbers, Remainder DEF Today, DayOf
  <2>2. time % DayLength \in Nat /\ Today * DayLength \in Nat  BY <1>3, Numbers
  <2>3. time <= Today * DayLength + PublishedBy  BY <1>1, <1>3, <2>1, <2>2, Numbers
  <2>4. QED  BY <1>1, <1>2, <1>3, <2>3 DEF SetHolds
<1>6. ASSUME NEW p \in published' PROVE SetHolds(p)'
  <2>1. CASE p \in published
    <3>1. SetHolds(p)  BY <2>1, PartsOfBnr
    <3>2. QED  BY <1>2, <3>1 DEF SetHolds
  <2>2. QED  BY <1>1, <1>5, <2>1
<1>7. published' \subseteq [day : Days, at : 0..LastTime]
  <2>1. new \in [day : Days, at : 0..LastTime]  BY <1>0, <1>3, Numbers
  <2>2. QED  BY <1>1, <2>1, PartsOfBnr
<1>8. ASSUME NEW x, DocumentHolds(x), x.closed => x.path >= 0 /\ x.path < YearOf(Today),
             x.path \in Int
      PROVE  DocumentHolds(x)'
  <2>1. x.closed => Tells(x, Today)
    <3>1. YearOf(Today) \in Nat  BY <1>3, DayFacts
    <3>2. QED  BY <1>8, <3>1 DEF Tells, LatestFile, TenDayFile
  <2>2. x.closed => \A p \in published' : Tells(x, p.day) \/ LastOfYear(p.day)
    BY <1>1, <1>8, <2>1 DEF DocumentHolds
  <2>3. /\ x.days \subseteq DaysPublished
        /\ x.path = LatestFile =>
              /\ \E m \in x.days : x.days = {m}
              /\ \A d \in Days, e \in x.days : d >= Today => answered[d] <= e
        /\ x.path >= 0 => \A e \in x.days : YearOf(e) = x.path
        /\ x.path = TenDayFile =>
              \A d \in Days : (\A e \in x.days : e > d) => d + 2 <= Today
    BY <1>8 DEF DocumentHolds
  <2>4. QED  BY <1>1, <1>2, <2>2, <2>3 DEF DocumentHolds
<1>9. \A q \in Paths : q \in Int
  BY DayFacts DEF Paths, LatestFile, TenDayFile
<1>a. ASSUME NEW x PROVE Out(x, new) \in Nat /\ Out(x, new) >= time
  <2>1. time < Today * DayLength + DayLength
    BY <1>3, Numbers, Division DEF Today, DayOf
  <2>2. (Today + 1) * DayLength = Today * DayLength + DayLength /\ Today * DayLength \in Nat
    BY <1>3, NextDay
  <2>3. QED  BY <1>1, <1>3, <2>1, <2>2, Numbers DEF Out
<1>10. ASSUME NEW f \in fetches' PROVE FetchHolds(f)'
  <2>1. FetchHolds(f) /\ f \in Fetches  BY <1>1, PartsOfBnr
  <2>2. f.path \in Int /\ f.by \in Nat  BY <1>9, <2>1 DEF Fetches
  <2>3. /\ f.closed => f.path >= 0 /\ f.path < YearOf(Today)
        /\ time <= f.by /\ f.by <= time + FetchMax
        /\ f.days # NothingYet => DocumentHolds(f)
        /\ f.days # NothingYet =>
              \A p \in published : Out(f, p) + FetchMax < f.by => Tells(f, p.day)
    BY <2>1 DEF FetchHolds
  <2>4. ~(Out(f, new) + FetchMax < f.by)  BY <1>3, <1>a, <2>2, <2>3, Numbers
  <2>5. f.days # NothingYet => DocumentHolds(f)'  BY <1>8, <2>2, <2>3
  <2>6. f.days # NothingYet =>
           \A p \in published' : Out(f, p) + FetchMax < f.by => Tells(f, p.day)
    BY <1>1, <2>3, <2>4
  <2>7. QED  BY <1>1, <1>2, <2>3, <2>5, <2>6 DEF FetchHolds
<1>11. ASSUME NEW c \in cache' PROVE CacheHolds(c)'
  <2>1. CacheHolds(c) /\ c \in Documents  BY <1>1, PartsOfBnr
  <2>2. c.path \in Int /\ c.expires \in Nat  BY <1>9, <2>1 DEF Documents
  <2>3. /\ c.closed => c.path >= 0 /\ c.path < YearOf(Today)
        /\ c.days # {} /\ DocumentHolds(c)
        /\ ~c.closed =>
              /\ time < c.expires /\ c.expires <= time + LiveTTL
              /\ \A p \in published :
                    Out(c, p) + LiveTTL + FetchMax < c.expires => Tells(c, p.day)
    BY <2>1 DEF CacheHolds
  <2>4. ~c.closed => ~(Out(c, new) + LiveTTL + FetchMax < c.expires)
    BY <1>3, <1>a, <2>2, <2>3, Numbers
  <2>5. DocumentHolds(c)'  BY <1>8, <2>2, <2>3
  <2>6. ~c.closed =>
           \A p \in published' :
              Out(c, p) + LiveTTL + FetchMax < c.expires => Tells(c, p.day)
    BY <1>1, <2>3, <2>4
  <2>7. QED  BY <1>1, <1>2, <2>3, <2>5, <2>6 DEF CacheHolds
<1>12. ASSUME NEW l \in Lookups PROVE LookupHolds(lookup[l])'
  <2> DEFINE k == lookup[l]
  <2>1. /\ k.began <= time /\ k.answer <= answered[k.day] /\ k.began \in Nat
        /\ k.day \in Days /\ k.day \in Nat
        /\ k.at \in {"trying", "waiting"} => PendingHolds(k)
        /\ k.at = "done" => AnswerHolds(k)
    BY LookupFacts DEF LookupHolds
  <2>2. ASSUME PendingHolds(k) PROVE PendingHolds(lookup[l])'
    <3>1. /\ k.paths \in Plans(k.day)
          /\ k.day >= Today => Head(k.paths) = LatestFile
          /\ Head(k.paths) >= 0 => k.day + 2 <= Today
          /\ YearOf(k.day) > 0 /\ k.paths = <<YearOf(k.day) - 1>> =>
                \A p \in published : p.day <= k.day =>
                    YearOf(p.day) # YearOf(k.day) \/ LastOfYear(p.day)
          /\ k.answer = Nowhere /\ k.floor <= answered[k.day]
          /\ k.floor \in DaysPublished \cup {Nowhere}
      BY <2>2 DEF PendingHolds
    <3>2. ASSUME YearOf(k.day) > 0, k.paths = <<YearOf(k.day) - 1>>
          PROVE  ~(new.day <= k.day)
      <4>1. Head(k.paths) = YearOf(k.day) - 1
        <5>1. Head(<<YearOf(k.day) - 1>>) = YearOf(k.day) - 1  OBVIOUS
        <5>2. QED  BY <3>2, <5>1
      <4>2. YearOf(k.day) \in Nat  BY <2>1, DayFacts
      <4>3. Head(k.paths) # LatestFile  BY <3>2, <4>1, <4>2 DEF LatestFile
      <4>4. ~(k.day >= Today)  BY <3>1, <4>3
      <4>5. QED  BY <1>1, <1>3, <2>1, <4>4
    <3>3. YearOf(k.day) > 0 /\ k.paths = <<YearOf(k.day) - 1>> =>
             \A p \in published' : p.day <= k.day =>
                 YearOf(p.day) # YearOf(k.day) \/ LastOfYear(p.day)
      BY <1>1, <3>1, <3>2
    <3>4. lookup' = lookup /\ answered' = answered  BY <1>1
    <3>5. QED  BY <1>2, <3>1, <3>3, <3>4 DEF PendingHolds
  <2>3. ASSUME AnswerHolds(k) PROVE AnswerHolds(lookup[l])'
    <3>1. /\ k.answer \in DaysPublished /\ k.answer <= k.day
          /\ k.answer >= k.floor \/ LastOfYear(k.floor)
          /\ \A p \in published :
                p.day <= k.day /\ p.at + LiveTTL + FetchMax <= k.began
                    => p.day <= k.answer \/ LastOfYear(p.day)
      BY <2>3 DEF AnswerHolds
    <3>2. ~(new.at + LiveTTL + FetchMax <= k.began)  BY <1>1, <1>3, <2>1, Numbers
    <3>3. \A p \in published' :
             p.day <= k.day /\ p.at + LiveTTL + FetchMax <= k.began
                 => p.day <= k.answer \/ LastOfYear(p.day)
      BY <1>1, <3>1, <3>2
    <3>4. lookup' = lookup  BY <1>1
    <3>5. QED  BY <1>2, <3>1, <3>3, <3>4 DEF AnswerHolds
  <2>4. lookup' = lookup /\ answered' = answered /\ time' = time  BY <1>1
  <2>5. QED  BY <2>1, <2>2, <2>3, <2>4 DEF LookupHolds
<1>13. OneEach'
  <2>1. OneEach /\ fetches' = fetches /\ cache' = cache  BY <1>1, PartsOfBnr
  <2>2. QED  BY <2>1 DEF OneEach
<1>14. /\ time' \in FirstTime..LastTime /\ fetches' \subseteq Fetches /\ cache' \subseteq Documents
       /\ lookup' \in [Lookups -> LookupStates] /\ answered' \in [Days -> Days \cup {Nowhere}]
       /\ 0 \in DaysPublished'
       /\ \A d \in Days : answered'[d] \in DaysPublished' \cup {Nowhere} /\ answered'[d] <= d
  BY <1>1, <1>2, PartsOfBnr
<1>15. QED
  BY <1>6, <1>7, <1>10, <1>11, <1>12, <1>13, <1>14, BnrParts

\* A step of the lookups alone, or of their fetches.
LEMMA ClientKeeps ==
    ASSUME BnrInv, UNCHANGED <<time, published>>,
           fetches' \subseteq Fetches, cache' \subseteq Documents,
           lookup' \in [Lookups -> LookupStates],
           answered' \in [Days -> Days \cup {Nowhere}],
           \A d \in Days : answered'[d] \in DaysPublished' \cup {Nowhere} /\ answered'[d] <= d,
           OneEach', \A f \in fetches' : FetchHolds(f)', \A c \in cache' : CacheHolds(c)',
           \A l \in Lookups : LookupHolds(lookup[l])'
    PROVE  BnrInv'
<1>1. Today' = Today /\ DaysPublished' = DaysPublished /\ published' = published /\ time' = time
  BY DEF Today, DaysPublished
<1>2. ASSUME NEW p \in published' PROVE SetHolds(p)'
  <2>1. SetHolds(p)  BY <1>1, PartsOfBnr
  <2>2. QED  BY <1>1, <2>1 DEF SetHolds
<1>3. time' \in FirstTime..LastTime /\ published' \subseteq [day : Days, at : 0..LastTime]
      /\ 0 \in DaysPublished'
  BY <1>1, PartsOfBnr
<1>4. QED  BY <1>2, <1>3, BnrParts

\* Today's file is never the archive of a year.
LEMMA LiveToday ==
    ASSUME BnrInv
    PROVE  /\ \A f \in fetches : f.path = LatestFile => f.closed = FALSE
           /\ \A c \in cache : c.path = LatestFile => c.closed = FALSE
<1>1. LatestFile < 0  BY DEF LatestFile
<1>2. ASSUME NEW f \in fetches, f.path = LatestFile PROVE f.closed = FALSE
  <2>1. f \in Fetches /\ FetchHolds(f)  BY PartsOfBnr
  <2>2. f.closed \in BOOLEAN  BY <2>1 DEF Fetches
  <2>3. ~f.closed  BY <1>1, <1>2, <2>1 DEF FetchHolds, LatestFile
  <2>4. QED  BY <2>2, <2>3
<1>3. ASSUME NEW c \in cache, c.path = LatestFile PROVE c.closed = FALSE
  <2>1. c \in Documents /\ CacheHolds(c)  BY PartsOfBnr
  <2>2. c.closed \in BOOLEAN  BY <2>1 DEF Documents
  <2>3. ~c.closed  BY <1>1, <1>3, <2>1 DEF CacheHolds, LatestFile
  <2>4. QED  BY <2>2, <2>3
<1>4. QED  BY <1>2, <1>3

LEMMA LookupBegins ==
    ASSUME BnrInv, NEW l \in Lookups, NEW day \in Days, BeginLookup(l, day)
    PROVE  BnrInv'
<1>1. PICK k : /\ k = [NoLookup EXCEPT !.at = "trying", !.day = day, !.began = time,
                                       !.paths = SourcesFor(day), !.floor = answered[day]]
               /\ lookup' = [lookup EXCEPT ![l] = k]
  BY DEF BeginLookup
<1>2. UNCHANGED <<time, published, cache, fetches, answered>>  BY DEF BeginLookup
<1>3. /\ SourcesFor(day) \in Plans(day)
      /\ day >= Today => Head(SourcesFor(day)) = LatestFile
      /\ Head(SourcesFor(day)) >= 0 => day + 2 <= Today
      /\ YearOf(day) > 0 => SourcesFor(day) # <<YearOf(day) - 1>>
  BY StateFacts, SourcesArePlans
<1>4. /\ SourcesFor(day) \in Seq(Paths) /\ time \in Nat /\ answered[day] \in Days \cup {Nowhere}
      /\ answered[day] >= Nowhere /\ answered[day] \in Int
      /\ answered[day] \in DaysPublished \cup {Nowhere}
  BY <1>3, PlanFacts, StateFacts, AnsweredFacts
<1>5. /\ k.at = "trying" /\ k.day = day /\ k.began = time /\ k.paths = SourcesFor(day)
      /\ k.floor = answered[day] /\ k.answer = Nowhere /\ k.closed = FALSE
      /\ k \in LookupStates
  <2>1. Nowhere \in Days \cup {Nowhere} /\ FALSE \in BOOLEAN  OBVIOUS
  <2>2. QED  BY <1>1, <1>4, <2>1 DEF NoLookup, LookupStates
<1>6. /\ lookup' \in [Lookups -> LookupStates] /\ lookup'[l] = k
      /\ \A m \in Lookups \ {l} : lookup'[m] = lookup[m]
  <2>1. lookup \in [Lookups -> LookupStates]  BY PartsOfBnr
  <2>2. QED  BY <1>1, <1>5, <2>1
<1>7. Today' = Today /\ DaysPublished' = DaysPublished /\ published' = published /\ time' = time
      /\ answered' = answered /\ fetches' = fetches /\ cache' = cache
  BY <1>2 DEF Today, DaysPublished
<1>8. ASSUME NEW m \in Lookups PROVE LookupHolds(lookup[m])'
  <2>1. CASE m = l
    <3>1. answered[day] <= answered[day] /\ time <= time /\ Nowhere <= answered[day]
      BY <1>4 DEF Nowhere
    <3>2. PendingHolds(lookup[m])'
      BY <1>3, <1>4, <1>5, <1>6, <1>7, <2>1, <3>1 DEF PendingHolds
    <3>3. QED  BY <1>5, <1>6, <1>7, <2>1, <3>1, <3>2 DEF LookupHolds
  <2>2. CASE m # l
    <3>1. LookupHolds(lookup[m]) /\ lookup'[m] = lookup[m]  BY <1>6, <2>2, PartsOfBnr
    <3>2. QED  BY <1>7, <3>1 DEF LookupHolds, PendingHolds, AnswerHolds
  <2>3. QED  BY <2>1, <2>2
<1>9. \A f \in fetches' : FetchHolds(f)'
  <2>1. \A f \in fetches : FetchHolds(f)'  BY <1>7, FetchStays
  <2>2. QED  BY <1>7, <2>1
<1>10. \A c \in cache' : CacheHolds(c)'
  <2>1. \A c \in cache : CacheHolds(c)'  BY <1>7, CacheStays
  <2>2. QED  BY <1>7, <2>1
<1>11. OneEach'
  <2>1. OneEach  BY PartsOfBnr
  <2>2. QED  BY <1>7, <2>1 DEF OneEach
<1>12. /\ fetches' \subseteq Fetches /\ cache' \subseteq Documents
       /\ answered' \in [Days -> Days \cup {Nowhere}]
       /\ \A d \in Days : answered'[d] \in DaysPublished' \cup {Nowhere} /\ answered'[d] <= d
  BY <1>7, PartsOfBnr
<1>13. QED
  BY <1>6, <1>7, <1>8, <1>9, <1>10, <1>11, <1>12, ClientKeeps

\* Lookups that took document x, all others being as they were.
LEMMA TakingMoves ==
    ASSUME BnrInv, UNCHANGED <<time, published>>, NEW x, Fits(x), NEW S \in SUBSET Lookups,
           \A l \in S : /\ lookup[l].at \in {"trying", "waiting"} /\ PendingHolds(lookup[l])
                        /\ x.path = Head(lookup[l].paths) /\ lookup'[l] = Took(l, x.days),
           \A l \in Lookups \ S : lookup'[l] = lookup[l],
           lookup' = [l \in Lookups |-> lookup'[l]],
           answered' = LatestAnswers(lookup')
    PROVE  /\ lookup' \in [Lookups -> LookupStates]
           /\ answered' \in [Days -> Days \cup {Nowhere}]
           /\ \A d \in Days : answered'[d] \in DaysPublished' \cup {Nowhere} /\ answered'[d] <= d
           /\ \A l \in Lookups : LookupHolds(lookup[l])'
           /\ \A d \in Days : d >= Today =>
                    answered'[d] = answered[d] \/ (x.path = LatestFile /\ answered'[d] \in x.days)
<1> DEFINE X == IF x.path = LatestFile THEN x.days ELSE {}
           Good(l) ==
              /\ lookup'[l] \in LookupStates
              /\ lookup'[l].began <= time
              /\ lookup'[l].at \in {"trying", "waiting"} => PendingHolds(lookup'[l])
              /\ lookup'[l].at = "done" => AnswerHolds(lookup'[l])
              /\ \/ lookup'[l].answer <= answered[lookup'[l].day]
                 \/ /\ lookup'[l].at = "done"
                    /\ lookup'[l].day >= Today => lookup'[l].answer \in X
<1>1. ASSUME NEW l \in S PROVE Good(l)
  <2>1. PICK k : k = lookup'[l]  OBVIOUS
  <2>2. k = Took(l, x.days) /\ l \in Lookups  BY <1>1, <2>1
  <2>3. /\ k \in LookupStates /\ k.began <= time
        /\ k.at \in {"trying", "waiting"} => PendingHolds(k)
        /\ k.at = "done" => /\ AnswerHolds(k) /\ k.answer \in x.days
                            /\ k.day >= Today => x.path = LatestFile
        /\ k.at # "done" => k.answer = Nowhere
    BY <1>1, <2>2, TookHolds
  <2>4. CASE k.at = "done"  BY <2>1, <2>3, <2>4
  <2>5. CASE k.at # "done"
    <3>1. k.day \in Days  BY <2>3 DEF LookupStates
    <3>2. Nowhere <= answered[k.day]  BY <3>1, AnsweredFacts
    <3>3. QED  BY <2>1, <2>3, <2>5, <3>2
  <2>6. QED  BY <2>4, <2>5
<1>2. ASSUME NEW l \in Lookups \ S PROVE Good(l)
  <2>1. lookup'[l] = lookup[l] /\ lookup[l] \in LookupStates /\ LookupHolds(lookup[l])
    BY <1>2, LookupFacts
  <2>2. QED  BY <2>1 DEF LookupHolds
<1>3. \A l \in Lookups : Good(l)  BY <1>1, <1>2
<1>4. lookup' \in [Lookups -> LookupStates]
  <2>1. \A l \in Lookups : lookup'[l] \in LookupStates  BY <1>3
  <2>2. QED  BY <2>1
<1>5. \A l \in Lookups :
         /\ lookup'[l].began <= time
         /\ lookup'[l].at \in {"trying", "waiting"} => PendingHolds(lookup'[l])
         /\ lookup'[l].at = "done" => AnswerHolds(lookup'[l])
         /\ \/ lookup'[l].answer <= answered[lookup'[l].day]
            \/ /\ lookup'[l].at = "done"
               /\ lookup'[l].day >= Today => lookup'[l].answer \in X
  BY <1>3
<1> HIDE DEF X
<1>6. /\ answered' \in [Days -> Days \cup {Nowhere}]
      /\ \A d \in Days : answered'[d] \in DaysPublished' \cup {Nowhere} /\ answered'[d] <= d
      /\ \A l \in Lookups : LookupHolds(lookup[l])'
      /\ \A d \in Days : d >= Today => answered'[d] = answered[d] \/ answered'[d] \in X
  BY <1>4, <1>5, LookupsMove
<1>7. \A d \in Days : d >= Today =>
            answered'[d] = answered[d] \/ (x.path = LatestFile /\ answered'[d] \in x.days)
  <2>1. \A z \in X : x.path = LatestFile /\ z \in x.days  BY DEF X
  <2> SUFFICES ASSUME NEW d \in Days, d >= Today
               PROVE  \/ answered'[d] = answered[d]
                      \/ x.path = LatestFile /\ answered'[d] \in x.days
    OBVIOUS
  <2>2. answered'[d] = answered[d] \/ answered'[d] \in X  BY <1>6
  <2>3. QED  BY <2>1, <2>2
<1>8. QED  BY <1>4, <1>6, <1>7

\* A lookup finds its document in the cache, or waits for a fetch of it.
LEMMA TryKeeps ==
    ASSUME BnrInv, NEW l \in Lookups, Try(l)
    PROVE  BnrInv'
<1> DEFINE path == Head(lookup[l].paths)
           closed == IsClosedArchive(path)
           hits == {c \in cache : c.path = path /\ c.closed = closed}
<1>1. /\ lookup[l].at = "trying" /\ UNCHANGED <<time, published, cache>>
      /\ answered' = LatestAnswers(lookup')
  BY DEF Try
<1>2. /\ Today' = Today /\ DaysPublished' = DaysPublished /\ published' = published /\ time' = time
      /\ cache' = cache
  BY <1>1 DEF Today, DaysPublished
<1>3. /\ PendingHolds(lookup[l]) /\ lookup[l].day \in Days /\ lookup \in [Lookups -> LookupStates]
      /\ lookup[l] \in LookupStates /\ lookup[l].began <= time
  BY <1>1, LookupFacts DEF LookupHolds
<1>4. path \in Paths  BY <1>3, PlanFacts DEF PendingHolds
<1>5. ASSUME NEW c \in hits, lookup' = [lookup EXCEPT ![l] = Took(l, c.days)], fetches' = fetches
      PROVE  BnrInv'
  <2>1. c \in cache /\ c.path = path /\ c \in Documents /\ CacheHolds(c)  BY PartsOfBnr
  <2>2. Fits(c)
    <3>1. c.days \in SUBSET Days  BY <2>1 DEF Documents
    <3>2. DocumentHolds(c)  BY <2>1 DEF CacheHolds
    <3>3. QED  BY <2>1, <3>1, <3>2, CachedTells DEF Fits
  <2>3. /\ lookup'[l] = Took(l, c.days) /\ \A m \in Lookups \ {l} : lookup'[m] = lookup[m]
        /\ lookup' = [m \in Lookups |-> lookup'[m]]
    BY <1>3, <1>5
  <2>4. /\ lookup' \in [Lookups -> LookupStates]
        /\ answered' \in [Days -> Days \cup {Nowhere}]
        /\ \A d \in Days : answered'[d] \in DaysPublished' \cup {Nowhere} /\ answered'[d] <= d
        /\ \A m \in Lookups : LookupHolds(lookup[m])'
        /\ \A d \in Days : d >= Today =>
                 answered'[d] = answered[d] \/ (c.path = LatestFile /\ answered'[d] \in c.days)
    <3>1. \A m \in {l} : /\ lookup[m].at \in {"trying", "waiting"} /\ PendingHolds(lookup[m])
                         /\ c.path = Head(lookup[m].paths) /\ lookup'[m] = Took(m, c.days)
      BY <1>1, <1>3, <2>1, <2>3
    <3>2. {l} \in SUBSET Lookups /\ UNCHANGED <<time, published>>  BY <1>1
    <3> HIDE DEF path, closed, hits
    <3>3. QED  BY <1>1, <2>2, <2>3, <3>1, <3>2, TakingMoves
  <2>5. OneEach  BY PartsOfBnr
  <2>6. ASSUME NEW b \in cache' PROVE CacheHolds(b)'
    <3>1. b \in cache  BY <1>2
    <3>2. ASSUME b.path = LatestFile, NEW d \in Days, d >= Today
          PROVE  answered'[d] = answered[d] \/ answered'[d] \in b.days
      <4>1. CASE answered'[d] = answered[d]  BY <4>1
      <4>2. CASE answered'[d] # answered[d]
        <5>1. c.path = LatestFile /\ answered'[d] \in c.days  BY <2>4, <3>2, <4>2
        <5>2. b = c  BY <2>1, <2>5, <3>1, <3>2, <5>1, LiveToday DEF OneEach
        <5>3. QED  BY <5>1, <5>2
      <4>3. QED  BY <4>1, <4>2
    <3>3. QED  BY <1>1, <3>1, <3>2, CacheStays
  <2>7. ASSUME NEW f \in fetches' PROVE FetchHolds(f)'
    <3>1. f \in fetches  BY <1>5
    <3>2. ASSUME f.path = LatestFile, NEW d \in Days, d >= Today
          PROVE  answered'[d] = answered[d] \/ answered'[d] \in f.days
      <4>1. CASE answered'[d] = answered[d]  BY <4>1
      <4>2. CASE answered'[d] # answered[d]
        <5>1. c.path = LatestFile  BY <2>4, <3>2, <4>2
        <5>2. QED  BY <2>1, <2>5, <3>1, <3>2, <5>1, LiveToday DEF OneEach
      <4>3. QED  BY <4>1, <4>2
    <3>3. QED  BY <1>1, <3>1, <3>2, FetchStays
  <2>8. OneEach'  BY <1>2, <1>5, <2>5 DEF OneEach
  <2>9. fetches' \subseteq Fetches /\ cache' \subseteq Documents  BY <1>2, <1>5, PartsOfBnr
  <2>10. QED
    BY <1>1, <2>4, <2>6, <2>7, <2>8, <2>9, ClientKeeps
<1>6. ASSUME hits = {}, lookup' = [lookup EXCEPT ![l].at = "waiting", ![l].closed = closed],
             fetches' = IF \E f \in fetches : f.path = path /\ f.closed = closed THEN fetches
                        ELSE fetches \cup {[path |-> path, closed |-> closed,
                                            days |-> NothingYet, by |-> time + FetchMax]}
      PROVE  BnrInv'
  <2>1. PICK new : new = [path |-> path, closed |-> closed, days |-> NothingYet,
                          by |-> time + FetchMax]
    OBVIOUS
  <2>2. /\ new.path = path /\ new.closed = closed /\ new.days = NothingYet
        /\ new.by = time + FetchMax /\ closed \in BOOLEAN /\ new \in Fetches
    <3>1. closed \in BOOLEAN  BY DEF IsClosedArchive
    <3>2. time + FetchMax \in Nat  BY StateFacts, Numbers
    <3> HIDE DEF path, closed
    <3>3. QED  BY <1>4, <2>1, <3>1, <3>2 DEF Fetches
  <2>3. FetchHolds(new)'
    <3>1. closed => path >= 0 /\ path < YearOf(Today)  BY DEF IsClosedArchive
    <3>2. time <= time + FetchMax /\ time + FetchMax <= time + FetchMax
      BY StateFacts, Numbers
    <3> HIDE DEF path, closed
    <3>3. QED  BY <1>2, <2>2, <3>1, <3>2 DEF FetchHolds
  <2>4. PICK k : /\ k \in LookupStates /\ k = [lookup[l] EXCEPT !.at = "waiting", !.closed = closed]
    <3>1. closed \in BOOLEAN  BY <2>2
    <3> HIDE DEF path, closed
    <3>2. QED  BY <1>3, <3>1 DEF LookupStates
  <2>5. /\ lookup' \in [Lookups -> LookupStates] /\ lookup'[l] = k
        /\ \A m \in Lookups \ {l} : lookup'[m] = lookup[m]
    BY <1>3, <1>6, <2>4
  <2>6. /\ k.at = "waiting" /\ k.day = lookup[l].day /\ k.paths = lookup[l].paths
        /\ k.answer = lookup[l].answer /\ k.floor = lookup[l].floor /\ k.began = lookup[l].began
    <3> HIDE DEF path, closed
    <3>1. QED  BY <1>3, <2>4 DEF LookupStates
  <2>7. PendingHolds(k)  BY <1>3, <2>6 DEF PendingHolds
  <2>8. \A m \in Lookups :
         /\ lookup'[m].began <= time
         /\ lookup'[m].at \in {"trying", "waiting"} => PendingHolds(lookup'[m])
         /\ lookup'[m].at = "done" => AnswerHolds(lookup'[m])
         /\ \/ lookup'[m].answer <= answered[lookup'[m].day]
            \/ /\ lookup'[m].at = "done"
               /\ lookup'[m].day >= Today => lookup'[m].answer \in {}
    <3> SUFFICES ASSUME NEW m \in Lookups
                 PROVE  /\ lookup'[m].began <= time
                        /\ lookup'[m].at \in {"trying", "waiting"} => PendingHolds(lookup'[m])
                        /\ lookup'[m].at = "done" => AnswerHolds(lookup'[m])
                        /\ lookup'[m].answer <= answered[lookup'[m].day]
      OBVIOUS
    <3>1. LookupHolds(lookup[m])  BY PartsOfBnr
    <3>2. CASE m = l
      <4> HIDE DEF path, closed, hits
      <4>1. QED  BY <1>3, <2>5, <2>6, <2>7, <3>1, <3>2 DEF LookupHolds
    <3>3. CASE m # l
      <4>1. lookup'[m] = lookup[m]  BY <2>5, <3>3
      <4>2. QED  BY <3>1, <4>1 DEF LookupHolds
    <3>4. QED  BY <3>2, <3>3
  <2>9. /\ answered' \in [Days -> Days \cup {Nowhere}]
        /\ \A d \in Days : answered'[d] \in DaysPublished' \cup {Nowhere} /\ answered'[d] <= d
        /\ \A m \in Lookups : LookupHolds(lookup[m])'
        /\ \A d \in Days : d >= Today => answered'[d] = answered[d] \/ answered'[d] \in {}
    <3>1. UNCHANGED <<time, published>>  BY <1>1
    <3> HIDE DEF path, closed, hits
    <3>2. QED  BY <1>1, <2>5, <2>8, <3>1, LookupsMove
  <2>10. \A d \in Days : d >= Today => answered'[d] = answered[d]  BY <2>9
  <2>11. \A c \in cache' : CacheHolds(c)'
    <3>1. \A c \in cache : CacheHolds(c)'  BY <1>1, <2>10, CacheStays
    <3>2. QED  BY <1>2, <3>1
  <2>12. \A f \in fetches : FetchHolds(f)'  BY <1>1, <2>10, FetchStays
  <2>13. /\ fetches' \subseteq fetches \cup {new}
         /\ new \in fetches' => new \in fetches
                             \/ \A f \in fetches : ~(f.path = new.path /\ f.closed = new.closed)
    BY <1>6, <2>1, <2>2
  <2>14. \A c \in cache : ~(c.path = new.path /\ c.closed = new.closed)
    BY <1>6, <2>2
  <2> HIDE DEF path, closed, hits
  <2>15. OneEach'
    <3>1. OneEach  BY PartsOfBnr
    <3>2. QED  BY <1>2, <2>13, <2>14, <3>1 DEF OneEach
  <2>16. \A f \in fetches' : FetchHolds(f)'  BY <2>3, <2>12, <2>13
  <2>17. fetches' \subseteq Fetches /\ cache' \subseteq Documents
    BY <1>2, <2>2, <2>13, PartsOfBnr
  <2>18. QED
    BY <1>1, <2>5, <2>9, <2>11, <2>15, <2>16, <2>17, ClientKeeps
<1>7. \/ \E c \in hits : lookup' = [lookup EXCEPT ![l] = Took(l, c.days)] /\ fetches' = fetches
      \/ /\ hits = {}
         /\ lookup' = [lookup EXCEPT ![l].at = "waiting", ![l].closed = closed]
         /\ fetches' = IF \E f \in fetches : f.path = path /\ f.closed = closed THEN fetches
                        ELSE fetches \cup {[path |-> path, closed |-> closed,
                                            days |-> NothingYet, by |-> time + FetchMax]}
  BY DEF Try
<1>8. QED
  <2> HIDE DEF path, closed, hits
  <2>1. QED  BY <1>5, <1>6, <1>7

\* What BNR serves: it tells of every set that is out.
LEMMA ServedFacts ==
    ASSUME BnrInv, NEW reached \in Regenerated,
           NEW x, x.path \in Paths, x.days = Served(x.path, reached),
           x.closed => x.path >= 0 /\ x.path < YearOf(Today)
    PROVE  /\ x.days \in SUBSET Days /\ DocumentHolds(x)
           /\ \A p \in published : Out(x, p) < time => Tells(x, p.day)
<1>1. /\ DaysPublished \subseteq Days /\ 0 \in DaysPublished
      /\ \A p \in published : p.day \in DaysPublished
      /\ \A e \in DaysPublished : e \in Nat
  BY StateFacts, DayFacts
<1>2. CASE x.path = LatestFile
  <2>1. x.days = {Max(DaysPublished)}
    <3>1. Served(LatestFile, reached) = {Max(DaysPublished)}
      <4> DEFINE D == {Max(DaysPublished)}
                 T == {d \in DaysPublished :
                          Cardinality({e \in DaysPublished : e > d}) < WindowSize}
      <4>1. Served(LatestFile, reached) =
               CASE LatestFile = LatestFile -> D
                 [] LatestFile = TenDayFile -> T
                 [] OTHER -> {d \in DaysPublished : YearOf(d) = LatestFile /\ d < reached}
        BY DEF Served
      <4>2. LatestFile # TenDayFile  BY DEF LatestFile, TenDayFile
      <4> HIDE DEF D, T
      <4>3. Served(LatestFile, reached) = D  BY <4>1, <4>2
      <4>4. QED  BY <4>3 DEF D
    <3>2. QED  BY <1>2, <3>1
  <2>2. Max(DaysPublished) \in DaysPublished /\ \A e \in DaysPublished : e <= Max(DaysPublished)
    <3>1. DaysPublished # {} /\ DaysPublished \in SUBSET Int  BY <1>1
    <3>2. \A e \in DaysPublished : e <= DayOf(LastTime)  BY <1>1, DayFacts
    <3>3. DayOf(LastTime) \in Int  BY DayFacts
    <3>4. QED  BY <3>1, <3>2, <3>3, Greatest
  <2>3. PICK m \in DaysPublished : x.days = {m} /\ \A e \in DaysPublished : e <= m
    BY <2>1, <2>2
  <2>4. m \in Nat  BY <1>1
  <2>5. ASSUME NEW d \in Days PROVE answered[d] <= m
    <3>1. answered[d] \in DaysPublished \cup {Nowhere}  BY AnsweredFacts
    <3>2. Nowhere <= m  BY <2>4 DEF Nowhere
    <3>3. QED  BY <2>3, <3>1, <3>2
  <2>6. x.path # TenDayFile /\ ~(x.path >= 0) /\ ~x.closed  BY <1>2 DEF LatestFile, TenDayFile
  <2>7. \A p \in published : Tells(x, p.day)  BY <1>1, <2>3, <2>6 DEF Tells
  <2>8. DocumentHolds(x)  BY <2>3, <2>5, <2>6 DEF DocumentHolds
  <2>9. QED  BY <1>1, <2>3, <2>7, <2>8
<1>3. CASE x.path = TenDayFile
  <2> DEFINE After(e) == {z \in DaysPublished : z > e}
  <2>1. x.path # LatestFile /\ ~(x.path >= 0) /\ ~x.closed  BY <1>3 DEF LatestFile, TenDayFile
  <2>2. x.days = {d \in DaysPublished : Cardinality(After(d)) < WindowSize}
    BY <1>3, <2>1 DEF Served
  <2>3. ASSUME NEW p \in published, p.day \notin x.days, NEW e \in x.days
        PROVE  p.day < e
    <3>1. /\ p.day \in Nat /\ e \in Nat /\ e \in DaysPublished /\ p.day \in DaysPublished
      BY <1>1, <2>2
    <3>2. Cardinality(After(e)) < WindowSize /\ ~(Cardinality(After(p.day)) < WindowSize)
      <4> DEFINE Few(d) == Cardinality(After(d)) < WindowSize
      <4>1. x.days = {d \in DaysPublished : Few(d)}  BY <2>2
      <4> HIDE DEF After, Few
      <4>2. Few(e) /\ ~Few(p.day)  BY <2>3, <3>1, <4>1
      <4>3. QED  BY <4>2 DEF Few
    <3>3. CASE e <= p.day
      <4>1. After(p.day) \subseteq After(e)
        <5>1. \A z \in Nat : z > p.day => z > e  BY <3>1, <3>3
        <5>2. QED  BY <1>1, <5>1
      <4>2. IsFiniteSet(After(e))
        <5>1. After(e) \subseteq Days  BY <1>1
        <5>2. QED  BY <5>1, DayFacts, FS_Subset
      <4> HIDE DEF After
      <4>3. IsFiniteSet(After(p.day)) /\ Cardinality(After(p.day)) <= Cardinality(After(e))
        BY <4>1, <4>2, FS_Subset
      <4>4. Cardinality(After(e)) \in Nat /\ Cardinality(After(p.day)) \in Nat
        BY <4>2, <4>3, FS_CardinalityType
      <4>5. QED  BY <3>2, <4>3, <4>4, Numbers
    <3>4. QED  BY <3>1, <3>3
  <2>4. x.days \subseteq DaysPublished  BY <2>2
  <2>5. ASSUME NEW d \in Days, \A e \in x.days : e > d PROVE d + 2 <= Today
    <3>1. d \in Nat  BY DayFacts
    <3>2. 0 \notin x.days  BY <2>5, <3>1
    <3>3. /\ DaysPublished \in SUBSET Int /\ DayOf(LastTime) \in Int
          /\ \A e \in DaysPublished : e <= DayOf(LastTime)
      BY <1>1, DayFacts
    <3>4. PICK m \in DaysPublished : \A e \in DaysPublished : e <= m
      BY <1>1, <3>3, Greatest
    <3>5. m \in x.days
      <4>1. After(m) = {}  BY <1>1, <3>4
      <4>2. Cardinality(After(m)) = 0  BY <4>1, FS_EmptySet
      <4>3. QED  BY <2>2, <4>2, Numbers
    <3>6. PICK n \in DaysPublished \ {m} : \A e \in DaysPublished \ {m} : e <= n
      <4> DEFINE Rest == DaysPublished \ {m}
      <4>1. 0 \in Rest  BY <1>1, <3>2, <3>5
      <4>2. Rest \in SUBSET Int /\ Rest # {} /\ \A e \in Rest : e <= DayOf(LastTime)
        BY <3>3, <4>1
      <4> HIDE DEF Rest
      <4>3. Max(Rest) \in Rest /\ \A e \in Rest : e <= Max(Rest)
        BY <3>3, <4>2, Greatest
      <4>4. QED  BY <4>3 DEF Rest
    <3>7. n \in x.days
      <4>1. After(n) \subseteq {m}  BY <1>1, <3>6
      <4>2. IsFiniteSet({m}) /\ Cardinality({m}) = 1  BY FS_Singleton
      <4>3. IsFiniteSet(After(n)) /\ Cardinality(After(n)) <= Cardinality({m})
        BY <4>1, <4>2, FS_Subset
      <4>4. Cardinality(After(n)) \in Nat  BY <4>3, FS_CardinalityType
      <4>5. Cardinality(After(n)) < WindowSize  BY <4>2, <4>3, <4>4, Numbers
      <4>6. n \in DaysPublished  OBVIOUS
      <4>7. QED  BY <2>2, <4>5, <4>6
    <3>8. n > d /\ n < m /\ m \in Nat /\ n \in Nat /\ m <= Today /\ Today \in Nat
      <4>1. m \in Nat /\ n \in Nat  BY <1>1
      <4>2. m <= Today /\ Today \in Nat  BY StateFacts
      <4>3. n <= m /\ n # m  BY <3>4, <3>6
      <4>4. QED  BY <2>5, <3>7, <4>1, <4>2, <4>3
    <3>9. QED  BY <3>1, <3>8
  <2> HIDE DEF After
  <2>6. \A p \in published : Tells(x, p.day)  BY <2>1, <2>3 DEF Tells
  <2>7. DocumentHolds(x)  BY <2>1, <2>4, <2>5 DEF DocumentHolds
  <2>8. QED  BY <1>1, <2>4, <2>6, <2>7
<1>4. CASE x.path \notin {LatestFile, TenDayFile}
  <2>1. x.days = {d \in DaysPublished : YearOf(d) = x.path /\ d < reached}
    BY <1>4 DEF Served
  <2>2. /\ time \in Nat /\ Today \in Nat /\ Today * DayLength \in Nat
        /\ time < Today * DayLength + DayLength
        /\ time % DayLength \in Nat
        /\ time <= Today * DayLength + (time % DayLength)
    <3>1. time \in Nat /\ Today \in Nat /\ Today * DayLength \in Nat  BY StateFacts
    <3>2. time < Today * DayLength + DayLength
      BY <3>1, Numbers, Division DEF Today, DayOf
    <3>3. time <= Today * DayLength + (time % DayLength)
      BY <3>1, Numbers, Remainder DEF Today, DayOf
    <3>4. time % DayLength \in Nat  BY <3>1, Numbers
    <3>5. QED  BY <3>1, <3>2, <3>3, <3>4
  <2>3. reached \in Int /\ reached >= Today - 1 /\ reached <= Today
    BY <2>2 DEF Regenerated
  <2>4. ASSUME NEW p \in published, YearOf(p.day) = x.path, p.day \notin x.days
        PROVE  /\ p.day + 1 >= Today /\ Out(x, p) >= time
               /\ x.closed => LastOfYear(p.day)
    <3>1. p.day \in DaysPublished /\ p.day \in Nat /\ p.day <= Today /\ p.day \in Days
      BY StateFacts
    <3>2. p.day >= reached
      <4>1. ~(p.day < reached)  BY <2>1, <2>4, <3>1
      <4>2. QED  BY <2>3, <3>1, <4>1
    <3>3. p.day + 1 >= Today  BY <2>2, <2>3, <3>1, <3>2
    <3>4. x.path >= 0 /\ YearOf(p.day) \in Nat  BY <2>4, <3>1, DayFacts
    <3>5. Out(x, p) = (p.day + 1) * DayLength + PublishedBy  BY <3>4 DEF Out
    <3>6. /\ Today * DayLength <= (p.day + 1) * DayLength
          /\ (p.day + 1) * DayLength \in Nat
      BY <2>2, <3>1, <3>3, LaterDays
    <3>7. Out(x, p) >= time
      <4>1. CASE time % DayLength <= PublishedBy
        BY <2>2, <3>5, <3>6, <4>1, Numbers
      <4>2. CASE ~(time % DayLength <= PublishedBy)
        <5>1. reached = Today  BY <4>2 DEF Regenerated
        <5>2. p.day = Today  BY <2>2, <3>1, <3>2, <5>1
        <5>3. (Today + 1) * DayLength = Today * DayLength + DayLength  BY <2>2, NextDay
        <5>4. QED  BY <2>2, <3>5, <5>2, <5>3, Numbers
      <4>3. QED  BY <4>1, <4>2
    <3>8. ASSUME x.closed PROVE LastOfYear(p.day)
      <4>1. YearOf(p.day) < YearOf(Today)  BY <2>4, <3>8
      <4>2. p.day # Today
        <5>1. YearOf(Today) \in Nat  BY StateFacts, DayFacts
        <5>2. QED  BY <4>1, <5>1
      <4>3. p.day + 1 = Today  BY <2>2, <3>1, <3>3, <4>2
      <4>4. QED  BY <4>1, <4>3 DEF LastOfYear
    <3>9. QED  BY <3>3, <3>7, <3>8
  <2>5. \A p \in published : Out(x, p) < time => Tells(x, p.day)
    <3> SUFFICES ASSUME NEW p \in published, Out(x, p) < time PROVE Tells(x, p.day)
      OBVIOUS
    <3>1. Out(x, p) \in Nat  BY OldEnough
    <3>2. YearOf(p.day) = x.path => p.day \in x.days  BY <2>2, <2>4, <3>1
    <3>3. QED  BY <1>4, <3>2 DEF Tells
  <2>6. x.closed => \A p \in published : Tells(x, p.day) \/ LastOfYear(p.day)
    BY <1>4, <2>4 DEF Tells
  <2>7. DocumentHolds(x)  BY <1>4, <2>1, <2>6 DEF DocumentHolds
  <2>8. QED  BY <1>1, <2>1, <2>5, <2>7
<1>5. QED  BY <1>2, <1>3, <1>4

LEMMA ServeKeeps ==
    ASSUME BnrInv, NEW f \in fetches, NEW reached \in Regenerated, Serve(f, reached)
    PROVE  BnrInv'
<1>1. PICK g : /\ g = [f EXCEPT !.days = Served(f.path, reached)]
               /\ fetches' = (fetches \ {f}) \cup {g}
  BY DEF Serve
<1>2. /\ f.days = NothingYet /\ UNCHANGED <<time, published, cache, lookup, answered>>
      /\ f \in Fetches /\ FetchHolds(f)
  BY PartsOfBnr DEF Serve
<1>3. /\ g.path = f.path /\ g.closed = f.closed /\ g.by = f.by /\ g.days = Served(g.path, reached)
      /\ g.path \in Paths
  BY <1>1, <1>2 DEF Fetches
<1>4. g.closed => g.path >= 0 /\ g.path < YearOf(Today)
  BY <1>2, <1>3 DEF FetchHolds
<1>5. /\ g.days \in SUBSET Days /\ DocumentHolds(g)
      /\ \A p \in published : Out(g, p) < time => Tells(g, p.day)
  BY <1>3, <1>4, ServedFacts
<1>6. g \in Fetches
  <2>1. Served(f.path, reached) \in SUBSET Days  BY <1>3, <1>5
  <2>2. QED  BY <1>1, <1>2, <2>1 DEF Fetches
<1>7. /\ Today' = Today /\ DaysPublished' = DaysPublished /\ published' = published /\ time' = time
      /\ answered' = answered /\ lookup' = lookup /\ cache' = cache
  BY <1>2 DEF Today, DaysPublished
<1>8. FetchHolds(g)'
  <2>1. DocumentHolds(g)'  BY <1>2, <1>5, DocumentStays
  <2>2. time <= g.by /\ g.by <= time + FetchMax  BY <1>2, <1>3 DEF FetchHolds
  <2>3. ASSUME NEW p \in published, Out(g, p) + FetchMax < g.by PROVE Tells(g, p.day)
    <3>1. Out(g, p) \in Nat /\ time \in Nat  BY OldEnough, StateFacts
    <3>2. g.by \in Nat  BY <1>6 DEF Fetches
    <3>3. Out(g, p) < time  BY <2>2, <2>3, <3>1, <3>2, Numbers
    <3>4. QED  BY <1>5, <3>3
  <2>4. QED  BY <1>4, <1>7, <2>1, <2>2, <2>3 DEF FetchHolds
<1>9. \A h \in fetches' : FetchHolds(h)'
  <2>1. \A h \in fetches : FetchHolds(h)'  BY <1>7, FetchStays
  <2>2. QED  BY <1>1, <1>8, <2>1
<1>10. \A c \in cache' : CacheHolds(c)'
  <2>1. \A c \in cache : CacheHolds(c)'  BY <1>7, CacheStays
  <2>2. QED  BY <1>7, <2>1
<1>11. OneEach'
  <2>1. OneEach  BY PartsOfBnr
  <2>2. ASSUME NEW h \in fetches', NEW j \in fetches', h.path = j.path, h.closed = j.closed
        PROVE  h = j
    <3>1. \A i \in fetches \ {f} : ~(i.path = g.path /\ i.closed = g.closed)
      BY <1>3, <2>1 DEF OneEach
    <3>2. h \in (fetches \ {f}) \cup {g} /\ j \in (fetches \ {f}) \cup {g}  BY <1>1
    <3>3. h \in fetches /\ j \in fetches => h = j  BY <2>1, <2>2 DEF OneEach
    <3>4. QED  BY <2>2, <3>1, <3>2, <3>3
  <2>3. ASSUME NEW h \in fetches', NEW c \in cache' PROVE ~(h.path = c.path /\ h.closed = c.closed)
    <3>1. \A i \in fetches : ~(i.path = c.path /\ i.closed = c.closed)
      BY <1>7, <2>1, <2>3 DEF OneEach
    <3>2. h \in fetches \/ h = g  BY <1>1
    <3>3. QED  BY <1>3, <3>1, <3>2
  <2>4. \A c, b \in cache' : c.path = b.path /\ c.closed = b.closed => c = b
    BY <1>7, <2>1 DEF OneEach
  <2>5. QED  BY <2>2, <2>3, <2>4 DEF OneEach
<1>12. \A l \in Lookups : LookupHolds(lookup[l])'
  <2>1. \A l \in Lookups : LookupHolds(lookup[l])  BY PartsOfBnr
  <2>2. QED  BY <1>7, <2>1 DEF LookupHolds, PendingHolds, AnswerHolds
<1>13. /\ fetches' \subseteq Fetches /\ cache' \subseteq Documents
       /\ answered' \in [Days -> Days \cup {Nowhere}] /\ lookup' \in [Lookups -> LookupStates]
       /\ \A d \in Days : answered'[d] \in DaysPublished' \cup {Nowhere} /\ answered'[d] <= d
  BY <1>1, <1>6, <1>7, PartsOfBnr
<1>14. QED
  BY <1>7, <1>9, <1>10, <1>11, <1>12, <1>13, ClientKeeps

\* A document that arrives is cached, and answers those who waited for it.
LEMMA FetchedKeeps ==
    ASSUME BnrInv, NEW f \in fetches, Fetched(f)
    PROVE  BnrInv'
<1>1. PICK c : /\ c = [path |-> f.path, closed |-> f.closed, days |-> f.days,
                       expires |-> Expiry(f.closed)]
               /\ cache' = cache \cup {c}
  BY DEF Fetched
<1>2. /\ f.days # NothingYet /\ f.days # {} /\ fetches' = fetches \ {f}
      /\ UNCHANGED <<time, published>> /\ answered' = LatestAnswers(lookup')
      /\ lookup' = [l \in Lookups |-> IF l \in Waiting(f) THEN Took(l, f.days) ELSE lookup[l]]
  BY DEF Fetched
<1>3. /\ Today' = Today /\ DaysPublished' = DaysPublished /\ published' = published /\ time' = time
  BY <1>2 DEF Today, DaysPublished
<1>4. f \in Fetches /\ FetchHolds(f) /\ OneEach  BY PartsOfBnr
<1>5. f.days \in SUBSET Days /\ f.path \in Paths /\ f.closed \in BOOLEAN /\ f.by \in Nat
  BY <1>2, <1>4 DEF Fetches
<1>6. /\ DocumentHolds(f) /\ time <= f.by /\ f.by <= time + FetchMax
      /\ f.closed => f.path >= 0 /\ f.path < YearOf(Today)
      /\ \A p \in published : Out(f, p) + FetchMax < f.by => Tells(f, p.day)
  BY <1>2, <1>4 DEF FetchHolds
<1>7. Fits(f)  BY <1>2, <1>5, <1>6, FetchedTells DEF Fits
<1>8. time \in Nat  BY StateFacts
<1>9. /\ c.path = f.path /\ c.closed = f.closed /\ c.days = f.days
      /\ ~c.closed => c.expires = time + LiveTTL
      /\ c \in Documents
  <2>1. Expiry(f.closed) \in Nat /\ (~f.closed => Expiry(f.closed) = time + LiveTTL)
    BY <1>8, Numbers DEF Expiry
  <2>2. QED  BY <1>1, <1>5, <2>1 DEF Documents
<1>10. /\ lookup' \in [Lookups -> LookupStates]
       /\ answered' \in [Days -> Days \cup {Nowhere}]
       /\ \A d \in Days : answered'[d] \in DaysPublished' \cup {Nowhere} /\ answered'[d] <= d
       /\ \A m \in Lookups : LookupHolds(lookup[m])'
       /\ \A d \in Days : d >= Today =>
                answered'[d] = answered[d] \/ (f.path = LatestFile /\ answered'[d] \in f.days)
  <2>1. Waiting(f) \in SUBSET Lookups  BY DEF Waiting
  <2>2. \A l \in Waiting(f) :
           /\ lookup[l].at \in {"trying", "waiting"} /\ PendingHolds(lookup[l])
           /\ f.path = Head(lookup[l].paths) /\ lookup'[l] = Took(l, f.days)
    <3> SUFFICES ASSUME NEW l \in Waiting(f)
                 PROVE  /\ lookup[l].at \in {"trying", "waiting"} /\ PendingHolds(lookup[l])
                        /\ f.path = Head(lookup[l].paths) /\ lookup'[l] = Took(l, f.days)
      OBVIOUS
    <3>1. /\ l \in Lookups /\ lookup[l].at = "waiting" /\ Head(lookup[l].paths) = f.path
      BY DEF Waiting
    <3>2. PendingHolds(lookup[l])  BY <3>1, LookupFacts DEF LookupHolds
    <3>3. lookup'[l] = Took(l, f.days)  BY <1>2, <3>1
    <3>4. QED  BY <3>1, <3>2, <3>3
  <2>3. \A l \in Lookups \ Waiting(f) : lookup'[l] = lookup[l]  BY <1>2
  <2>4. lookup' = [l \in Lookups |-> lookup'[l]]  BY <1>2
  <2>5. QED  BY <1>2, <1>7, <2>1, <2>2, <2>3, <2>4, TakingMoves
<1>11. DocumentHolds(c)'
  <2>1. DocumentHolds(c) /\ c.days \in SUBSET Days
    BY <1>5, <1>6, <1>9 DEF DocumentHolds, Tells
  <2>2. \A d \in Days : d >= Today => answered'[d] = answered[d] \/ answered'[d] \in c.days
    BY <1>9, <1>10
  <2>3. QED  BY <1>2, <2>1, <2>2, DocumentStays
<1>12. CacheHolds(c)'
  <2>1. ASSUME ~c.closed
        PROVE  /\ time < c.expires /\ c.expires <= time + LiveTTL
               /\ \A p \in published :
                    Out(c, p) + LiveTTL + FetchMax < c.expires => Tells(c, p.day)
    <3>1. c.expires = time + LiveTTL  BY <1>9, <2>1
    <3>2. ASSUME NEW p \in published, Out(c, p) + LiveTTL + FetchMax < c.expires
          PROVE  Tells(c, p.day)
      <4>1. Out(f, p) \in Nat /\ Out(c, p) = Out(f, p)  BY <1>9, OldEnough DEF Out
      <4>2. Out(f, p) + FetchMax < time  BY <1>8, <3>1, <3>2, <4>1, Numbers
      <4>3. Out(f, p) + FetchMax < f.by  BY <1>5, <1>6, <1>8, <4>1, <4>2, Numbers
      <4>4. Tells(f, p.day)  BY <1>6, <4>3
      <4>5. QED  BY <1>9, <4>4 DEF Tells
    <3>3. QED  BY <1>8, <3>1, <3>2, Numbers
  <2>2. c.days # {} /\ (c.closed => c.path >= 0 /\ c.path < YearOf(Today))
    BY <1>2, <1>6, <1>9
  <2>3. QED  BY <1>3, <1>11, <2>1, <2>2 DEF CacheHolds
<1>13. \A b \in cache' : CacheHolds(b)'
  <2>1. ASSUME NEW b \in cache PROVE CacheHolds(b)'
    <3>1. ASSUME b.path = LatestFile, NEW d \in Days, d >= Today
          PROVE  answered'[d] = answered[d]
      <4>1. f.path # LatestFile
        <5>1. ~(f.path = b.path /\ f.closed = b.closed)  BY <1>4, <2>1 DEF OneEach
        <5>2. b.closed = FALSE /\ (f.path = LatestFile => f.closed = FALSE)
          BY <2>1, <3>1, LiveToday
        <5>3. QED  BY <3>1, <5>1, <5>2
      <4>2. QED  BY <1>10, <3>1, <4>1
    <3>2. QED  BY <1>2, <2>1, <3>1, CacheStays
  <2>2. QED  BY <1>1, <1>12, <2>1
<1>14. \A g \in fetches' : FetchHolds(g)'
  <2>1. ASSUME NEW g \in fetches, g # f PROVE FetchHolds(g)'
    <3>1. ASSUME g.path = LatestFile, NEW d \in Days, d >= Today
          PROVE  answered'[d] = answered[d]
      <4>1. f.path # LatestFile
        <5>1. ~(f.path = g.path /\ f.closed = g.closed)  BY <1>4, <2>1 DEF OneEach
        <5>2. g.closed = FALSE /\ (f.path = LatestFile => f.closed = FALSE)
          BY <2>1, <3>1, LiveToday
        <5>3. QED  BY <3>1, <5>1, <5>2
      <4>2. QED  BY <1>10, <3>1, <4>1
    <3>2. QED  BY <1>2, <2>1, <3>1, FetchStays
  <2>2. QED  BY <1>2, <2>1
<1>15. OneEach'
  <2>1. \A g, h \in fetches' : g.path = h.path /\ g.closed = h.closed => g = h
    BY <1>2, <1>4 DEF OneEach
  <2>2. \A b \in cache : ~(b.path = c.path /\ b.closed = c.closed)
    BY <1>4, <1>9 DEF OneEach
  <2>3. ASSUME NEW a \in cache', NEW b \in cache', a.path = b.path, a.closed = b.closed
        PROVE  a = b
    <3>1. (a \in cache \/ a = c) /\ (b \in cache \/ b = c)  BY <1>1
    <3>2. a \in cache /\ b \in cache => a = b  BY <1>4, <2>3 DEF OneEach
    <3>3. QED  BY <2>2, <2>3, <3>1, <3>2
  <2>4. ASSUME NEW g \in fetches', NEW b \in cache'
        PROVE  ~(g.path = b.path /\ g.closed = b.closed)
    <3>1. g \in fetches /\ g # f /\ (b \in cache \/ b = c)  BY <1>1, <1>2
    <3>2. ~(g.path = f.path /\ g.closed = f.closed)  BY <1>4, <3>1 DEF OneEach
    <3>3. b \in cache => ~(g.path = b.path /\ g.closed = b.closed)
      BY <1>4, <3>1 DEF OneEach
    <3>4. QED  BY <1>9, <3>1, <3>2, <3>3
  <2>5. QED  BY <2>1, <2>3, <2>4 DEF OneEach
<1>16. fetches' \subseteq Fetches /\ cache' \subseteq Documents
  <2>1. fetches \subseteq Fetches /\ cache \subseteq Documents  BY PartsOfBnr
  <2>2. QED  BY <1>1, <1>2, <1>9, <2>1
<1>17. QED
  BY <1>2, <1>10, <1>13, <1>14, <1>15, <1>16, ClientKeeps

LEMMA NoLookupFacts ==
    /\ NoLookup \in LookupStates /\ NoLookup.at = "idle" /\ NoLookup.began = 0
    /\ NoLookup.answer = Nowhere /\ NoLookup.day = 0
<1>1. <<>> \in Seq(Paths) /\ 0 \in Days /\ 0 \in Nat  BY DayFacts
<1>2. QED  BY <1>1 DEF NoLookup, LookupStates

LEMMA FetchFailsKeeps ==
    ASSUME BnrInv, NEW f \in fetches, FetchFails(f)
    PROVE  BnrInv'
<1>1. /\ fetches' = fetches \ {f} /\ UNCHANGED <<time, published, cache, answered>>
      /\ lookup' = [l \in Lookups |-> IF l \in Waiting(f) THEN NoLookup ELSE lookup[l]]
  BY DEF FetchFails
<1>2. Today' = Today /\ DaysPublished' = DaysPublished /\ published' = published /\ time' = time
      /\ answered' = answered /\ cache' = cache
  BY <1>1 DEF Today, DaysPublished
<1>3. lookup' \in [Lookups -> LookupStates]
  <2>1. \A l \in Lookups : lookup[l] \in LookupStates  BY LookupFacts
  <2>2. QED  BY <1>1, <2>1, NoLookupFacts
<1>4. ASSUME NEW l \in Lookups PROVE LookupHolds(lookup[l])'
  <2>1. CASE l \in Waiting(f)
    <3>1. lookup'[l] = NoLookup  BY <1>1, <2>1
    <3>2. 0 \in Days /\ time \in Nat  BY StateFacts, DayFacts
    <3>3. Nowhere <= answered[0] /\ 0 <= time
      BY <3>2, AnsweredFacts
    <3>4. QED  BY <1>2, <3>1, <3>3, NoLookupFacts DEF LookupHolds
  <2>2. CASE l \notin Waiting(f)
    <3>1. LookupHolds(lookup[l]) /\ lookup'[l] = lookup[l]  BY <1>1, <2>2, PartsOfBnr
    <3>2. QED  BY <1>2, <3>1 DEF LookupHolds, PendingHolds, AnswerHolds
  <2>3. QED  BY <2>1, <2>2
<1>5. \A g \in fetches' : FetchHolds(g)'
  <2>1. \A g \in fetches : FetchHolds(g)'  BY <1>2, FetchStays
  <2>2. QED  BY <1>1, <2>1
<1>6. \A c \in cache' : CacheHolds(c)'
  <2>1. \A c \in cache : CacheHolds(c)'  BY <1>2, CacheStays
  <2>2. QED  BY <1>2, <2>1
<1>7. OneEach'
  <2>1. OneEach /\ fetches' \subseteq fetches  BY <1>1, PartsOfBnr
  <2>2. QED  BY <1>2, <2>1 DEF OneEach
<1>8. /\ fetches' \subseteq Fetches /\ cache' \subseteq Documents
      /\ answered' \in [Days -> Days \cup {Nowhere}]
      /\ \A d \in Days : answered'[d] \in DaysPublished' \cup {Nowhere} /\ answered'[d] <= d
  BY <1>1, <1>2, PartsOfBnr
<1>9. QED
  BY <1>2, <1>3, <1>4, <1>5, <1>6, <1>7, <1>8, ClientKeeps

\* Documents that expire are dropped before they could miss a settled set.
LEMMA TimePassesKeeps ==
    ASSUME BnrInv, TimePasses
    PROVE  BnrInv'
<1>1. /\ time < LastTime /\ (\A f \in fetches : time < f.by)
      /\ (\A l \in Lookups : lookup[l].at # "trying")
      /\ time' = time + 1
      /\ cache' = {c \in cache : c.expires = 0 \/ c.expires > time'}
      /\ published' = published /\ fetches' = fetches /\ lookup' = lookup /\ answered' = answered
  BY DEF TimePasses
<1>2. /\ time \in Nat /\ FirstTime <= time /\ Today \in Days /\ Today \in Nat
      /\ DaysPublished' = DaysPublished
  BY <1>1, StateFacts DEF DaysPublished
<1>3. time' \in Nat /\ time' \in FirstTime..LastTime /\ time < time'
  BY <1>1, <1>2, Numbers
<1>4. /\ Today' \in Days /\ Today' \in Nat /\ Today <= Today'
  <2>1. Today <= Today'
    <3>1. DayOf(time) <= DayOf(time + 1)  BY <1>2, Numbers, QuotientGrows DEF DayOf
    <3>2. QED  BY <1>1, <3>1 DEF Today
  <2>2. Today' \in Nat /\ Today' <= DayOf(LastTime)
    <3>1. DayOf(time + 1) \in Nat  BY <1>2, Numbers, Division DEF DayOf
    <3>2. time + 1 <= LastTime  BY <1>1, <1>2, Numbers
    <3>3. DayOf(time + 1) <= DayOf(LastTime)
      BY <1>2, <3>2, Numbers, QuotientGrows DEF DayOf
    <3>4. QED  BY <1>1, <3>1, <3>3 DEF Today
  <2>3. DayOf(LastTime) \in Nat  BY DayFacts
  <2>4. QED  BY <2>1, <2>2, <2>3 DEF Days
<1>5. /\ YearOf(Today) \in Nat /\ YearOf(Today)' \in Nat /\ YearOf(Today) <= YearOf(Today)'
  <2>1. YearOf(Today) \in Nat /\ YearOf(Today') \in Nat /\ YearOf(Today) <= YearOf(Today')
    BY <1>2, <1>4, DayFacts
  <2>2. YearOf(Today)' = YearOf(Today')  BY DEF YearOf
  <2>3. QED  BY <2>1, <2>2
<1>6. ASSUME NEW x, DocumentHolds(x) PROVE DocumentHolds(x)'
  <2>1. \A d \in Days : d \in Nat /\ (d >= Today' => d >= Today)
    BY <1>2, <1>4, DayFacts
  <2>2. \A d \in Days : d + 2 <= Today => d + 2 <= Today'  BY <1>2, <1>4, DayFacts
  <2>3. QED  BY <1>1, <1>2, <1>6, <2>1, <2>2 DEF DocumentHolds
<1>7. \A q \in Paths : q \in Int
  BY DayFacts DEF Paths, LatestFile, TenDayFile
<1>8. ASSUME NEW f \in fetches' PROVE FetchHolds(f)'
  <2>1. f \in fetches /\ FetchHolds(f) /\ f \in Fetches  BY <1>1, PartsOfBnr
  <2>2. f.path \in Int /\ f.by \in Nat  BY <1>7, <2>1 DEF Fetches
  <2>3. /\ f.closed => f.path >= 0 /\ f.path < YearOf(Today)
        /\ time < f.by /\ f.by <= time + FetchMax
        /\ f.days # NothingYet =>
              /\ DocumentHolds(f)
              /\ \A p \in published : Out(f, p) + FetchMax < f.by => Tells(f, p.day)
    BY <1>1, <2>1 DEF FetchHolds
  <2>4. f.closed => f.path >= 0 /\ f.path < YearOf(Today)'  BY <1>5, <2>2, <2>3
  <2>5. time' <= f.by /\ f.by <= time' + FetchMax  BY <1>1, <1>2, <2>2, <2>3, Numbers
  <2>6. f.days # NothingYet => DocumentHolds(f)'  BY <1>6, <2>3
  <2>7. QED  BY <1>1, <2>3, <2>4, <2>5, <2>6 DEF FetchHolds
<1>9. ASSUME NEW c \in cache' PROVE CacheHolds(c)'
  <2>1. c \in cache /\ CacheHolds(c) /\ c \in Documents /\ (c.expires = 0 \/ c.expires > time')
    BY <1>1, PartsOfBnr
  <2>2. c.path \in Int /\ c.expires \in Nat  BY <1>7, <2>1 DEF Documents
  <2>3. /\ c.closed => c.path >= 0 /\ c.path < YearOf(Today)
        /\ c.days # {} /\ DocumentHolds(c)
        /\ ~c.closed =>
              /\ time < c.expires /\ c.expires <= time + LiveTTL
              /\ \A p \in published :
                    Out(c, p) + LiveTTL + FetchMax < c.expires => Tells(c, p.day)
    BY <2>1 DEF CacheHolds
  <2>4. c.closed => c.path >= 0 /\ c.path < YearOf(Today)'  BY <1>5, <2>2, <2>3
  <2>5. ~c.closed => time' < c.expires /\ c.expires <= time' + LiveTTL
    BY <1>1, <1>2, <2>1, <2>2, <2>3, Numbers
  <2>6. DocumentHolds(c)'  BY <1>6, <2>3
  <2>7. QED  BY <1>1, <2>3, <2>4, <2>5, <2>6 DEF CacheHolds
<1>10. ASSUME NEW l \in Lookups PROVE LookupHolds(lookup[l])'
  <2> DEFINE k == lookup[l]
  <2>1. LookupHolds(k) /\ k.began \in Nat /\ k.day \in Nat /\ k.began <= time  BY LookupFacts
  <2>2. k.began <= time'  BY <1>2, <1>3, <2>1
  <2>3. ASSUME PendingHolds(k) PROVE PendingHolds(lookup[l])'
    <3>1. /\ k.day >= Today' => k.day >= Today
          /\ k.day + 2 <= Today => k.day + 2 <= Today'
      BY <1>2, <1>4, <2>1
    <3>2. QED  BY <1>1, <1>2, <2>3, <3>1 DEF PendingHolds
  <2>4. ASSUME AnswerHolds(k) PROVE AnswerHolds(lookup[l])'
    BY <1>1, <1>2, <2>4 DEF AnswerHolds
  <2>5. QED  BY <1>1, <2>1, <2>2, <2>3, <2>4 DEF LookupHolds
<1>11. ASSUME NEW p \in published' PROVE SetHolds(p)'
  <2>1. SetHolds(p) /\ p.at \in Nat /\ p.day \in Nat  BY <1>1, PartsOfBnr, StateFacts
  <2>2. p.at <= time /\ p.day <= Today /\ p.at <= p.day * DayLength + PublishedBy
    BY <2>1 DEF SetHolds
  <2>3. p.at <= time' /\ p.day <= Today'  BY <1>2, <1>3, <1>4, <2>1, <2>2
  <2>4. QED  BY <2>2, <2>3 DEF SetHolds
<1>12. OneEach'
  <2>1. OneEach /\ cache' \subseteq cache  BY <1>1, PartsOfBnr
  <2>2. QED  BY <1>1, <2>1 DEF OneEach
<1>13. /\ published' \subseteq [day : Days, at : 0..LastTime]
       /\ fetches' \subseteq Fetches /\ cache' \subseteq Documents
       /\ lookup' \in [Lookups -> LookupStates] /\ answered' \in [Days -> Days \cup {Nowhere}]
       /\ 0 \in DaysPublished'
       /\ \A d \in Days : answered'[d] \in DaysPublished' \cup {Nowhere} /\ answered'[d] <= d
  BY <1>1, <1>2, PartsOfBnr
<1>14. QED
  BY <1>3, <1>8, <1>9, <1>10, <1>11, <1>12, <1>13, BnrParts

LEMMA InitBnr ==
    ASSUME BnrInit
    PROVE  BnrInv
<1>1. /\ time = FirstTime /\ published = {[day |-> 0, at |-> 0]}
      /\ cache = {} /\ fetches = {} /\ answered = [d \in Days |-> Nowhere]
      /\ lookup = [l \in Lookups |-> NoLookup]
  BY DEF BnrInit
<1>2. /\ 0 \in Days /\ FirstTime \in Nat /\ LastTime \in Nat /\ FirstTime <= LastTime
      /\ \A d \in Days : d \in Nat
  BY DayFacts, Numbers
<1>3. Today \in Nat  BY <1>1, <1>2, Numbers, Division DEF Today, DayOf
<1>4. DaysPublished = {0}  BY <1>1 DEF DaysPublished
<1>5. \A p \in published : SetHolds(p)
  <2>1. PICK p : p = [day |-> 0, at |-> 0]  OBVIOUS
  <2>2. p.day = 0 /\ p.at = 0 /\ published = {p}  BY <1>1, <2>1
  <2>3. 0 * DayLength = 0  BY Numbers
  <2>4. SetHolds(p)  BY <1>1, <1>2, <1>3, <2>2, <2>3, Numbers DEF SetHolds
  <2>5. QED  BY <2>2, <2>4
<1>6. \A l \in Lookups : LookupHolds(lookup[l])
  <2>1. answered[0] = Nowhere /\ Nowhere <= Nowhere  BY <1>1, <1>2 DEF Nowhere
  <2>2. QED  BY <1>1, <1>2, <2>1, NoLookupFacts DEF LookupHolds
<1>7. \A d \in Days : answered[d] = Nowhere /\ Nowhere <= d  BY <1>1, <1>2 DEF Nowhere
<1>8. OneEach  BY <1>1 DEF OneEach
<1>9. BnrTypeOK
  <2>1. published \subseteq [day : Days, at : 0..LastTime]  BY <1>1, <1>2
  <2>2. lookup \in [Lookups -> LookupStates]  BY <1>1, NoLookupFacts
  <2>3. time \in FirstTime..LastTime /\ answered \in [Days -> Days \cup {Nowhere}]
    BY <1>1, <1>2
  <2>4. QED  BY <1>1, <2>1, <2>2, <2>3 DEF BnrTypeOK
<1>10. fetches \subseteq Fetches /\ cache \subseteq Documents  BY <1>1
<1>11. QED
  BY <1>1, <1>4, <1>5, <1>6, <1>7, <1>8, <1>9, <1>10 DEF BnrInv

LEMMA BnrStep ==
    ASSUME BnrInv, [BnrNext]_bnrVars
    PROVE  BnrInv'
<1>1. CASE Publish  BY <1>1, PublishKeeps
<1>2. ASSUME NEW l \in Lookups, NEW day \in Asked[l], BeginLookup(l, day) PROVE BnrInv'
  BY <1>2, AskedDays, LookupBegins
<1>3. ASSUME NEW l \in Lookups, Try(l) PROVE BnrInv'
  BY <1>3, TryKeeps
<1>4. ASSUME NEW f \in fetches, NEW reached \in Regenerated, Serve(f, reached) PROVE BnrInv'
  BY <1>4, ServeKeeps
<1>5. ASSUME NEW f \in fetches, Fetched(f) PROVE BnrInv'
  BY <1>5, FetchedKeeps
<1>6. ASSUME NEW f \in fetches, FetchFails(f) PROVE BnrInv'
  BY <1>6, FetchFailsKeeps
<1>7. CASE TimePasses  BY <1>7, TimePassesKeeps
<1>8. CASE UNCHANGED bnrVars
  <2>1. UNCHANGED <<time, published, cache, fetches, lookup, answered>>  BY <1>8 DEF bnrVars
  <2>2. Today' = Today /\ DaysPublished' = DaysPublished  BY <2>1 DEF Today, DaysPublished
  <2>3. \A f \in fetches : FetchHolds(f)'  BY <2>1, FetchStays
  <2>4. \A c \in cache : CacheHolds(c)'  BY <2>1, CacheStays
  <2>5. \A l \in Lookups : LookupHolds(lookup[l])'
    <3>1. \A l \in Lookups : LookupHolds(lookup[l])  BY PartsOfBnr
    <3>2. QED  BY <2>1, <2>2, <3>1 DEF LookupHolds, PendingHolds, AnswerHolds
  <2>6. OneEach'
    <3>1. OneEach  BY PartsOfBnr
    <3>2. QED  BY <2>1, <3>1 DEF OneEach
  <2>7. QED  BY <2>1, <2>2, <2>3, <2>4, <2>5, <2>6, PartsOfBnr, ClientKeeps
<1>9. QED
  BY <1>1, <1>2, <1>3, <1>4, <1>5, <1>6, <1>7, <1>8 DEF BnrNext

\* BnrInv is inductive: a document at hand tells of every set that was out before its
\* fetch can have begun, archives are read only for days they have caught up with, and
\* what a lookup has read so far leaves no set out but a year's last one.
THEOREM BnrInvariant == BnrSpec => []BnrInv
  BY InitBnr, BnrStep, PTL DEF BnrSpec

\* The exchange rates' variables keep their types.
THEOREM BnrTypes == BnrSpec => []BnrTypeOK
<1>1. BnrInv => BnrTypeOK  BY DEF BnrInv
<1>2. QED  BY <1>1, BnrInvariant, PTL

\* An answer is a published set up to its day, and misses none that was published
\* longer ago than a live document may be kept and its fetch may take, but for the set
\* of a year's last day: a day that has left the ten-day file is read from archives
\* that were regenerated since, or closed ones that can lack no other set.
THEOREM AnswersAreFresh == BnrSpec => []FreshEnough
<1>1. BnrInv => FreshEnough
  <2> SUFFICES ASSUME BnrInv PROVE FreshEnough
    OBVIOUS
  <2>1. \A l \in Lookups : LookupHolds(lookup[l])  BY PartsOfBnr
  <2>2. QED  BY <2>1 DEF LookupHolds, AnswerHolds, FreshEnough
<1>2. QED  BY <1>1, BnrInvariant, PTL

\* A lookup that begins after another of its day has answered gets that set or a
\* later one, from whichever document, cached whenever, across midnights and years,
\* unless that set was the one of a year's last day.
THEOREM AnswersDoNotGoBack == BnrSpec => []NoOlderAnswer
<1>1. BnrInv => NoOlderAnswer
  <2> SUFFICES ASSUME BnrInv PROVE NoOlderAnswer
    OBVIOUS
  <2>1. \A l \in Lookups : LookupHolds(lookup[l])  BY PartsOfBnr
  <2>2. QED  BY <2>1 DEF LookupHolds, AnswerHolds, NoOlderAnswer
<1>2. QED  BY <1>1, BnrInvariant, PTL

-----------------------------------------------------------------------------
(* The authored invoice.                                                   *)

\* A family of subsets of a finite set has a least one: without any of its elements it
\* is not in the family.
LEMMA LeastSet ==
    ASSUME NEW S, IsFiniteSet(S), NEW Bad \in SUBSET (SUBSET S), Bad # {}
    PROVE  \E s \in Bad : \A x \in s : s \ {x} \notin Bad
<1> DEFINE N == {Cardinality(s) : s \in Bad}
<1>1. \A s \in Bad : IsFiniteSet(s) /\ Cardinality(s) \in Nat
  BY FS_Subset, FS_CardinalityType
<1>2. N \in SUBSET Nat /\ N # {}  BY <1>1
<1>3. PICK m \in N : \A n \in N : m <= n
  <2> HIDE DEF N
  <2>1. QED  BY <1>2, LeastNumber
<1>4. PICK s \in Bad : Cardinality(s) = m  BY <1>3
<1>5. ASSUME NEW x \in s, s \ {x} \in Bad PROVE FALSE
  <2>1. Cardinality(s \ {x}) = Cardinality(s) - 1  BY <1>1, FS_RemoveElement
  <2>2. m <= Cardinality(s \ {x})  BY <1>3, <1>5
  <2>3. m \in Nat  BY <1>1, <1>4
  <2>4. QED  BY <1>4, <2>1, <2>2, <2>3
<1>6. QED  BY <1>4, <1>5

-----------------------------------------------------------------------------
(* Sums.                                                                   *)

Some(s) == CHOOSE x \in s : TRUE

\* One round of the recursion that SumFunctionOnSet is defined by.
Round(fun, g, D) ==
    [s \in D |-> IF s = {} THEN 0 ELSE fun[Some(s)] + g[s \ {Some(s)}]]

Solves(g, fun, S) == g = Round(fun, g, SUBSET S)

LEMMA SumDefined ==
    ASSUME NEW fun, NEW S, IsFiniteSet(S)
    PROVE  \E g : g = Round(fun, g, SUBSET S)
<1> DEFINE Upto(n) == {s \in SUBSET S : Cardinality(s) <= n}
           Bad == {n \in Nat : ~ \E g : g = Round(fun, g, Upto(n))}
<1>1. \A s \in SUBSET S : IsFiniteSet(s) /\ Cardinality(s) \in Nat /\ Cardinality(s) <= Cardinality(S)
  BY FS_Subset, FS_CardinalityType
<1>2. \A s \in SUBSET S : s # {} => /\ Some(s) \in s /\ s \ {Some(s)} \in SUBSET S
                                   /\ Cardinality(s \ {Some(s)}) = Cardinality(s) - 1
  <2> SUFFICES ASSUME NEW s \in SUBSET S, s # {}
               PROVE  /\ Some(s) \in s /\ s \ {Some(s)} \in SUBSET S
                      /\ Cardinality(s \ {Some(s)}) = Cardinality(s) - 1
    OBVIOUS
  <2>1. Some(s) \in s  BY DEF Some
  <2>2. QED  BY <1>1, <2>1, FS_RemoveElement
<1>3. \A s \in SUBSET S : Cardinality(s) = 0 <=> s = {}  BY <1>1, FS_EmptySet
<1>4. ASSUME NEW m \in Nat, m # 0, \E g : g = Round(fun, g, Upto(m - 1))
      PROVE  \E g : g = Round(fun, g, Upto(m))
  <2>1. PICK g : g = Round(fun, g, Upto(m - 1))  BY <1>4
  <2>2. PICK h : h = Round(fun, g, Upto(m))  OBVIOUS
  <2>3. ASSUME NEW s \in Upto(m), s # {}
        PROVE  h[s \ {Some(s)}] = g[s \ {Some(s)}]
    <3> DEFINE t == s \ {Some(s)}
    <3>1. t \in Upto(m - 1) /\ t \in Upto(m)  BY <1>1, <1>2, <2>3
    <3> HIDE DEF t, Upto
    <3>2. h[t] = IF t = {} THEN 0 ELSE fun[Some(t)] + g[t \ {Some(t)}]
      BY <2>2, <3>1 DEF Round
    <3>3. g[t] = IF t = {} THEN 0 ELSE fun[Some(t)] + g[t \ {Some(t)}]
      BY <2>1, <3>1 DEF Round
    <3>4. QED  BY <3>2, <3>3 DEF t
  <2> HIDE DEF Upto
  <2>4. h = Round(fun, h, Upto(m))  BY <2>2, <2>3 DEF Round
  <2>5. QED  BY <2>4
<1>5. \E g : g = Round(fun, g, Upto(0))
  <2>1. \A s \in Upto(0) : s = {}  BY <1>1, <1>3
  <2>2. PICK g : g = Round(fun, [s \in {} |-> 0], Upto(0))  OBVIOUS
  <2> HIDE DEF Upto
  <2>3. g = Round(fun, g, Upto(0))  BY <2>1, <2>2 DEF Round
  <2>4. QED  BY <2>3
<1>6. Bad = {}
  <2> SUFFICES ASSUME Bad # {} PROVE FALSE
    OBVIOUS
  <2>1. PICK m \in Bad : \A n \in Bad : m <= n
    <3>1. Bad \in SUBSET Nat  OBVIOUS
    <3> HIDE DEF Bad
    <3>2. QED  BY <3>1, LeastNumber
  <2>2. m \in Nat /\ ~ \E g : g = Round(fun, g, Upto(m))  OBVIOUS
  <2>3. m # 0  BY <1>5, <2>2
  <2>4. m - 1 \in Nat /\ m - 1 \notin Bad
    <3>1. m - 1 \in Nat /\ ~(m <= m - 1)  BY <2>2, <2>3
    <3> HIDE DEF Bad
    <3>2. QED  BY <2>1, <3>1
  <2> HIDE DEF Upto
  <2>5. \E g : g = Round(fun, g, Upto(m - 1))  BY <2>4
  <2>6. QED  BY <1>4, <2>2, <2>3, <2>5
<1>7. Upto(Cardinality(S)) = SUBSET S  BY <1>1
<1>8. Cardinality(S) \in Nat  BY FS_CardinalityType
<1> HIDE DEF Upto
<1>9. \E g : g = Round(fun, g, Upto(Cardinality(S)))  BY <1>6, <1>8
<1>10. QED  BY <1>7, <1>9

\* Two sets' recursions agree where both are defined.
LEMMA SumUnique ==
    ASSUME NEW fun, NEW S, IsFiniteSet(S), NEW T \in SUBSET S,
           NEW g, Solves(g, fun, S), NEW h, Solves(h, fun, T)
    PROVE  g[T] = h[T]
<1> DEFINE Bad == {s \in SUBSET T : g[s] # h[s]}
<1>1. ASSUME Bad # {} PROVE FALSE
  <2>1. IsFiniteSet(T)  BY FS_Subset
  <2>2. PICK s \in Bad : \A x \in s : s \ {x} \notin Bad
    <3>1. Bad \in SUBSET (SUBSET T)  OBVIOUS
    <3> HIDE DEF Bad
    <3>2. QED  BY <1>1, <2>1, <3>1, LeastSet
  <2>3. s \in SUBSET T /\ s \in SUBSET S /\ g[s] # h[s]  OBVIOUS
  <2>4. g[s] = (IF s = {} THEN 0 ELSE fun[Some(s)] + g[s \ {Some(s)}])
    BY <2>3 DEF Round, Solves
  <2>5. h[s] = (IF s = {} THEN 0 ELSE fun[Some(s)] + h[s \ {Some(s)}])
    BY <2>3 DEF Round, Solves
  <2>6. s # {}  BY <2>3, <2>4, <2>5
  <2>7. Some(s) \in s  BY <2>6 DEF Some
  <2>8. s \ {Some(s)} \in SUBSET T /\ s \ {Some(s)} \notin Bad  BY <2>2, <2>3, <2>7
  <2>9. g[s \ {Some(s)}] = h[s \ {Some(s)}]  BY <2>8
  <2>10. QED  BY <2>3, <2>4, <2>5, <2>9
<1>2. T \in SUBSET T  OBVIOUS
<1>3. QED  BY <1>1, <1>2

\* SumFunctionOnSet does what its recursion says.
LEMMA SumRecursion ==
    ASSUME NEW fun, NEW S, IsFiniteSet(S)
    PROVE  /\ SumFunctionOnSet(fun, {}) = 0
           /\ S # {} => SumFunctionOnSet(fun, S) =
                           fun[Some(S)] + SumFunctionOnSet(fun, S \ {Some(S)})
<1>1. ASSUME NEW T \in SUBSET S
      PROVE  \E g : g = Round(fun, g, SUBSET T) /\ SumFunctionOnSet(fun, T) = g[T]
  <2>1. IsFiniteSet(T)  BY FS_Subset
  <2>2. \E g : g = Round(fun, g, SUBSET T)  BY <2>1, SumDefined
  <2>3. SumFunctionOnSet(fun, T) = (CHOOSE g : g = Round(fun, g, SUBSET T))[T]
    BY DEF SumFunctionOnSet, FoldFunctionOnSet, MapThenFoldSet, Round, Some
  <2>4. QED  BY <2>2, <2>3
<1>2. PICK g : g = Round(fun, g, SUBSET S) /\ SumFunctionOnSet(fun, S) = g[S]  BY <1>1
<1>3. \A T \in SUBSET S : SumFunctionOnSet(fun, T) = g[T]
  <2> SUFFICES ASSUME NEW T \in SUBSET S PROVE SumFunctionOnSet(fun, T) = g[T]
    OBVIOUS
  <2>1. PICK h : h = Round(fun, h, SUBSET T) /\ SumFunctionOnSet(fun, T) = h[T]  BY <1>1
  <2>2. Solves(g, fun, S)  BY <1>2 DEF Solves
  <2>3. Solves(h, fun, T)  BY <2>1 DEF Solves
  <2>4. T \in SUBSET S  OBVIOUS
  <2>5. g[T] = h[T]  BY <2>2, <2>3, <2>4, SumUnique
  <2>6. QED  BY <2>1, <2>5
<1>4. g[{}] = 0
  <2>1. {} \in SUBSET S  OBVIOUS
  <2>2. QED  BY <1>2, <2>1 DEF Round
<1>5. S # {} => g[S] = fun[Some(S)] + g[S \ {Some(S)}]
  <2>1. S \in SUBSET S  OBVIOUS
  <2>2. QED  BY <1>2, <2>1 DEF Round
<1>6. QED  BY <1>3, <1>4, <1>5

LEMMA SumType ==
    ASSUME NEW fun, NEW S, IsFiniteSet(S), \A x \in S : fun[x] \in Int
    PROVE  SumFunctionOnSet(fun, S) \in Int
<1> DEFINE Bad == {s \in SUBSET S : SumFunctionOnSet(fun, s) \notin Int}
<1>1. ASSUME Bad # {} PROVE FALSE
  <2>1. PICK s \in Bad : \A x \in s : s \ {x} \notin Bad
    <3>1. Bad \in SUBSET (SUBSET S)  OBVIOUS
    <3> HIDE DEF Bad
    <3>2. QED  BY <1>1, <3>1, LeastSet
  <2>2. s \in SUBSET S /\ SumFunctionOnSet(fun, s) \notin Int /\ IsFiniteSet(s)
    BY FS_Subset
  <2>3. s # {}  BY <2>2, SumRecursion
  <2>4. Some(s) \in s  BY <2>3 DEF Some
  <2>5. SumFunctionOnSet(fun, s \ {Some(s)}) \in Int  BY <2>1, <2>2, <2>4
  <2>6. SumFunctionOnSet(fun, s) = fun[Some(s)] + SumFunctionOnSet(fun, s \ {Some(s)})
    BY <2>2, <2>3, SumRecursion
  <2>7. fun[Some(s)] \in Int  BY <2>2, <2>4
  <2>8. QED  BY <2>2, <2>5, <2>6, <2>7
<1>2. S \in SUBSET S  OBVIOUS
<1>3. QED  BY <1>1, <1>2

\* A sum takes its elements in any order.
LEMMA SumTakes ==
    ASSUME NEW fun, NEW S, IsFiniteSet(S), \A x \in S : fun[x] \in Int, NEW e \in S
    PROVE  SumFunctionOnSet(fun, S) = fun[e] + SumFunctionOnSet(fun, S \ {e})
<1> DEFINE T(s) == SumFunctionOnSet(fun, s)
           Bad == {s \in SUBSET S : \E x \in s : T(s) # fun[x] + T(s \ {x})}
<1>1. \A s \in SUBSET S : IsFiniteSet(s) /\ T(s) \in Int
  <2> SUFFICES ASSUME NEW s \in SUBSET S PROVE IsFiniteSet(s) /\ T(s) \in Int
    OBVIOUS
  <2>1. IsFiniteSet(s) /\ \A x \in s : fun[x] \in Int  BY FS_Subset
  <2>2. QED  BY <2>1, SumType
<1>2. \A s \in SUBSET S : s # {} => Some(s) \in s /\ T(s) = fun[Some(s)] + T(s \ {Some(s)})
  BY <1>1, SumRecursion DEF Some
<1>3. ASSUME Bad # {} PROVE FALSE
  <2>1. PICK s \in Bad : \A x \in s : s \ {x} \notin Bad
    <3>1. Bad \in SUBSET (SUBSET S)  OBVIOUS
    <3> HIDE DEF Bad
    <3>2. QED  BY <1>3, <3>1, LeastSet
  <2> HIDE DEF T
  <2>2. PICK x \in s : T(s) # fun[x] + T(s \ {x})  OBVIOUS
  <2>3. PICK y : y = Some(s)  OBVIOUS
  <2>4. s \in SUBSET S /\ y \in s /\ T(s) = fun[y] + T(s \ {y})  BY <1>2, <2>2, <2>3
  <2>5. x # y  BY <2>2, <2>4
  <2>6. s \ {x} \notin Bad /\ s \ {y} \notin Bad  BY <2>1, <2>4
  <2>7. T(s \ {y}) = fun[x] + T((s \ {y}) \ {x})  BY <2>2, <2>4, <2>5, <2>6
  <2>8. T(s \ {x}) = fun[y] + T((s \ {x}) \ {y})  BY <2>2, <2>4, <2>5, <2>6
  <2>9. (s \ {y}) \ {x} = (s \ {x}) \ {y}  OBVIOUS
  <2>10. PICK r : r = T((s \ {x}) \ {y})  OBVIOUS
  <2>11. r \in Int /\ fun[x] \in Int /\ fun[y] \in Int  BY <1>1, <2>2, <2>4, <2>10
  <2>12. T(s) = fun[y] + (fun[x] + r) /\ T(s \ {x}) = fun[y] + r
    BY <2>4, <2>7, <2>8, <2>9, <2>10
  <2>13. QED  BY <2>2, <2>11, <2>12
<1>4. S \in SUBSET S  OBVIOUS
<1>5. QED  BY <1>3, <1>4

LEMMA SumSame ==
    ASSUME NEW f, NEW g, NEW S, IsFiniteSet(S), \A x \in S : f[x] = g[x]
    PROVE  SumFunctionOnSet(f, S) = SumFunctionOnSet(g, S)
<1> DEFINE Bad == {s \in SUBSET S : SumFunctionOnSet(f, s) # SumFunctionOnSet(g, s)}
<1>1. ASSUME Bad # {} PROVE FALSE
  <2>1. PICK s \in Bad : \A x \in s : s \ {x} \notin Bad
    <3>1. Bad \in SUBSET (SUBSET S)  OBVIOUS
    <3> HIDE DEF Bad
    <3>2. QED  BY <1>1, <3>1, LeastSet
  <2>2. s \in SUBSET S /\ SumFunctionOnSet(f, s) # SumFunctionOnSet(g, s) /\ IsFiniteSet(s)
    BY FS_Subset
  <2>3. s # {}  BY <2>2, SumRecursion
  <2>4. Some(s) \in s /\ f[Some(s)] = g[Some(s)]  BY <2>2, <2>3 DEF Some
  <2>5. SumFunctionOnSet(f, s \ {Some(s)}) = SumFunctionOnSet(g, s \ {Some(s)})
    BY <2>1, <2>2, <2>4
  <2>6. QED  BY <2>2, <2>3, <2>4, <2>5, SumRecursion
<1>2. S \in SUBSET S  OBVIOUS
<1>3. QED  BY <1>1, <1>2

LEMMA SumAdds ==
    ASSUME NEW f, NEW g, NEW h, NEW S, IsFiniteSet(S),
           \A x \in S : f[x] \in Int /\ g[x] \in Int /\ h[x] = f[x] + g[x]
    PROVE  SumFunctionOnSet(h, S) = SumFunctionOnSet(f, S) + SumFunctionOnSet(g, S)
<1> DEFINE F(s) == SumFunctionOnSet(f, s)
           G(s) == SumFunctionOnSet(g, s)
           H(s) == SumFunctionOnSet(h, s)
           Bad == {s \in SUBSET S : H(s) # F(s) + G(s)}
<1>1. \A s \in SUBSET S : IsFiniteSet(s) /\ F(s) \in Int /\ G(s) \in Int
  <2> SUFFICES ASSUME NEW s \in SUBSET S PROVE IsFiniteSet(s) /\ F(s) \in Int /\ G(s) \in Int
    OBVIOUS
  <2>1. IsFiniteSet(s) /\ \A x \in s : f[x] \in Int /\ g[x] \in Int  BY FS_Subset
  <2>2. QED  BY <2>1, SumType
<1>2. F({}) = 0 /\ G({}) = 0 /\ H({}) = 0  BY SumRecursion
<1>3. \A s \in SUBSET S : s # {} => /\ Some(s) \in s /\ F(s) = f[Some(s)] + F(s \ {Some(s)})
                                   /\ G(s) = g[Some(s)] + G(s \ {Some(s)})
                                   /\ H(s) = h[Some(s)] + H(s \ {Some(s)})
  BY <1>1, SumRecursion DEF Some
<1> HIDE DEF F, G, H
<1>4. ASSUME Bad # {} PROVE FALSE
  <2>1. PICK s \in Bad : \A x \in s : s \ {x} \notin Bad
    <3>1. Bad \in SUBSET (SUBSET S)  OBVIOUS
    <3> HIDE DEF Bad
    <3>2. QED  BY <1>4, <3>1, LeastSet
  <2>2. s \in SUBSET S /\ H(s) # F(s) + G(s)  OBVIOUS
  <2>3. s # {}  BY <1>2, <2>2
  <2>4. PICK y : y = Some(s)  OBVIOUS
  <2>5. y \in s /\ s \ {y} \in SUBSET S /\ s \ {y} \notin Bad  BY <1>3, <2>1, <2>2, <2>3, <2>4
  <2>6. H(s \ {y}) = F(s \ {y}) + G(s \ {y})  BY <2>5
  <2>7. F(s) = f[y] + F(s \ {y}) /\ G(s) = g[y] + G(s \ {y}) /\ H(s) = h[y] + H(s \ {y})
    BY <1>3, <2>2, <2>3, <2>4
  <2>8. f[y] \in Int /\ g[y] \in Int /\ h[y] = f[y] + g[y]  BY <2>2, <2>5
  <2>9. F(s \ {y}) \in Int /\ G(s \ {y}) \in Int  BY <1>1, <2>5
  <2>10. QED  BY <2>2, <2>6, <2>7, <2>8, <2>9
<1>5. S \in SUBSET S  OBVIOUS
<1>6. QED  BY <1>4, <1>5 DEF F, G, H

LEMMA SumZeros ==
    ASSUME NEW f, NEW S, IsFiniteSet(S), \A x \in S : f[x] = 0
    PROVE  SumFunctionOnSet(f, S) = 0
<1>1. \A x \in S : f[x] \in Int /\ f[x] = f[x] + f[x]  OBVIOUS
<1>2. PICK n : n = SumFunctionOnSet(f, S)  OBVIOUS
<1>3. n \in Int
  <2>1. \A x \in S : f[x] \in Int  OBVIOUS
  <2>2. QED  BY <1>2, <2>1, SumType
<1>4. PICK g, h : g = f /\ h = f  OBVIOUS
<1>5. \A x \in S : f[x] \in Int /\ g[x] \in Int /\ h[x] = f[x] + g[x]  BY <1>1, <1>4
<1>6. SumFunctionOnSet(h, S) = SumFunctionOnSet(f, S) + SumFunctionOnSet(g, S)
  BY <1>5, SumAdds
<1>7. n = n + n  BY <1>2, <1>4, <1>6
<1>8. n = 0  BY <1>3, <1>7
<1>9. QED  BY <1>2, <1>8

LEMMA SumOfOne ==
    ASSUME NEW f, NEW S, IsFiniteSet(S), NEW e \in S, f[e] \in Int,
           \A x \in S : x # e => f[x] = 0
    PROVE  SumFunctionOnSet(f, S) = f[e]
<1>1. \A x \in S : f[x] \in Int  OBVIOUS
<1>2. SumFunctionOnSet(f, S) = f[e] + SumFunctionOnSet(f, S \ {e})  BY <1>1, SumTakes
<1>3. SumFunctionOnSet(f, S \ {e}) = 0  BY FS_Subset, SumZeros
<1>4. QED  BY <1>2, <1>3

\* The amounts of one group; zero for the others.
Selected(J, w, a, i) == [j \in J |-> IF w[j] = i THEN a[j] ELSE 0]

\* What is summed group by group is summed.
LEMMA SumByGroup ==
    ASSUME NEW I, IsFiniteSet(I), NEW J, IsFiniteSet(J), NEW w \in [J -> I],
           NEW a, \A j \in J : a[j] \in Int,
           NEW m, \A i \in I : m[i] = SumFunctionOnSet(Selected(J, w, a, i), J)
    PROVE  SumFunctionOnSet(m, I) = SumFunctionOnSet(a, J)
<1> DEFINE Part(i) == Selected(J, w, a, i)
           Of(s) == [i \in I |-> SumFunctionOnSet(Part(i), s)]
           Bad == {s \in SUBSET J : SumFunctionOnSet(Of(s), I) # SumFunctionOnSet(a, s)}
<1>1. \A i \in I, j \in J : Part(i)[j] = (IF w[j] = i THEN a[j] ELSE 0) /\ Part(i)[j] \in Int
  BY DEF Selected
<1> HIDE DEF Part
<1>2. ASSUME NEW s \in SUBSET J
      PROVE  /\ IsFiniteSet(s) /\ \A i \in I : SumFunctionOnSet(Part(i), s) \in Int
             /\ SumFunctionOnSet(a, s) \in Int
  <2>1. IsFiniteSet(s)  BY FS_Subset
  <2>2. \A i \in I : SumFunctionOnSet(Part(i), s) \in Int
    <3> SUFFICES ASSUME NEW i \in I PROVE SumFunctionOnSet(Part(i), s) \in Int
      OBVIOUS
    <3>1. \A j \in s : Part(i)[j] \in Int  BY <1>1
    <3>2. QED  BY <2>1, <3>1, SumType
  <2>3. SumFunctionOnSet(a, s) \in Int  BY <2>1, SumType
  <2>4. QED  BY <2>1, <2>2, <2>3
<1>3. ASSUME NEW s \in SUBSET J, NEW e \in s,
             SumFunctionOnSet(Of(s \ {e}), I) = SumFunctionOnSet(a, s \ {e})
      PROVE  SumFunctionOnSet(Of(s), I) = SumFunctionOnSet(a, s)
  <2>1. PICK one : one = [i \in I |-> Part(i)[e]]  OBVIOUS
  <2>2. PICK rest : rest = Of(s \ {e})  OBVIOUS
  <2>3. PICK all : all = Of(s)  OBVIOUS
  <2>4. s \ {e} \in SUBSET J /\ e \in J /\ w[e] \in I  OBVIOUS
  <2>5. \A i \in I : one[i] \in Int /\ rest[i] \in Int /\ all[i] = one[i] + rest[i]
    <3> SUFFICES ASSUME NEW i \in I
                 PROVE  one[i] \in Int /\ rest[i] \in Int /\ all[i] = one[i] + rest[i]
      OBVIOUS
    <3>1. \A j \in s : Part(i)[j] \in Int  BY <1>1
    <3>2. SumFunctionOnSet(Part(i), s) = Part(i)[e] + SumFunctionOnSet(Part(i), s \ {e})
      <4>1. PICK p : p = Part(i)  OBVIOUS
      <4>2. IsFiniteSet(s) /\ \A j \in s : p[j] \in Int  BY <1>2, <3>1, <4>1
      <4>3. SumFunctionOnSet(p, s) = p[e] + SumFunctionOnSet(p, s \ {e})  BY <4>2, SumTakes
      <4>4. QED  BY <4>1, <4>3
    <3>3. SumFunctionOnSet(Part(i), s \ {e}) \in Int  BY <1>2, <2>4
    <3>4. one[i] = Part(i)[e] /\ rest[i] = SumFunctionOnSet(Part(i), s \ {e})
          /\ all[i] = SumFunctionOnSet(Part(i), s)
      BY <2>1, <2>2, <2>3
    <3>5. QED  BY <1>1, <2>4, <3>2, <3>3, <3>4
  <2>6. SumFunctionOnSet(all, I) = SumFunctionOnSet(one, I) + SumFunctionOnSet(rest, I)
    BY <2>5, SumAdds
  <2>7. SumFunctionOnSet(one, I) = a[e]
    <3>1. /\ one[w[e]] = a[e] /\ one[w[e]] \in Int
          /\ \A i \in I : i # w[e] => one[i] = 0
      BY <1>1, <2>1, <2>4
    <3>2. QED  BY <2>4, <3>1, SumOfOne
  <2>8. SumFunctionOnSet(a, s) = a[e] + SumFunctionOnSet(a, s \ {e})
    BY <1>2, SumTakes
  <2>9. QED  BY <1>3, <2>2, <2>3, <2>6, <2>7, <2>8
<1>4. SumFunctionOnSet(Of({}), I) = SumFunctionOnSet(a, {})
  <2>1. PICK none : none = Of({})  OBVIOUS
  <2>2. \A i \in I : none[i] = 0  BY <2>1, SumRecursion
  <2>3. SumFunctionOnSet(none, I) = 0  BY <2>2, SumZeros
  <2>4. QED  BY <2>1, <2>3, SumRecursion
<1>5. ASSUME Bad # {} PROVE FALSE
  <2>1. PICK s \in Bad : \A x \in s : s \ {x} \notin Bad
    <3>1. Bad \in SUBSET (SUBSET J)  OBVIOUS
    <3> HIDE DEF Bad
    <3>2. QED  BY <1>5, <3>1, LeastSet
  <2> HIDE DEF Of
  <2>2. s \in SUBSET J /\ SumFunctionOnSet(Of(s), I) # SumFunctionOnSet(a, s)  OBVIOUS
  <2>3. s # {}  BY <1>4, <2>2
  <2>4. PICK e \in s : TRUE  BY <2>3
  <2>5. s \ {e} \in SUBSET J /\ s \ {e} \notin Bad  BY <2>1, <2>2
  <2>6. SumFunctionOnSet(Of(s \ {e}), I) = SumFunctionOnSet(a, s \ {e})  BY <2>5
  <2>7. QED  BY <1>3, <2>2, <2>6
<1>6. SumFunctionOnSet(Of(J), I) = SumFunctionOnSet(a, J)
  <2>1. J \in SUBSET J  OBVIOUS
  <2> HIDE DEF Of
  <2>2. QED  BY <1>5, <2>1
<1>7. SumFunctionOnSet(m, I) = SumFunctionOnSet(Of(J), I)
  <2>1. PICK o : o = Of(J)  OBVIOUS
  <2>2. \A i \in I : m[i] = o[i]  BY <2>1 DEF Part
  <2>3. QED  BY <2>1, <2>2, SumSame
<1>8. QED  BY <1>6, <1>7

-----------------------------------------------------------------------------
(* The amounts.                                                            *)

LEMMA RoundedNets ==
    ASSUME NEW n \in Int
    PROVE  Rounded(n, 10) \in Int /\ Rounded(10 * n, 10) = n
BY DEF Rounded

LEMMA RoundedTaxes ==
    ASSUME NEW n \in Int
    PROVE  /\ Rounded(n, 100) \in Int /\ Rounded(-n, 100) = -Rounded(n, 100)
           /\ -50 <= 100 * Rounded(n, 100) - n /\ 100 * Rounded(n, 100) - n <= 50
BY DEF Rounded

TaxedByRate(c) == c.category \in Taxed <=> c.rate > 0

Lines == {l \in [exact : Int, category : Categories, rate : Nat] : TaxedByRate(l)}
Parts == {p \in [amount : Int, category : Categories, rate : Nat] : TaxedByRate(p)}
Entries == {e \in [category : Categories, rate : Nat, taxable : Amounts, tax : Amounts,
                   reason : BOOLEAN] : TaxedByRate(e)}
Keys == {k \in [category : Categories, rate : Nat] : TaxedByRate(k)}

Invoices == [lines : Seq(Lines) \ {<<>>}, allowances : Seq(Parts), charges : Seq(Parts),
              breakdown : Seq(Entries), totals : [Members -> Amounts]]

LEMMA ValueType ==
    /\ \A value \in Amounts, default \in Int : Given(value, default) \in Int
    /\ \A value \in Amounts : Zero(value) \in Int
    /\ \A value \in Int : \A default : Given(value, default) = value /\ Zero(value) = value
BY InvoiceChoices DEF Given, Zero, Amounts

LEMMA SumOverSeq ==
    ASSUME NEW S, NEW seq \in Seq(S), NEW fun, DOMAIN fun = DOMAIN seq,
           \A i \in DOMAIN seq : fun[i] \in Int
    PROVE  /\ IsFiniteSet(DOMAIN seq)
           /\ SumFunction(fun) = SumFunctionOnSet(fun, DOMAIN seq)
           /\ SumFunction(fun) \in Int
<1>1. Len(seq) \in Nat /\ DOMAIN seq = 1..Len(seq)  OBVIOUS
<1>2. IsFiniteSet(DOMAIN seq)  BY <1>1, FS_Interval
<1>3. SumFunctionOnSet(fun, DOMAIN seq) \in Int  BY <1>2, SumType
<1>4. QED  BY <1>2, <1>3 DEF SumFunction

\* What a part of the document adds to the group of a key.
NetTo(lines, key) ==
    [j \in DOMAIN lines |-> IF Key(lines[j]) = key THEN Net(lines[j]) ELSE 0]
AmountTo(parts, key) ==
    [j \in DOMAIN parts |-> IF Key(parts[j]) = key THEN parts[j].amount ELSE 0]

LEMMA NetType ==
    ASSUME NEW l \in Lines
    PROVE  Net(l) \in Int /\ Key(l) \in Keys
BY RoundedNets DEF Net, Lines, Key, Keys, TaxedByRate

LEMMA PartType ==
    ASSUME NEW p \in Parts
    PROVE  p.amount \in Int /\ Key(p) \in Keys
BY DEF Parts, Key, Keys, TaxedByRate

LEMMA EntryType ==
    ASSUME NEW e \in Entries
    PROVE  /\ Key(e) \in Keys /\ e.taxable \in Amounts /\ e.tax \in Amounts
           /\ e.category \in Categories /\ e.rate \in Nat
BY DEF Entries, Key, Keys, TaxedByRate

LEMMA ShareType ==
    ASSUME NEW key
    PROVE  /\ \A lines \in Seq(Lines) : /\ NetShare(lines, key) \in Int
                                        /\ NetShare(lines, key) = SumFunction(NetTo(lines, key))
           /\ \A parts \in Seq(Parts) : /\ Share(parts, key) \in Int
                                        /\ Share(parts, key) = SumFunction(AmountTo(parts, key))
<1>1. ASSUME NEW lines \in Seq(Lines)
      PROVE  NetShare(lines, key) \in Int /\ NetShare(lines, key) = SumFunction(NetTo(lines, key))
  <2>1. DOMAIN NetTo(lines, key) = DOMAIN lines  BY DEF NetTo
  <2>2. \A j \in DOMAIN lines : lines[j] \in Lines  OBVIOUS
  <2>3. \A j \in DOMAIN lines : NetTo(lines, key)[j] \in Int  BY <2>2, NetType DEF NetTo
  <2>4. NetShare(lines, key) = SumFunction(NetTo(lines, key))  BY DEF NetShare, SumOf, NetTo
  <2>5. QED  BY <2>1, <2>3, <2>4, SumOverSeq
<1>2. ASSUME NEW parts \in Seq(Parts)
      PROVE  Share(parts, key) \in Int /\ Share(parts, key) = SumFunction(AmountTo(parts, key))
  <2>1. DOMAIN AmountTo(parts, key) = DOMAIN parts  BY DEF AmountTo
  <2>2. \A j \in DOMAIN parts : parts[j] \in Parts  OBVIOUS
  <2>3. \A j \in DOMAIN parts : AmountTo(parts, key)[j] \in Int  BY <2>2, PartType DEF AmountTo
  <2>4. Share(parts, key) = SumFunction(AmountTo(parts, key))  BY DEF Share, SumOf, AmountTo
  <2>5. QED  BY <2>1, <2>3, <2>4, SumOverSeq
<1>3. QED  BY <1>1, <1>2

LEMMA DocumentParts ==
    ASSUME NEW doc \in Invoices
    PROVE  /\ doc.lines \in Seq(Lines) /\ doc.lines # <<>>
           /\ doc.allowances \in Seq(Parts) /\ doc.charges \in Seq(Parts)
           /\ doc.breakdown \in Seq(Entries) /\ doc.totals \in [Members -> Amounts]
BY DEF Invoices

LEMMA AmountType ==
    ASSUME NEW doc \in Invoices, NEW key
    PROVE  AmountOf(doc, key) \in Int
<1>1. NetShare(doc.lines, key) \in Int /\ Share(doc.allowances, key) \in Int
      /\ Share(doc.charges, key) \in Int
  BY DocumentParts, ShareType
<1>2. QED  BY <1>1 DEF AmountOf

LEMMA TaxType ==
    ASSUME NEW taxable \in Int, NEW category, NEW rate \in Nat
    PROVE  TaxOn(taxable, category, rate) \in Int
<1>1. taxable * rate \in Int  OBVIOUS
<1>2. QED  BY <1>1, RoundedTaxes DEF TaxOn

\* The groups of a document.
LEMMA GroupsType ==
    ASSUME NEW doc \in Invoices
    PROVE  /\ Groups(doc) \subseteq Keys /\ Groups(doc) # {} /\ IsFiniteSet(Groups(doc))
           /\ \A i \in DOMAIN doc.lines : Key(doc.lines[i]) \in Groups(doc)
           /\ \A i \in DOMAIN doc.allowances : Key(doc.allowances[i]) \in Groups(doc)
           /\ \A i \in DOMAIN doc.charges : Key(doc.charges[i]) \in Groups(doc)
<1>1. /\ doc.lines \in Seq(Lines) /\ doc.lines # <<>>
      /\ doc.allowances \in Seq(Parts) /\ doc.charges \in Seq(Parts)
  BY DocumentParts
<1> DEFINE L == {Key(doc.lines[i]) : i \in DOMAIN doc.lines}
           A == {Key(doc.allowances[i]) : i \in DOMAIN doc.allowances}
           C == {Key(doc.charges[i]) : i \in DOMAIN doc.charges}
<1>2. Groups(doc) = L \cup A \cup C  BY DEF Groups, ToSet
<1>3. L \subseteq Keys /\ A \subseteq Keys /\ C \subseteq Keys  BY <1>1, NetType, PartType
<1>4. L # {}
  <2>1. Len(doc.lines) \in Nat /\ Len(doc.lines) # 0  BY <1>1, EmptySeq
  <2>2. 1 \in DOMAIN doc.lines  BY <1>1, <2>1
  <2>3. QED  BY <2>2
<1>5. IsFiniteSet(DOMAIN doc.lines) /\ IsFiniteSet(DOMAIN doc.allowances)
      /\ IsFiniteSet(DOMAIN doc.charges)
  <2>1. /\ Len(doc.lines) \in Nat /\ DOMAIN doc.lines = 1..Len(doc.lines)
        /\ Len(doc.allowances) \in Nat /\ DOMAIN doc.allowances = 1..Len(doc.allowances)
        /\ Len(doc.charges) \in Nat /\ DOMAIN doc.charges = 1..Len(doc.charges)
    BY <1>1, LenProperties
  <2>2. \A n \in Nat : IsFiniteSet(1..n)  BY FS_Interval
  <2>3. QED  BY <2>1, <2>2
<1>6. IsFiniteSet(L)
  <2>1. [i \in DOMAIN doc.lines |-> Key(doc.lines[i])] \in Surjection(DOMAIN doc.lines, L)
    BY DEF Surjection
  <2>2. QED  BY <1>5, <2>1, FS_Surjection
<1>7. IsFiniteSet(A)
  <2>1. [i \in DOMAIN doc.allowances |-> Key(doc.allowances[i])]
           \in Surjection(DOMAIN doc.allowances, A)
    BY DEF Surjection
  <2>2. QED  BY <1>5, <2>1, FS_Surjection
<1>8. IsFiniteSet(C)
  <2>1. [i \in DOMAIN doc.charges |-> Key(doc.charges[i])] \in Surjection(DOMAIN doc.charges, C)
    BY DEF Surjection
  <2>2. QED  BY <1>5, <2>1, FS_Surjection
<1>9. \A i \in DOMAIN doc.lines : Key(doc.lines[i]) \in L  OBVIOUS
<1>10. \A i \in DOMAIN doc.allowances : Key(doc.allowances[i]) \in A  OBVIOUS
<1>11. \A i \in DOMAIN doc.charges : Key(doc.charges[i]) \in C  OBVIOUS
<1> HIDE DEF L, A, C
<1>12. IsFiniteSet(L \cup A \cup C)  BY <1>6, <1>7, <1>8, FS_Union
<1>13. QED  BY <1>2, <1>3, <1>4, <1>9, <1>10, <1>11, <1>12

\* What SetToSeq makes of a finite set has each of its elements once.
LEMMA InSomeOrder ==
    ASSUME NEW S, IsFiniteSet(S)
    PROVE  /\ SetToSeq(S) \in [1..Cardinality(S) -> S] /\ Cardinality(S) \in Nat
           /\ \A i, j \in 1..Cardinality(S) : SetToSeq(S)[i] = SetToSeq(S)[j] => i = j
           /\ \A e \in S : \E i \in 1..Cardinality(S) : SetToSeq(S)[i] = e
<1>1. PICK n : n = Cardinality(S)  OBVIOUS
<1>2. n \in Nat /\ ExistsBijection(1..n, S)  BY <1>1, FS_CardinalityType
<1>3. \E f \in [1..n -> S] : IsInjective(f)
  <2>1. PICK f : f \in Bijection(1..n, S)  BY <1>2 DEF ExistsBijection
  <2>2. f \in [1..n -> S] /\ \A a, b \in 1..n : f[a] = f[b] => a = b
    BY <2>1 DEF Bijection, Injection, IsInjective
  <2>3. IsInjective(f)  BY <2>2 DEF IsInjective
  <2>4. QED  BY <2>2, <2>3
<1>4. SetToSeq(S) \in [1..n -> S] /\ IsInjective(SetToSeq(S))  BY <1>1, <1>3 DEF SetToSeq
<1>5. PICK g : g = SetToSeq(S)  OBVIOUS
<1>6. g \in [1..n -> S] /\ \A i, j \in 1..n : g[i] = g[j] => i = j
  BY <1>4, <1>5 DEF IsInjective
<1>7. g \in Injection(1..n, S)  BY <1>6 DEF Injection, IsInjective
<1>8. Cardinality(1..n) = n  BY <1>2, FS_Interval
<1>9. g \in Surjection(1..n, S)  BY <1>1, <1>7, <1>8, FS_Injection
<1>10. \A e \in S : \E i \in 1..n : g[i] = e  BY <1>9 DEF Surjection
<1>11. QED  BY <1>1, <1>2, <1>5, <1>6, <1>10

-----------------------------------------------------------------------------
(* The breakdown.                                                          *)

\* An entry is its group's, computed.
IsComputed(doc, e) ==
    /\ e.taxable = AmountOf(doc, Key(e))
    /\ e.tax = TaxOn(AmountOf(doc, Key(e)), e.category, e.rate)

LEMMA ComputedEntryType ==
    ASSUME NEW doc \in Invoices, NEW key \in Keys
    PROVE  LET e == ComputedEntry(key, AmountOf(doc, key)) IN
           /\ e \in Entries /\ e.taxable \in Int /\ e.tax \in Int
           /\ Key(e) = key /\ IsComputed(doc, e) /\ e.reason = FALSE
<1>1. PICK amount : amount = AmountOf(doc, key)  OBVIOUS
<1>2. amount \in Int  BY <1>1, AmountType
<1>3. key.category \in Categories /\ key.rate \in Nat /\ TaxedByRate(key)  BY DEF Keys
<1>4. PICK tax : tax = TaxOn(amount, key.category, key.rate)  OBVIOUS
<1>5. tax \in Int  BY <1>2, <1>3, <1>4, TaxType
<1>6. PICK e : e = ComputedEntry(key, amount)  OBVIOUS
<1>7. e = [category |-> key.category, rate |-> key.rate, taxable |-> amount,
           tax |-> tax, reason |-> FALSE]
  BY <1>4, <1>6 DEF ComputedEntry
<1>8. Key(e) = key  BY <1>7 DEF Key, Keys
<1>9. e \in Entries  BY <1>2, <1>3, <1>5, <1>7 DEF Entries, TaxedByRate, Amounts
<1>10. IsComputed(doc, e)  BY <1>1, <1>4, <1>7, <1>8 DEF IsComputed
<1>11. QED  BY <1>1, <1>2, <1>5, <1>6, <1>7, <1>8, <1>9, <1>10

\* Without stated entries there is one for each group.
LEMMA ComputedBreakdown ==
    ASSUME NEW doc \in Invoices, doc.breakdown = <<>>
    PROVE  /\ Breakdown(doc) \in Seq(Entries) /\ Breakdown(doc) # <<>>
           /\ \A i \in DOMAIN Breakdown(doc) :
                 LET e == Breakdown(doc)[i] IN
                 /\ Key(e) \in Groups(doc) /\ e.taxable \in Int /\ e.tax \in Int
                 /\ IsComputed(doc, e) /\ e.reason = FALSE
           /\ \A i, j \in DOMAIN Breakdown(doc) :
                 Key(Breakdown(doc)[i]) = Key(Breakdown(doc)[j]) => i = j
           /\ \A key \in Groups(doc) : \E i \in DOMAIN Breakdown(doc) : Key(Breakdown(doc)[i]) = key
<1> DEFINE Of(key) == ComputedEntry(key, AmountOf(doc, key))
           S == {Of(key) : key \in Groups(doc)}
<1>1. PICK b : b = Breakdown(doc)  OBVIOUS
<1>2. b = SetToSeq(S)  BY <1>1 DEF Breakdown
<1>3. Groups(doc) \subseteq Keys /\ Groups(doc) # {} /\ IsFiniteSet(Groups(doc))
  BY GroupsType
<1>4. IsFiniteSet(S) /\ S # {}
  <2>1. [key \in Groups(doc) |-> Of(key)] \in Surjection(Groups(doc), S)  BY DEF Surjection
  <2> HIDE DEF Of
  <2>2. QED  BY <1>3, <2>1, FS_Surjection
<1>5. \A key \in Groups(doc) :
         /\ Of(key) \in Entries /\ Of(key).taxable \in Int /\ Of(key).tax \in Int
         /\ Key(Of(key)) = key /\ IsComputed(doc, Of(key)) /\ Of(key).reason = FALSE
  BY <1>3, ComputedEntryType
<1> HIDE DEF Of
<1>6. PICK n : n = Cardinality(S)  OBVIOUS
<1>7. \A e \in S : \E key \in Groups(doc) : e = Of(key)  OBVIOUS
<1>8. \A key \in Groups(doc) : Of(key) \in S  OBVIOUS
<1> HIDE DEF S
<1>9. /\ b \in [1..n -> S] /\ n \in Nat
      /\ \A i, j \in 1..n : b[i] = b[j] => i = j
      /\ \A e \in S : \E i \in 1..n : b[i] = e
  BY <1>2, <1>4, <1>6, InSomeOrder
<1>10. DOMAIN b = 1..n  BY <1>9
<1>11. b \in Seq(Entries)
  <2>1. S \subseteq Entries  BY <1>5, <1>7
  <2>2. QED  BY <1>9, <2>1
<1>12. b # <<>>
  <2>1. \E i \in DOMAIN b : TRUE  BY <1>4, <1>9, <1>10
  <2>2. QED  BY <2>1
<1>13. \A i \in DOMAIN b : /\ Key(b[i]) \in Groups(doc) /\ b[i].taxable \in Int /\ b[i].tax \in Int
                          /\ IsComputed(doc, b[i]) /\ b[i].reason = FALSE
                          /\ b[i] = Of(Key(b[i]))
  BY <1>5, <1>7, <1>9, <1>10
<1>14. \A i, j \in DOMAIN b : Key(b[i]) = Key(b[j]) => i = j
  <2> SUFFICES ASSUME NEW i \in DOMAIN b, NEW j \in DOMAIN b, Key(b[i]) = Key(b[j])
               PROVE  i = j
    OBVIOUS
  <2>1. b[i] = Of(Key(b[i])) /\ b[j] = Of(Key(b[j]))  BY <1>13
  <2>2. QED  BY <1>9, <1>10, <2>1
<1>15. \A key \in Groups(doc) : \E i \in DOMAIN b : Key(b[i]) = key
  BY <1>5, <1>8, <1>9, <1>10
<1>16. QED  BY <1>1, <1>11, <1>12, <1>13, <1>14, <1>15

\* Stated entries keep what they state, and lack an amount only where no part of the
\* document is theirs.
LEMMA StatedBreakdown ==
    ASSUME NEW doc \in Invoices, doc.breakdown # <<>>
    PROVE  /\ Breakdown(doc) \in Seq(Entries) /\ Breakdown(doc) # <<>>
           /\ DOMAIN Breakdown(doc) = DOMAIN doc.breakdown
           /\ \A i \in DOMAIN doc.breakdown :
                 LET s == doc.breakdown[i]
                     e == Breakdown(doc)[i] IN
                 /\ e.category = s.category /\ e.rate = s.rate /\ e.reason = s.reason
                 /\ Key(e) = Key(s)
                 /\ Key(e) \in Groups(doc) => e.taxable \in Int /\ e.tax \in Int
                 /\ s.taxable \in Int /\ s.tax \in Int => e = s
                 /\ s.taxable = Unset /\ s.tax = Unset /\ Key(e) \in Groups(doc) =>
                       IsComputed(doc, e)
<1>1. PICK b : b = Breakdown(doc)  OBVIOUS
<1>2. PICK t : t = doc.breakdown  OBVIOUS
<1>3. t \in Seq(Entries) /\ t # <<>>  BY <1>2, DocumentParts
<1>4. /\ DOMAIN b = DOMAIN t /\ b = [i \in DOMAIN t |-> b[i]]
      /\ \A i \in DOMAIN t : b[i] =
            IF Key(t[i]) \notin Groups(doc) THEN t[i]
            ELSE Completed(t[i], ComputedEntry(Key(t[i]), AmountOf(doc, Key(t[i]))))
  BY <1>1, <1>2 DEF Breakdown
<1>5. ASSUME NEW i \in DOMAIN t
      PROVE  /\ b[i] \in Entries
             /\ b[i].category = t[i].category /\ b[i].rate = t[i].rate /\ b[i].reason = t[i].reason
             /\ Key(b[i]) = Key(t[i])
             /\ Key(b[i]) \in Groups(doc) => b[i].taxable \in Int /\ b[i].tax \in Int
             /\ t[i].taxable \in Int /\ t[i].tax \in Int => b[i] = t[i]
             /\ t[i].taxable = Unset /\ t[i].tax = Unset /\ Key(b[i]) \in Groups(doc) =>
                   IsComputed(doc, b[i])
  <2>1. PICK s : s = t[i]  OBVIOUS
  <2>2. PICK e : e = b[i]  OBVIOUS
  <2>3. s \in Entries  BY <1>3, <2>1
  <2>4. PICK amount : amount = AmountOf(doc, Key(s))  OBVIOUS
  <2>5. PICK c : c = ComputedEntry(Key(s), amount)  OBVIOUS
  <2>6. Key(s) \in Keys  BY <2>3, EntryType
  <2>7. c.taxable \in Int /\ c.tax \in Int  BY <2>4, <2>5, <2>6, ComputedEntryType
  <2>8. c.taxable = amount /\ c.tax = TaxOn(amount, s.category, s.rate)
    BY <2>5 DEF ComputedEntry, Key
  <2>9. CASE Key(s) \notin Groups(doc)
    <3>1. e = s  BY <1>4, <2>1, <2>2, <2>9
    <3>2. QED  BY <2>1, <2>2, <2>3, <2>9, <3>1
  <2>10. CASE Key(s) \in Groups(doc)
    <3>1. e = [s EXCEPT !.taxable = Given(s.taxable, c.taxable), !.tax = Given(s.tax, c.tax)]
      BY <1>4, <2>1, <2>2, <2>4, <2>5, <2>10 DEF Completed
    <3>2. s.taxable \in Amounts /\ s.tax \in Amounts  BY <2>3, EntryType
    <3>3. PICK x, y : x = Given(s.taxable, c.taxable) /\ y = Given(s.tax, c.tax)  OBVIOUS
    <3>4. x \in Int /\ y \in Int  BY <2>7, <3>2, <3>3, ValueType
    <3>5. /\ e.category = s.category /\ e.rate = s.rate /\ e.reason = s.reason
          /\ e.taxable = x /\ e.tax = y /\ e \in Entries
      BY <2>3, <3>1, <3>3, <3>4 DEF Entries, TaxedByRate, Amounts
    <3>6. Key(e) = Key(s)  BY <3>5 DEF Key
    <3>7. s.taxable \in Int /\ s.tax \in Int => e = s
      <4>1. s.taxable \in Int /\ s.tax \in Int => x = s.taxable /\ y = s.tax
        BY <3>3, ValueType
      <4>2. x = s.taxable /\ y = s.tax => e = s  BY <2>3, <3>1, <3>3 DEF Entries
      <4>3. QED  BY <4>1, <4>2
    <3>8. s.taxable = Unset /\ s.tax = Unset => IsComputed(doc, e)
      BY <2>4, <2>8, <3>3, <3>5, <3>6 DEF IsComputed, Given
    <3>9. QED  BY <2>1, <2>2, <3>4, <3>5, <3>6, <3>7, <3>8
  <2>11. QED  BY <2>9, <2>10
<1>6. b \in Seq(Entries)
  <2>1. Len(t) \in Nat /\ DOMAIN t = 1..Len(t)  BY <1>3, LenProperties
  <2>2. b \in [1..Len(t) -> Entries]  BY <1>4, <1>5, <2>1
  <2>3. QED  BY <2>1, <2>2
<1>7. b # <<>>
  <2>1. Len(t) \in Nat /\ Len(t) # 0 /\ DOMAIN t = 1..Len(t)  BY <1>3, EmptySeq, LenProperties
  <2>2. 1 \in DOMAIN b  BY <1>4, <2>1
  <2>3. QED  BY <2>2
<1>8. QED  BY <1>1, <1>2, <1>4, <1>5, <1>6, <1>7

LEMMA BreakdownType ==
    ASSUME NEW doc \in Invoices
    PROVE  /\ Breakdown(doc) \in Seq(Entries) /\ Breakdown(doc) # <<>>
           /\ \A i \in DOMAIN Breakdown(doc) :
                 Key(Breakdown(doc)[i]) \in Groups(doc) =>
                    Breakdown(doc)[i].taxable \in Int /\ Breakdown(doc)[i].tax \in Int
<1>1. CASE doc.breakdown = <<>>
  BY <1>1, ComputedBreakdown
<1>2. CASE doc.breakdown # <<>>
  BY <1>2, StatedBreakdown
<1>3. QED  BY <1>1, <1>2

-----------------------------------------------------------------------------
(* The totals.                                                             *)

LineSum(doc) == SumOf(doc.lines, Net)
AmountSum(parts) == SumOf(parts, LAMBDA p : p.amount)
TaxSum(breakdown) == SumOf(breakdown, LAMBDA e : Zero(e.tax))

LEMMA SumsType ==
    ASSUME NEW doc \in Invoices, NEW b \in Seq(Entries)
    PROVE  /\ LineSum(doc) \in Int /\ TaxSum(b) \in Int
           /\ \A parts \in Seq(Parts) :
                 /\ AmountSum(parts) \in Int
                 /\ Zero(PartTotal(parts)) = AmountSum(parts)
                 /\ PartTotal(parts) \in Amounts
<1>1. LineSum(doc) \in Int
  <2>1. PICK fun : fun = [i \in DOMAIN doc.lines |-> Net(doc.lines[i])]  OBVIOUS
  <2>2. doc.lines \in Seq(Lines)  BY DocumentParts
  <2>3. \A i \in DOMAIN doc.lines : fun[i] \in Int  BY <2>1, <2>2, NetType
  <2>4. DOMAIN fun = DOMAIN doc.lines  BY <2>1
  <2>5. SumFunction(fun) \in Int  BY <2>2, <2>3, <2>4, SumOverSeq
  <2>6. QED  BY <2>1, <2>5 DEF LineSum, SumOf
<1>2. TaxSum(b) \in Int
  <2>1. PICK fun : fun = [i \in DOMAIN b |-> Zero(b[i].tax)]  OBVIOUS
  <2>2. \A i \in DOMAIN b : b[i] \in Entries  OBVIOUS
  <2>3. \A i \in DOMAIN b : fun[i] \in Int  BY <2>1, <2>2, EntryType, ValueType
  <2>4. DOMAIN fun = DOMAIN b  BY <2>1
  <2>5. SumFunction(fun) \in Int  BY <2>3, <2>4, SumOverSeq
  <2>6. QED  BY <2>1, <2>5 DEF TaxSum, SumOf
<1>3. ASSUME NEW parts \in Seq(Parts)
      PROVE  /\ AmountSum(parts) \in Int
             /\ Zero(PartTotal(parts)) = AmountSum(parts)
             /\ PartTotal(parts) \in Amounts
  <2>1. PICK fun : fun = [i \in DOMAIN parts |-> parts[i].amount]  OBVIOUS
  <2>2. \A i \in DOMAIN parts : parts[i] \in Parts  OBVIOUS
  <2>3. \A i \in DOMAIN parts : fun[i] \in Int  BY <2>1, <2>2, PartType
  <2>4. DOMAIN fun = DOMAIN parts  BY <2>1
  <2>5. SumFunction(fun) \in Int  BY <2>3, <2>4, SumOverSeq
  <2>6. AmountSum(parts) = SumFunction(fun)  BY <2>1 DEF AmountSum, SumOf
  <2>7. PartTotal(parts) = IF parts = <<>> THEN Unset ELSE AmountSum(parts)
    BY DEF PartTotal, AmountSum
  <2>8. parts = <<>> => AmountSum(parts) = 0
    <3>1. SumFunction(fun) = SumFunctionOnSet(fun, DOMAIN fun)  BY DEF SumFunction
    <3>2. parts = <<>> => DOMAIN fun = {}  BY <2>4
    <3>3. SumFunctionOnSet(fun, {}) = 0  BY SumRecursion, FS_EmptySet
    <3>4. QED  BY <2>6, <3>1, <3>2, <3>3
  <2>9. PartTotal(parts) \in Amounts  BY <2>5, <2>6, <2>7 DEF Amounts
  <2>10. Zero(PartTotal(parts)) = AmountSum(parts)
    <3>1. CASE parts = <<>>
      BY <2>7, <2>8, <3>1 DEF Zero, Given
    <3>2. CASE parts # <<>>
      BY <2>5, <2>6, <2>7, <3>2, ValueType
    <3>3. QED  BY <3>1, <3>2
  <2>11. QED  BY <2>5, <2>6, <2>9, <2>10
<1>4. QED  BY <1>1, <1>2, <1>3

\* The members that stay unset where there is nothing to sum or nothing was stated.
MayBeUnset == {"allowance", "charge", "prepaid", "rounding"}

LEMMA ComputedMembers ==
    ASSUME NEW doc \in Invoices, NEW b \in Seq(Entries), NEW c, c = ComputedTotals(doc, b)
    PROVE  /\ c \in [Members -> Amounts]
           /\ \A m \in Members \ MayBeUnset : c[m] \in Int
           /\ c.prepaid = doc.totals.prepaid /\ c.rounding = doc.totals.rounding
           /\ c.exclusive = LineSum(doc) - AmountSum(doc.allowances) + AmountSum(doc.charges)
           /\ c.exclusive = c.lines - Zero(c.allowance) + Zero(c.charge)
           /\ c.vat = TaxSum(b) /\ c.inclusive = c.exclusive + c.vat
           /\ c.payable = c.inclusive - Zero(c.prepaid) + Zero(c.rounding)
<1>1. PICK lines, allowance, charge, vat, prepaid, rounding :
         /\ lines = LineSum(doc) /\ allowance = PartTotal(doc.allowances)
         /\ charge = PartTotal(doc.charges) /\ vat = TaxSum(b)
         /\ prepaid = doc.totals.prepaid /\ rounding = doc.totals.rounding
  OBVIOUS
<1>2. PICK exclusive : exclusive = lines - Zero(allowance) + Zero(charge)  OBVIOUS
<1>3. PICK inclusive : inclusive = exclusive + vat  OBVIOUS
<1>4. PICK payable : payable = inclusive - Zero(prepaid) + Zero(rounding)  OBVIOUS
<1>5. c = [lines |-> lines, allowance |-> allowance, charge |-> charge,
           exclusive |-> exclusive, vat |-> vat, inclusive |-> inclusive,
           prepaid |-> prepaid, rounding |-> rounding, payable |-> payable]
  BY <1>1, <1>2, <1>3, <1>4 DEF ComputedTotals, LineSum, TaxSum
<1>6. /\ doc.allowances \in Seq(Parts) /\ doc.charges \in Seq(Parts)
      /\ doc.totals \in [Members -> Amounts]
  BY DocumentParts
<1>7. /\ lines \in Int /\ vat \in Int /\ allowance \in Amounts /\ charge \in Amounts
      /\ Zero(allowance) = AmountSum(doc.allowances) /\ Zero(charge) = AmountSum(doc.charges)
      /\ Zero(allowance) \in Int /\ Zero(charge) \in Int
  BY <1>1, <1>6, SumsType
<1>8. prepaid \in Amounts /\ rounding \in Amounts  BY <1>1, <1>6 DEF Members
<1>9. Zero(prepaid) \in Int /\ Zero(rounding) \in Int  BY <1>8, ValueType
<1>10. exclusive \in Int /\ inclusive \in Int /\ payable \in Int
  <2>1. PICK a, h, p, r : a = Zero(allowance) /\ h = Zero(charge)
                          /\ p = Zero(prepaid) /\ r = Zero(rounding)
    OBVIOUS
  <2>2. /\ a \in Int /\ h \in Int /\ p \in Int /\ r \in Int
        /\ lines \in Int /\ vat \in Int
    BY <1>7, <1>9, <2>1
  <2>3. exclusive = lines - a + h  BY <1>2, <2>1
  <2>4. exclusive \in Int  BY <2>2, <2>3
  <2>5. inclusive \in Int  BY <1>3, <2>2, <2>4
  <2>6. payable = inclusive - p + r  BY <1>4, <2>1
  <2>7. payable \in Int  BY <2>2, <2>5, <2>6
  <2>8. QED  BY <2>4, <2>5, <2>7
<1>11. c \in [Members -> Amounts]
  BY <1>5, <1>7, <1>8, <1>10 DEF Members, Amounts
<1>12. \A m \in Members \ MayBeUnset : c[m] \in Int
  BY <1>5, <1>7, <1>10 DEF Members, MayBeUnset
<1>13. QED  BY <1>1, <1>2, <1>3, <1>4, <1>5, <1>7, <1>11, <1>12

LEMMA EffectiveMembers ==
    ASSUME NEW doc \in Invoices, NEW b \in Seq(Entries), NEW ts, ts = TotalsOf(doc, b)
    PROVE  /\ ts.computed = ComputedTotals(doc, b)
           /\ ts.effective \in [Members -> Amounts]
           /\ \A m \in Members : /\ ts.effective[m] = Given(doc.totals[m], ts.computed[m])
                                 /\ ts.effective[m] = Unset => ts.computed[m] = Unset
                                 /\ m \notin MayBeUnset => ts.effective[m] \in Int
<1>1. PICK c : c = ComputedTotals(doc, b)  OBVIOUS
<1>2. ts.computed = c /\ ts.effective = Effective(doc.totals, c)  BY <1>1 DEF TotalsOf
<1>3. doc.totals \in [Members -> Amounts]  BY DocumentParts
<1>4. c \in [Members -> Amounts] /\ \A m \in Members \ MayBeUnset : c[m] \in Int
  BY <1>1, ComputedMembers
<1>5. /\ DOMAIN ts.effective = Members
      /\ ts.effective = [m \in Members |-> Given(doc.totals[m], c[m])]
  BY <1>2, <1>3 DEF Effective
<1>6. ASSUME NEW m \in Members
      PROVE  /\ Given(doc.totals[m], c[m]) \in Amounts
             /\ Given(doc.totals[m], c[m]) = Unset => c[m] = Unset
             /\ m \notin MayBeUnset => Given(doc.totals[m], c[m]) \in Int
  <2>1. doc.totals[m] \in Amounts /\ c[m] \in Amounts  BY <1>3, <1>4
  <2>2. QED  BY <1>4, <2>1 DEF Given, Amounts
<1>7. QED  BY <1>1, <1>2, <1>5, <1>6

-----------------------------------------------------------------------------
(* Reading back.                                                           *)

Rendering(doc) == Rendered(doc, Breakdown(doc), TotalsOf(doc, Breakdown(doc)))

\* A line that was read back has its net amount exactly, and its key.
LEMMA ReadLines ==
    ASSUME NEW doc \in Invoices, NEW lines,
           lines = [i \in DOMAIN doc.lines |-> [doc.lines[i] EXCEPT !.exact = 10 * Net(doc.lines[i])]]
    PROVE  /\ lines \in Seq(Lines) \ {<<>>} /\ DOMAIN lines = DOMAIN doc.lines
           /\ \A i \in DOMAIN lines : /\ Net(lines[i]) = Net(doc.lines[i])
                                      /\ Key(lines[i]) = Key(doc.lines[i])
<1>1. doc.lines \in Seq(Lines) /\ doc.lines # <<>>  BY DocumentParts
<1>2. ASSUME NEW i \in DOMAIN doc.lines
      PROVE  /\ lines[i] \in Lines /\ Net(lines[i]) = Net(doc.lines[i])
             /\ Key(lines[i]) = Key(doc.lines[i])
  <2>1. PICK l : l = doc.lines[i]  OBVIOUS
  <2>2. l \in Lines  BY <1>1, <2>1
  <2>3. PICK n : n = Net(l)  OBVIOUS
  <2>4. n \in Int  BY <2>2, <2>3, NetType
  <2>5. PICK k : k = [l EXCEPT !.exact = 10 * n]  OBVIOUS
  <2>6. lines[i] = k  BY <2>1, <2>3, <2>5
  <2>7. k.exact = 10 * n /\ k.category = l.category /\ k.rate = l.rate /\ k \in Lines
    BY <2>2, <2>4, <2>5 DEF Lines, TaxedByRate
  <2>8. Net(k) = n  BY <2>4, <2>7, RoundedNets DEF Net
  <2>9. QED  BY <2>1, <2>3, <2>6, <2>7, <2>8 DEF Key
<1>3. Len(doc.lines) \in Nat /\ Len(doc.lines) # 0 /\ DOMAIN doc.lines = 1..Len(doc.lines)
  BY <1>1, EmptySeq, LenProperties
<1>4. DOMAIN lines = DOMAIN doc.lines  OBVIOUS
<1>5. lines \in [1..Len(doc.lines) -> Lines]
  <2>1. lines = [i \in 1..Len(doc.lines) |-> lines[i]]  BY <1>3
  <2>2. QED  BY <1>2, <1>3, <2>1
<1>6. lines \in Seq(Lines)
  <2>1. \A n \in Nat : \A x : x \in [1..n -> Lines] => x \in Seq(Lines)  OBVIOUS
  <2>2. QED  BY <1>3, <1>5, <2>1, Zenon
<1>7. lines # <<>>
  <2>1. 1 \in DOMAIN lines  BY <1>3, <1>4
  <2>2. \A x : 1 \in DOMAIN x => x # <<>>  OBVIOUS
  <2>3. QED  BY <2>1, <2>2, Zenon
<1>8. QED  BY <1>2, <1>4, <1>6, <1>7, Zenon

\* What a document's arithmetic looks at: the same groups, the same amounts in them.
LEMMA SameGroups ==
    ASSUME NEW doc \in Invoices, NEW d \in Invoices,
           d.allowances = doc.allowances, d.charges = doc.charges,
           DOMAIN d.lines = DOMAIN doc.lines,
           \A i \in DOMAIN d.lines : /\ Net(d.lines[i]) = Net(doc.lines[i])
                                     /\ Key(d.lines[i]) = Key(doc.lines[i])
    PROVE  /\ Groups(d) = Groups(doc) /\ \A key : AmountOf(d, key) = AmountOf(doc, key)
           /\ LineSum(d) = LineSum(doc)
<1>1. {Key(p) : p \in ToSet(d.lines)} = {Key(p) : p \in ToSet(doc.lines)}
  BY DEF ToSet
<1>2. Groups(d) = Groups(doc)  BY <1>1 DEF Groups
<1>3. \A key : NetShare(d.lines, key) = NetShare(doc.lines, key)
  <2> SUFFICES ASSUME NEW key PROVE NetShare(d.lines, key) = NetShare(doc.lines, key)
    OBVIOUS
  <2>1. NetTo(d.lines, key) = NetTo(doc.lines, key)  BY DEF NetTo
  <2>2. d.lines \in Seq(Lines) /\ doc.lines \in Seq(Lines)  BY DocumentParts
  <2>3. QED  BY <2>1, <2>2, ShareType
<1>4. \A key : AmountOf(d, key) = AmountOf(doc, key)  BY <1>3 DEF AmountOf
<1>5. LineSum(d) = LineSum(doc)
  <2>1. [i \in DOMAIN d.lines |-> Net(d.lines[i])] = [i \in DOMAIN doc.lines |-> Net(doc.lines[i])]
    OBVIOUS
  <2>2. QED  BY <2>1 DEF LineSum, SumOf
<1>6. QED  BY <1>2, <1>4, <1>5

LEMMA ZerosType ==
    ASSUME NEW e \in Entries, NEW z, z = WithZeros(e)
    PROVE  /\ z \in Entries /\ z.taxable = Zero(e.taxable) /\ z.tax = Zero(e.tax)
           /\ z.taxable \in Int /\ z.tax \in Int
           /\ z.category = e.category /\ z.rate = e.rate /\ z.reason = e.reason
           /\ Key(z) = Key(e) /\ WithZeros(z) = z /\ [z EXCEPT !.taxable = @, !.tax = @] = z
           /\ e.taxable \in Int /\ e.tax \in Int => z = e
<1>1. PICK x, y : x = Zero(e.taxable) /\ y = Zero(e.tax)  OBVIOUS
<1>2. x \in Int /\ y \in Int  BY <1>1, EntryType, ValueType
<1>3. z = [e EXCEPT !.taxable = x, !.tax = y]  BY <1>1 DEF WithZeros
<1>4. PICK c, q, n : c = e.category /\ q = e.rate /\ n = e.reason  OBVIOUS
<1>5. z = [category |-> c, rate |-> q, taxable |-> x, tax |-> y, reason |-> n]
  BY <1>3, <1>4 DEF Entries
<1>6. c \in Categories /\ q \in Nat /\ n \in BOOLEAN /\ (c \in Taxed <=> q > 0)
  BY <1>4 DEF Entries, TaxedByRate
<1>7. /\ z.taxable = x /\ z.tax = y /\ z.category = c /\ z.rate = q /\ z.reason = n
      /\ Key(z) = Key(e)
  BY <1>4, <1>5 DEF Key
<1>8. z \in Entries  BY <1>2, <1>5, <1>6 DEF Entries, TaxedByRate, Amounts
<1>9. [z EXCEPT !.taxable = x, !.tax = y] = z
  <2>1. [z EXCEPT !.taxable = x] = z  BY <1>5
  <2>2. [z EXCEPT !.tax = y] = z  BY <1>5
  <2>3. QED  BY <2>1, <2>2, Zenon
<1>10. Zero(x) = x /\ Zero(y) = y  BY <1>2, ValueType
<1>11. WithZeros(z) = z  BY <1>7, <1>9, <1>10 DEF WithZeros
<1>12. [z EXCEPT !.taxable = @, !.tax = @] = z  BY <1>7, <1>9
<1>13. e.taxable \in Int /\ e.tax \in Int => z = e
  <2>1. e.taxable \in Int /\ e.tax \in Int => x = e.taxable /\ y = e.tax  BY <1>1, ValueType
  <2>2. x = e.taxable /\ y = e.tax => z = e  BY <1>3 DEF Entries
  <2>3. QED  BY <2>1, <2>2
<1>14. QED  BY <1>1, <1>2, <1>4, <1>7, <1>8, <1>11, <1>12, <1>13

\* What a document with the breakdown b and the totals ts is read back as.
ReadFrom(d, doc, b, ts) ==
    /\ d \in Invoices /\ d.allowances = doc.allowances /\ d.charges = doc.charges
    /\ DOMAIN d.lines = DOMAIN doc.lines
    /\ \A i \in DOMAIN d.lines : /\ Net(d.lines[i]) = Net(doc.lines[i])
                                 /\ Key(d.lines[i]) = Key(doc.lines[i])
    /\ d.breakdown # <<>> /\ d.breakdown = [i \in DOMAIN b |-> WithZeros(b[i])]
    /\ d.totals = ts.effective

LEMMA WhatIsRead ==
    ASSUME NEW doc \in Invoices, NEW b, b = Breakdown(doc), NEW ts, ts = TotalsOf(doc, b),
           NEW d, d = ReadDocument(doc, Rendering(doc))
    PROVE  ReadFrom(d, doc, b, ts)
<1>1. PICK xml : xml = Rendering(doc)  OBVIOUS
<1>2. PICK z : z = [i \in DOMAIN b |-> WithZeros(b[i])]  OBVIOUS
<1>3. PICK lines : lines = [i \in DOMAIN doc.lines |->
                              [doc.lines[i] EXCEPT !.exact = 10 * Net(doc.lines[i])]]
  OBVIOUS
<1>4. /\ xml.nets = [i \in DOMAIN doc.lines |-> Net(doc.lines[i])]
      /\ xml.breakdown = z /\ xml.totals = ts.effective
  BY <1>1, <1>2 DEF Rendering, Rendered
<1>5. doc.totals \in [Members -> Amounts] /\ doc.lines \in Seq(Lines)  BY DocumentParts
<1>6. b \in Seq(Entries) /\ b # <<>>  BY BreakdownType
<1>7. ts.effective \in [Members -> Amounts]  BY <1>6, EffectiveMembers
<1>8. [m \in DOMAIN doc.totals |-> xml.totals[m]] = ts.effective  BY <1>4, <1>5, <1>7
<1>9. [i \in DOMAIN xml.breakdown |->
          [xml.breakdown[i] EXCEPT !.taxable = AsRead(@), !.tax = AsRead(@)]] = z
  <2>1. DOMAIN z = DOMAIN b  BY <1>2
  <2>2. \A i \in DOMAIN b : [z[i] EXCEPT !.taxable = @, !.tax = @] = z[i]
    <3>1. \A i \in DOMAIN b : b[i] \in Entries  BY <1>6
    <3>2. QED  BY <1>2, <3>1, ZerosType
  <2>3. QED  BY <1>2, <1>4, <2>1, <2>2 DEF AsRead
<1>10. [i \in DOMAIN doc.lines |-> [doc.lines[i] EXCEPT !.exact = 10 * xml.nets[i]]] = lines
  BY <1>3, <1>4
<1>11. d = [doc EXCEPT !.lines = lines, !.breakdown = z, !.totals = ts.effective]
  BY <1>1, <1>8, <1>9, <1>10 DEF ReadDocument, AsRead
<1>12. /\ d.lines = lines /\ d.breakdown = z /\ d.totals = ts.effective
       /\ d.allowances = doc.allowances /\ d.charges = doc.charges
  BY <1>11 DEF Invoices
<1>13. /\ lines \in Seq(Lines) \ {<<>>} /\ DOMAIN lines = DOMAIN doc.lines
       /\ \A i \in DOMAIN lines : /\ Net(lines[i]) = Net(doc.lines[i])
                                  /\ Key(lines[i]) = Key(doc.lines[i])
  BY <1>3, ReadLines
<1>14. \A i \in DOMAIN b : z[i] \in Entries
  <2>1. \A i \in DOMAIN b : b[i] \in Entries  BY <1>6
  <2>2. QED  BY <1>2, <2>1, ZerosType
<1>15. z \in Seq(Entries) /\ z # <<>>
  <2>1. Len(b) \in Nat /\ Len(b) # 0 /\ DOMAIN b = 1..Len(b)  BY <1>6, EmptySeq, LenProperties
  <2>2. z \in [1..Len(b) -> Entries]
    <3>1. z = [i \in 1..Len(b) |-> z[i]]  BY <1>2, <2>1
    <3>2. QED  BY <1>14, <2>1, <3>1
  <2>3. \A n \in Nat : \A x : x \in [1..n -> Entries] => x \in Seq(Entries)  OBVIOUS
  <2>4. 1 \in DOMAIN z
    <3>1. DOMAIN z = DOMAIN b  BY <1>2
    <3>2. \A n \in Nat : n # 0 => 1 \in 1..n  OBVIOUS
    <3>3. QED  BY <2>1, <3>1, <3>2, Zenon
  <2>5. \A x : 1 \in DOMAIN x => x # <<>>  OBVIOUS
  <2>6. z \in Seq(Entries)  BY <2>1, <2>2, <2>3, Zenon
  <2>7. z # <<>>  BY <2>4, <2>5, Zenon
  <2>8. QED  BY <2>6, <2>7
<1>16. d \in Invoices
  <2>1. doc.allowances \in Seq(Parts) /\ doc.charges \in Seq(Parts)  BY DocumentParts
  <2>2. d = [lines |-> lines, allowances |-> doc.allowances, charges |-> doc.charges,
             breakdown |-> z, totals |-> ts.effective]
    BY <1>11 DEF Invoices
  <2>3. QED  BY <1>7, <1>13, <1>15, <2>1, <2>2 DEF Invoices
<1>17. QED  BY <1>2, <1>12, <1>13, <1>15, <1>16 DEF ReadFrom

-----------------------------------------------------------------------------
(* The judgement.                                                          *)

LEMMA NothingFound ==
    ASSUME NEW doc, NEW e
    PROVE  EntryFindings(doc, e) = {} <=>
              /\ e.taxable # Unset /\ e.tax # Unset
              /\ ~(e.category \in Exempt /\ ~e.reason)
              /\ ~(Miss(doc, e) >= (IF e.category \in Taxed THEN Unit ELSE 1))
              /\ ~(e.category \notin Taxed /\ e.tax # 0)
              /\ ~(/\ e.category \in Taxed
                   /\ Abs(Abs(e.tax) - TaxOn(Abs(e.taxable), e.category, e.rate)) >= Unit)
<1> DEFINE Whole == e.taxable # Unset /\ e.tax # Unset
           NoReason == e.category \in Exempt /\ ~e.reason
           Missed == Miss(doc, e) >= (IF e.category \in Taxed THEN Unit ELSE 1)
           TaxedZero == e.category \notin Taxed /\ e.tax # 0
           OffTax == /\ e.category \in Taxed
                     /\ Abs(Abs(e.tax) - TaxOn(Abs(e.taxable), e.category, e.rate)) >= Unit
           F == EntryFindings(doc, e)
<1>1. "10" \in F <=> NoReason  BY DEF EntryFindings
<1>2. "BR-45" \in F <=> e.taxable = Unset  BY DEF EntryFindings
<1>3. "BR-46" \in F <=> e.taxable # Unset /\ e.tax = Unset  BY DEF EntryFindings
<1>4. "08" \in F <=> Whole /\ Missed  BY DEF EntryFindings
<1>5. "09" \in F <=> Whole /\ TaxedZero  BY DEF EntryFindings
<1>6. "CO-17" \in F <=> Whole /\ OffTax  BY DEF EntryFindings
<1>7. F \subseteq {"10", "BR-45", "BR-46", "08", "09", "CO-17"}  BY DEF EntryFindings
<1> HIDE DEF F, NoReason, Missed, TaxedZero, OffTax
<1>8. F = {} <=> ~("10" \in F \/ "BR-45" \in F \/ "BR-46" \in F
                   \/ "08" \in F \/ "09" \in F \/ "CO-17" \in F)
  BY <1>7
<1>9. F = {} <=> Whole /\ ~NoReason /\ ~Missed /\ ~TaxedZero /\ ~OffTax
  BY <1>1, <1>2, <1>3, <1>4, <1>5, <1>6, <1>8
<1>10. QED  BY <1>9 DEF F, NoReason, Missed, TaxedZero, OffTax

\* Without an amount there is no group, and without a group an entry is wrong, whether
\* it has its amounts or reads zero.
LEMMA SameVerdict ==
    ASSUME NEW doc, NEW d, NEW e \in Entries, NEW z,
           Key(e) \in Groups(doc) => e.taxable \in Int /\ e.tax \in Int,
           Groups(d) = Groups(doc), \A key : AmountOf(d, key) = AmountOf(doc, key),
           z = WithZeros(e)
    PROVE  EntryFindings(d, z) = {} <=> EntryFindings(doc, e) = {}
<1>1. CASE e.taxable \in Int /\ e.tax \in Int
  <2>1. z \in Entries  BY ZerosType
  <2>2. z = e  BY <1>1, ZerosType
  <2>3. Miss(d, e) = Miss(doc, e)  BY DEF Miss
  <2>4. EntryFindings(d, e) = {} <=> EntryFindings(doc, e) = {}
    BY <2>3, NothingFound
  <2>5. QED  BY <2>2, <2>4
<1>2. CASE ~(e.taxable \in Int /\ e.tax \in Int)
  <2>1. e.taxable = Unset \/ e.tax = Unset  BY <1>2, EntryType DEF Amounts
  <2>2. EntryFindings(doc, e) # {}  BY <2>1, NothingFound
  <2>3. Key(z) = Key(e) /\ z.category = e.category  BY ZerosType
  <2>4. Key(z) \notin Groups(d)  BY <1>2, <2>3
  <2>5. Miss(d, z) = Unit  BY <2>4 DEF Miss
  <2>6. Miss(d, z) >= (IF z.category \in Taxed THEN Unit ELSE 1)  BY <2>5 DEF Unit
  <2>7. EntryFindings(d, z) # {}  BY <2>6, NothingFound
  <2>8. QED  BY <2>2, <2>7
<1>3. QED  BY <1>1, <1>2

\* "A round-trip re-renders what the issuer stated."
LEMMA ReadAgain ==
    ASSUME NEW doc \in Invoices
    PROVE  LET d == ReadDocument(doc, Rendering(doc)) IN
           /\ d \in Invoices /\ d.breakdown # <<>>
           /\ \A i \in DOMAIN d.breakdown : d.breakdown[i].taxable # Unset
           /\ Rendering(d) = Rendering(doc)
<1>1. PICK d : d = ReadDocument(doc, Rendering(doc))  OBVIOUS
<1>2. PICK b : b = Breakdown(doc)  OBVIOUS
<1>3. PICK ts : ts = TotalsOf(doc, b)  OBVIOUS
<1>4. b \in Seq(Entries)  BY <1>2, BreakdownType
<1>5. PICK z : z = d.breakdown  OBVIOUS
<1>6. ReadFrom(d, doc, b, ts)  BY <1>1, <1>2, <1>3, WhatIsRead
<1>7. /\ d \in Invoices /\ d.allowances = doc.allowances /\ d.charges = doc.charges
      /\ DOMAIN d.lines = DOMAIN doc.lines
      /\ \A i \in DOMAIN d.lines : /\ Net(d.lines[i]) = Net(doc.lines[i])
                                   /\ Key(d.lines[i]) = Key(doc.lines[i])
      /\ z # <<>> /\ z = [i \in DOMAIN b |-> WithZeros(b[i])]
      /\ d.totals = ts.effective
  BY <1>5, <1>6 DEF ReadFrom
<1>8. /\ Groups(d) = Groups(doc) /\ \A key : AmountOf(d, key) = AmountOf(doc, key)
      /\ LineSum(d) = LineSum(doc)
  BY <1>7, SameGroups
<1>9. z \in Seq(Entries)  BY <1>5, <1>7, DocumentParts
<1>10. DOMAIN z = DOMAIN b /\ \A i \in DOMAIN b :
          /\ b[i] \in Entries /\ z[i] = WithZeros(b[i])
  BY <1>4, <1>7
<1>11. \A i \in DOMAIN b : /\ z[i] \in Entries /\ z[i].taxable \in Int /\ z[i].tax \in Int
                          /\ z[i].tax = Zero(b[i].tax) /\ z[i].category = b[i].category
                          /\ WithZeros(z[i]) = WithZeros(b[i])
  <2> SUFFICES ASSUME NEW i \in DOMAIN b
               PROVE  /\ z[i] \in Entries /\ z[i].taxable \in Int /\ z[i].tax \in Int
                      /\ z[i].tax = Zero(b[i].tax) /\ z[i].category = b[i].category
                      /\ WithZeros(z[i]) = WithZeros(b[i])
    OBVIOUS
  <2>1. PICK e : e = b[i]  OBVIOUS
  <2>2. PICK y : y = z[i]  OBVIOUS
  <2>3. e \in Entries /\ y = WithZeros(e)  BY <1>10, <2>1, <2>2
  <2>4. /\ y \in Entries /\ y.taxable \in Int /\ y.tax \in Int /\ y.tax = Zero(e.tax)
        /\ y.category = e.category /\ WithZeros(y) = y
    BY <2>3, ZerosType
  <2>5. QED  BY <2>1, <2>2, <2>3, <2>4
<1>12. Breakdown(d) = z
  <2>1. DOMAIN Breakdown(d) = DOMAIN z /\ Breakdown(d) \in Seq(Entries)
    BY <1>5, <1>7, StatedBreakdown
  <2>2. \A i \in DOMAIN z : z[i].taxable \in Int /\ z[i].tax \in Int  BY <1>10, <1>11
  <2>3. \A i \in DOMAIN z : Breakdown(d)[i] = z[i]
    <3> SUFFICES ASSUME NEW i \in DOMAIN z PROVE Breakdown(d)[i] = z[i]
      OBVIOUS
    <3>1. d \in Invoices /\ d.breakdown # <<>> /\ i \in DOMAIN d.breakdown  BY <1>5, <1>7
    <3>2. d.breakdown[i].taxable \in Int /\ d.breakdown[i].tax \in Int =>
             Breakdown(d)[i] = d.breakdown[i]
      BY <3>1, StatedBreakdown
    <3>3. QED  BY <1>5, <2>2, <3>2
  <2>4. Len(Breakdown(d)) = Len(z)  BY <1>9, <2>1, LenProperties
  <2>5. QED  BY <1>9, <2>1, <2>3, <2>4, SeqEqual
<1>13. TaxSum(z) = TaxSum(b)
  <2>1. [i \in DOMAIN z |-> Zero(z[i].tax)] = [i \in DOMAIN b |-> Zero(b[i].tax)]
    <3>1. \A i \in DOMAIN b : Zero(z[i].tax) = Zero(b[i].tax)  BY <1>11, ValueType
    <3>2. QED  BY <1>10, <3>1
  <2>2. QED  BY <2>1 DEF TaxSum, SumOf
<1>14. PICK c : c = ComputedTotals(doc, b)  OBVIOUS
<1>15. /\ ts.computed = c /\ ts.effective \in [Members -> Amounts]
       /\ \A m \in Members : /\ ts.effective[m] = Given(doc.totals[m], c[m])
                             /\ ts.effective[m] = Unset => c[m] = Unset
  BY <1>3, <1>4, <1>14, EffectiveMembers
<1>16. c.prepaid = doc.totals.prepaid /\ c.rounding = doc.totals.rounding
  BY <1>4, <1>14, ComputedMembers
<1>17. d.totals.prepaid = doc.totals.prepaid /\ d.totals.rounding = doc.totals.rounding
  BY <1>7, <1>15, <1>16 DEF Members, Given
<1>18. ComputedTotals(d, z) = c
  BY <1>7, <1>8, <1>13, <1>14, <1>17 DEF ComputedTotals, LineSum, TaxSum
<1>19. Effective(d.totals, c) = ts.effective
  BY <1>7, <1>15 DEF Effective, Given
<1>20. TotalsOf(d, z) = ts
  BY <1>3, <1>14, <1>15, <1>18, <1>19 DEF TotalsOf
<1>21. \A category : CountOf(z, category) = CountOf(b, category)
  <2>1. \A category : {i \in DOMAIN z : z[i].category = category} =
                      {i \in DOMAIN b : b[i].category = category}
    BY <1>10, <1>11
  <2>2. QED  BY <2>1 DEF CountOf
<1>22. PresenceFindings(d, z) = PresenceFindings(doc, b)  BY <1>8, <1>21 DEF PresenceFindings
<1>23. (\A i \in DOMAIN z : EntryFindings(d, z[i]) = {})
          <=> (\A i \in DOMAIN b : EntryFindings(doc, b[i]) = {})
  <2>1. \A i \in DOMAIN b : EntryFindings(d, z[i]) = {} <=> EntryFindings(doc, b[i]) = {}
    <3> SUFFICES ASSUME NEW i \in DOMAIN b
                 PROVE  EntryFindings(d, z[i]) = {} <=> EntryFindings(doc, b[i]) = {}
      OBVIOUS
    <3>1. b[i] \in Entries  BY <1>4
    <3>2. Key(b[i]) \in Groups(doc) => b[i].taxable \in Int /\ b[i].tax \in Int
      BY <1>2, BreakdownType
    <3>3. z[i] = WithZeros(b[i])  BY <1>10
    <3>4. QED  BY <1>8, <3>1, <3>2, <3>3, SameVerdict
  <2>2. QED  BY <1>10, <2>1
<1>24. Accepted(d, z, ts) = Accepted(doc, b, ts)  BY <1>22, <1>23 DEF Accepted
<1>25. [i \in DOMAIN d.lines |-> Net(d.lines[i])] = [i \in DOMAIN doc.lines |-> Net(doc.lines[i])]
  BY <1>7
<1>26. [i \in DOMAIN z |-> WithZeros(z[i])] = [i \in DOMAIN b |-> WithZeros(b[i])]
  BY <1>10, <1>11
<1>27. Rendered(d, z, ts) = Rendered(doc, b, ts)  BY <1>24, <1>25, <1>26 DEF Rendered
<1>28. Rendering(d) = Rendering(doc)  BY <1>2, <1>3, <1>12, <1>20, <1>27 DEF Rendering
<1>29. \A i \in DOMAIN z : z[i].taxable # Unset  BY <1>10, <1>11, InvoiceChoices
<1>30. QED  BY <1>1, <1>5, <1>7, <1>28, <1>29

-----------------------------------------------------------------------------
(* The invariant.                                                          *)

InvoiceInv ==
    /\ stage \in {"authored", "rendered", "refused", "read"}
    /\ document \in Invoices
    /\ entries \in {<<>>, Breakdown(document)}
    /\ totals # <<>> => entries # <<>> /\ totals = TotalsOf(document, entries)
    /\ stage # "read" => \A i \in DOMAIN document.breakdown :
          document.breakdown[i].reason = (document.breakdown[i].category \in Exempt)
    /\ stage = "read" => /\ document.breakdown # <<>>
                         /\ \A i \in DOMAIN document.breakdown :
                               document.breakdown[i].taxable # Unset
    /\ stage \in {"rendered", "read"} => wire = Rendering(document)

LEMMA BoundedSequences ==
    ASSUME NEW S, NEW T, S \subseteq T, NEW n \in Nat
    PROVE  SeqOf(S, n) \subseteq Seq(T)
<1> SUFFICES ASSUME NEW s \in SeqOf(S, n) PROVE s \in Seq(T)
  OBVIOUS
<1>1. PICK m \in 0..n : s \in [1..m -> S]  BY DEF SeqOf
<1>2. m \in Nat /\ s \in [1..m -> T]  BY <1>1
<1>3. QED  BY <1>2

\* What an author writes is a document.
LEMMA AuthoredDocuments ==
    ASSUME InvoiceInit
    PROVE  /\ document \in Invoices
           /\ \A i \in DOMAIN document.breakdown :
                 document.breakdown[i].reason = (document.breakdown[i].category \in Exempt)
<1>1. LineChoices \subseteq Lines /\ PartChoices \subseteq Parts /\ EntryChoices \subseteq Entries
  <2>1. \A c \in LineChoices \cup PartChoices \cup EntryChoices : TaxedByRate(c)
    BY InvoiceChoices DEF TaxedByRate
  <2>2. QED  BY <2>1, InvoiceChoices DEF Lines, Parts, Entries
<1>2. MaxLines \in Nat /\ MaxParts \in Nat /\ MaxEntries \in Nat
      /\ TotalsChoices \subseteq [Members -> Amounts]
  BY InvoiceChoices
<1>3. /\ SeqOf(LineChoices, MaxLines) \subseteq Seq(Lines)
      /\ SeqOf(PartChoices, MaxParts) \subseteq Seq(Parts)
      /\ SeqOf(EntryChoices, MaxEntries) \subseteq Seq(Entries)
  BY <1>1, <1>2, BoundedSequences
<1>4. document \in Invoices  BY <1>2, <1>3 DEF InvoiceInit, Invoices
<1>5. document.breakdown \in SeqOf(EntryChoices, MaxEntries)  BY DEF InvoiceInit
<1>6. \A i \in DOMAIN document.breakdown : document.breakdown[i] \in EntryChoices
  BY <1>2, <1>5 DEF SeqOf
<1>7. QED  BY <1>4, <1>6, InvoiceChoices

\* InvoiceInv is inductive: the breakdown and the totals are those of the document, and
\* the document that was read back renders as the one it was read from.
THEOREM InvoiceInvariant == InvoiceSpec => []InvoiceInv
<1>1. InvoiceInit => InvoiceInv
  <2> SUFFICES ASSUME InvoiceInit PROVE InvoiceInv
    OBVIOUS
  <2>1. QED  BY AuthoredDocuments DEF InvoiceInv, InvoiceInit
<1>2. InvoiceInv /\ [InvoiceNext]_invoiceVars => InvoiceInv'
  <2> SUFFICES ASSUME InvoiceInv, [InvoiceNext]_invoiceVars PROVE InvoiceInv'
    OBVIOUS
  <2>1. CASE UNCHANGED invoiceVars
    BY <2>1 DEF InvoiceInv, invoiceVars
  <2>2. CASE BreakDown
    BY <2>2 DEF InvoiceInv, BreakDown
  <2>3. CASE AddUp
    BY <2>3 DEF InvoiceInv, AddUp
  <2>4. CASE Render
    <3>1. entries # <<>> /\ entries = Breakdown(document) /\ totals = TotalsOf(document, entries)
      BY <2>4 DEF InvoiceInv, Render
    <3>2. wire' = Rendering(document)  BY <2>4, <3>1 DEF Render, Rendering
    <3>3. QED  BY <2>4, <3>2 DEF InvoiceInv, Render
  <2>5. CASE ReadBack
    <3>1. PICK d : d = ReadDocument(document, wire)  OBVIOUS
    <3>2. /\ document' = d /\ stage' = "read" /\ entries' = <<>> /\ totals' = <<>>
          /\ wire' = wire /\ wire = Rendering(document) /\ document \in Invoices
      BY <2>5, <3>1 DEF InvoiceInv, ReadBack
    <3>3. /\ d \in Invoices /\ d.breakdown # <<>>
          /\ \A i \in DOMAIN d.breakdown : d.breakdown[i].taxable # Unset
          /\ Rendering(d) = Rendering(document)
      BY <3>1, <3>2, ReadAgain
    <3>4. QED  BY <3>2, <3>3 DEF InvoiceInv
  <2>6. QED  BY <2>1, <2>2, <2>3, <2>4, <2>5 DEF InvoiceNext
<1>3. QED  BY <1>1, <1>2, PTL DEF InvoiceSpec

\* The amounts are amounts: a total is unset only where nothing was summed or stated.
THEOREM InvoiceTypes == InvoiceSpec => []InvoiceTypeOK
<1>1. InvoiceInv => InvoiceTypeOK
  <2> SUFFICES ASSUME InvoiceInv PROVE InvoiceTypeOK
    OBVIOUS
  <2>1. document \in Invoices  BY DEF InvoiceInv
  <2>2. \A i \in DOMAIN document.lines : document.lines[i].exact \in Int
    <3>1. document.lines \in Seq(Lines)  BY <2>1, DocumentParts
    <3>2. QED  BY <3>1 DEF Lines
  <2>3. totals # <<>> => \A m \in DOMAIN document.totals :
           {totals.computed[m], totals.effective[m]} \subseteq
               Int \cup {u \in {Unset} : m \in {"allowance", "charge", "prepaid", "rounding"}}
    <3> SUFFICES ASSUME totals # <<>>, NEW m \in DOMAIN document.totals
                 PROVE  {totals.computed[m], totals.effective[m]} \subseteq
                           Int \cup {u \in {Unset} : m \in {"allowance", "charge", "prepaid", "rounding"}}
      OBVIOUS
    <3>1. m \in Members  BY <2>1, DocumentParts
    <3>2. PICK b : b = Breakdown(document)  OBVIOUS
    <3>3. totals = TotalsOf(document, b)  BY <3>2 DEF InvoiceInv
    <3>4. b \in Seq(Entries)  BY <2>1, <3>2, BreakdownType
    <3>5. PICK c : c = ComputedTotals(document, b)  OBVIOUS
    <3>6. c \in [Members -> Amounts] /\ \A n \in Members \ MayBeUnset : c[n] \in Int
      BY <2>1, <3>4, <3>5, ComputedMembers
    <3>7. /\ totals.computed = c /\ totals.effective \in [Members -> Amounts]
          /\ \A n \in Members : n \notin MayBeUnset => totals.effective[n] \in Int
      BY <2>1, <3>3, <3>4, <3>5, EffectiveMembers
    <3>8. PICK x, y : x = totals.computed[m] /\ y = totals.effective[m]  OBVIOUS
    <3>9. /\ x \in Amounts /\ y \in Amounts
          /\ m \notin MayBeUnset => x \in Int /\ y \in Int
      BY <3>1, <3>6, <3>7, <3>8
    <3>10. QED  BY <3>8, <3>9 DEF Amounts, MayBeUnset
  <2>4. QED  BY <2>2, <2>3 DEF InvoiceInv, InvoiceTypeOK
<1>2. QED  BY <1>1, InvoiceInvariant, PTL

\* A document that was read back renders to the same amounts and is judged the same,
\* also one that was rendered without validation and does not add up.
THEOREM WhatWasStatedIsRendered == InvoiceSpec => []RoundTrips
<1>1. InvoiceInv => RoundTrips
  BY DEF InvoiceInv, RoundTrips, Rendering
<1>2. QED  BY <1>1, InvoiceInvariant, PTL

-----------------------------------------------------------------------------
(* What was computed adds up.                                              *)

\* Amounts that are summed in the group of their key, each group once.
LEMMA SumByKey ==
    ASSUME NEW J, IsFiniteSet(J), NEW k, NEW a, \A j \in J : a[j] \in Int,
           NEW I, IsFiniteSet(I), NEW K, \A i, l \in I : K[i] = K[l] => i = l,
           \A j \in J : \E i \in I : K[i] = k[j],
           NEW m, \A i \in I : m[i] = SumFunctionOnSet(Selected(J, k, a, K[i]), J)
    PROVE  SumFunctionOnSet(m, I) = SumFunctionOnSet(a, J)
<1>1. PICK w : w = [j \in J |-> CHOOSE i \in I : K[i] = k[j]]  OBVIOUS
<1>2. \A j \in J : w[j] \in I /\ K[w[j]] = k[j]  BY <1>1
<1>3. w \in [J -> I]  BY <1>1, <1>2
<1>4. \A i \in I : m[i] = SumFunctionOnSet(Selected(J, w, a, i), J)
  <2> SUFFICES ASSUME NEW i \in I
               PROVE  m[i] = SumFunctionOnSet(Selected(J, w, a, i), J)
    OBVIOUS
  <2>1. \A j \in J : k[j] = K[i] <=> w[j] = i  BY <1>2
  <2>2. Selected(J, k, a, K[i]) = Selected(J, w, a, i)  BY <2>1 DEF Selected
  <2>3. QED  BY <2>2
<1>5. QED  BY <1>3, <1>4, SumByGroup

\* A breakdown with one entry for each group of the document, as it is computed.
Adds(doc, b) ==
    /\ b \in Seq(Entries)
    /\ \A i \in DOMAIN b : /\ Key(b[i]) \in Groups(doc) /\ IsComputed(doc, b[i])
                           /\ b[i].taxable \in Int /\ b[i].tax \in Int
                           /\ b[i].category \in Exempt => b[i].reason
    /\ \A i, j \in DOMAIN b : Key(b[i]) = Key(b[j]) => i = j
    /\ \A key \in Groups(doc) : \E i \in DOMAIN b : Key(b[i]) = key

LEMMA NothingStatedAdds ==
    ASSUME NEW doc \in Invoices, NoSumStated(doc),
           \A i \in DOMAIN doc.breakdown :
              doc.breakdown[i].reason = (doc.breakdown[i].category \in Exempt)
    PROVE  Adds(doc, Breakdown(doc))
<1>1. PICK b : b = Breakdown(doc)  OBVIOUS
<1>2. CASE doc.breakdown = <<>>
  <2>1. \A key \in Groups(doc) : key.category \notin Exempt  BY <1>2 DEF NoSumStated
  <2>2. /\ b \in Seq(Entries)
        /\ \A i \in DOMAIN b : /\ Key(b[i]) \in Groups(doc) /\ b[i].taxable \in Int
                               /\ b[i].tax \in Int /\ IsComputed(doc, b[i])
        /\ \A i, j \in DOMAIN b : Key(b[i]) = Key(b[j]) => i = j
        /\ \A key \in Groups(doc) : \E i \in DOMAIN b : Key(b[i]) = key
    BY <1>1, <1>2, ComputedBreakdown
  <2>3. \A i \in DOMAIN b : b[i].category \notin Exempt
    <3> SUFFICES ASSUME NEW i \in DOMAIN b PROVE b[i].category \notin Exempt
      OBVIOUS
    <3>1. Key(b[i]) \in Groups(doc)  BY <2>2
    <3>2. Key(b[i]).category = b[i].category  BY DEF Key
    <3>3. QED  BY <2>1, <3>1, <3>2
  <2>4. QED  BY <1>1, <2>2, <2>3 DEF Adds
<1>3. CASE doc.breakdown # <<>>
  <2>1. PICK s : s = doc.breakdown  OBVIOUS
  <2>2. s \in Seq(Entries)  BY <2>1, DocumentParts
  <2>3. PICK n : n = Len(s)  OBVIOUS
  <2>4. n \in Nat /\ DOMAIN s = 1..n  BY <2>2, <2>3, LenProperties
  <2>5. /\ \A e \in ToSet(s) : e.taxable = Unset /\ e.tax = Unset
        /\ Groups(doc) = {Key(e) : e \in ToSet(s)} /\ Cardinality(Groups(doc)) = n
    BY <1>3, <2>1, <2>3 DEF NoSumStated
  <2>6. \A i \in 1..n : s[i] \in ToSet(s) /\ s[i].taxable = Unset /\ s[i].tax = Unset
    BY <2>4, <2>5 DEF ToSet
  <2>7. \A key \in Groups(doc) : \E i \in 1..n : Key(s[i]) = key
    BY <2>4, <2>5 DEF ToSet
  <2>8. \A i \in 1..n : Key(s[i]) \in Groups(doc)  BY <2>5, <2>6
  <2>9. PICK f : f = [i \in 1..n |-> Key(s[i])]  OBVIOUS
  <2>10. f \in Surjection(1..n, Groups(doc))  BY <2>7, <2>8, <2>9 DEF Surjection
  <2>11. IsFiniteSet(1..n) /\ Cardinality(1..n) = n  BY <2>4, FS_Interval
  <2>12. f \in Injection(1..n, Groups(doc))  BY <2>5, <2>10, <2>11, FS_Surjection
  <2>13. \A i, j \in 1..n : Key(s[i]) = Key(s[j]) => i = j
    BY <2>9, <2>12 DEF Injection, IsInjective
  <2>14. /\ b \in Seq(Entries) /\ DOMAIN b = DOMAIN s
         /\ \A i \in DOMAIN s :
               /\ b[i].category = s[i].category /\ b[i].reason = s[i].reason
               /\ Key(b[i]) = Key(s[i])
               /\ Key(b[i]) \in Groups(doc) => b[i].taxable \in Int /\ b[i].tax \in Int
               /\ s[i].taxable = Unset /\ s[i].tax = Unset /\ Key(b[i]) \in Groups(doc) =>
                     IsComputed(doc, b[i])
    BY <1>1, <1>3, <2>1, StatedBreakdown
  <2>15. \A i \in 1..n : s[i].reason = (s[i].category \in Exempt)  BY <2>1, <2>4
  <2>16. ASSUME NEW i \in 1..n
         PROVE  /\ Key(b[i]) = Key(s[i]) /\ Key(b[i]) \in Groups(doc) /\ IsComputed(doc, b[i])
                /\ b[i].taxable \in Int /\ b[i].tax \in Int
                /\ b[i].category \in Exempt => b[i].reason
    <3>1. Key(b[i]) = Key(s[i]) /\ Key(b[i]) \in Groups(doc)  BY <2>4, <2>8, <2>14
    <3>2. s[i].taxable = Unset /\ s[i].tax = Unset  BY <2>6
    <3>3. b[i].category = s[i].category /\ b[i].reason = s[i].reason  BY <2>4, <2>14
    <3>4. b[i].category \in Exempt => b[i].reason  BY <2>15, <3>3
    <3>5. QED  BY <2>4, <2>14, <3>1, <3>2, <3>4
  <2>17. QED  BY <1>1, <2>4, <2>7, <2>13, <2>14, <2>16 DEF Adds
<1>4. QED  BY <1>2, <1>3

\* Summed over the groups, what one kind of part adds is its sum.
LEMMA SharesAddUp ==
    ASSUME NEW doc \in Invoices, NEW b, Adds(doc, b), NEW I, I = DOMAIN b
    PROVE  /\ \A g : g = [i \in I |-> NetShare(doc.lines, Key(b[i]))] =>
                 SumFunctionOnSet(g, I) = LineSum(doc)
           /\ \A g : g = [i \in I |-> Share(doc.allowances, Key(b[i]))] =>
                 SumFunctionOnSet(g, I) = AmountSum(doc.allowances)
           /\ \A g : g = [i \in I |-> Share(doc.charges, Key(b[i]))] =>
                 SumFunctionOnSet(g, I) = AmountSum(doc.charges)
<1>1. PICK K : K = [i \in I |-> Key(b[i])]  OBVIOUS
<1>2. /\ \A i, l \in I : K[i] = K[l] => i = l
      /\ \A key \in Groups(doc) : \E i \in I : K[i] = key
  BY <1>1 DEF Adds
<1>3. IsFiniteSet(I)
  <2>1. b \in Seq(Entries)  BY DEF Adds
  <2>2. Len(b) \in Nat /\ I = 1..Len(b)  BY <2>1, LenProperties
  <2>3. QED  BY <2>2, FS_Interval
<1>4. /\ doc.lines \in Seq(Lines) /\ doc.allowances \in Seq(Parts) /\ doc.charges \in Seq(Parts)
  BY DocumentParts
<1>5. ASSUME NEW g, g = [i \in I |-> NetShare(doc.lines, Key(b[i]))]
      PROVE  SumFunctionOnSet(g, I) = LineSum(doc)
  <2>1. PICK J : J = DOMAIN doc.lines  OBVIOUS
  <2>2. PICK k : k = [j \in J |-> Key(doc.lines[j])]  OBVIOUS
  <2>3. PICK a : a = [j \in J |-> Net(doc.lines[j])]  OBVIOUS
  <2>4. \A j \in J : doc.lines[j] \in Lines  BY <1>4, <2>1
  <2>5. \A j \in J : a[j] \in Int  BY <2>3, <2>4, NetType
  <2>6. \A j \in J : \E i \in I : K[i] = k[j]  BY <1>2, <2>1, <2>2, GroupsType
  <2>7. DOMAIN a = J  BY <2>3
  <2>8. IsFiniteSet(J) /\ SumFunction(a) = SumFunctionOnSet(a, J)
    BY <1>4, <2>1, <2>5, <2>7, SumOverSeq
  <2>9. LineSum(doc) = SumFunction(a)  BY <2>1, <2>3 DEF LineSum, SumOf
  <2>10. \A i \in I : g[i] = SumFunctionOnSet(Selected(J, k, a, K[i]), J)
    <3> SUFFICES ASSUME NEW i \in I
                 PROVE  g[i] = SumFunctionOnSet(Selected(J, k, a, K[i]), J)
      OBVIOUS
    <3>1. PICK h : h = NetTo(doc.lines, K[i])  OBVIOUS
    <3>2. h = Selected(J, k, a, K[i])
      BY <2>1, <2>2, <2>3, <3>1 DEF NetTo, Selected
    <3>3. DOMAIN h = J  BY <3>2 DEF Selected
    <3>4. g[i] = SumFunction(h)  BY <1>1, <1>4, <1>5, <3>1, ShareType
    <3>5. SumFunction(h) = SumFunctionOnSet(h, J)  BY <3>3 DEF SumFunction
    <3>6. QED  BY <3>2, <3>4, <3>5
  <2>11. SumFunctionOnSet(g, I) = SumFunctionOnSet(a, J)
    BY <1>2, <1>3, <2>5, <2>6, <2>8, <2>10, SumByKey
  <2>12. QED  BY <2>8, <2>9, <2>11
<1>6. ASSUME NEW parts \in Seq(Parts), \A j \in DOMAIN parts : Key(parts[j]) \in Groups(doc),
             NEW g, g = [i \in I |-> Share(parts, Key(b[i]))]
      PROVE  SumFunctionOnSet(g, I) = AmountSum(parts)
  <2>1. PICK J : J = DOMAIN parts  OBVIOUS
  <2>2. PICK k : k = [j \in J |-> Key(parts[j])]  OBVIOUS
  <2>3. PICK a : a = [j \in J |-> parts[j].amount]  OBVIOUS
  <2>4. \A j \in J : parts[j] \in Parts  BY <2>1
  <2>5. \A j \in J : a[j] \in Int  BY <2>3, <2>4, PartType
  <2>6. \A j \in J : \E i \in I : K[i] = k[j]  BY <1>2, <1>6, <2>1, <2>2
  <2>7. DOMAIN a = J  BY <2>3
  <2>8. IsFiniteSet(J) /\ SumFunction(a) = SumFunctionOnSet(a, J)
    BY <2>1, <2>5, <2>7, SumOverSeq
  <2>9. AmountSum(parts) = SumFunction(a)  BY <2>1, <2>3 DEF AmountSum, SumOf
  <2>10. \A i \in I : g[i] = SumFunctionOnSet(Selected(J, k, a, K[i]), J)
    <3> SUFFICES ASSUME NEW i \in I
                 PROVE  g[i] = SumFunctionOnSet(Selected(J, k, a, K[i]), J)
      OBVIOUS
    <3>1. PICK h : h = AmountTo(parts, K[i])  OBVIOUS
    <3>2. h = Selected(J, k, a, K[i])
      BY <2>1, <2>2, <2>3, <3>1 DEF AmountTo, Selected
    <3>3. DOMAIN h = J  BY <3>2 DEF Selected
    <3>4. g[i] = SumFunction(h)  BY <1>1, <1>6, <3>1, ShareType
    <3>5. SumFunction(h) = SumFunctionOnSet(h, J)  BY <3>3 DEF SumFunction
    <3>6. QED  BY <3>2, <3>4, <3>5
  <2>11. SumFunctionOnSet(g, I) = SumFunctionOnSet(a, J)
    BY <1>2, <1>3, <2>5, <2>6, <2>8, <2>10, SumByKey
  <2>12. QED  BY <2>8, <2>9, <2>11
<1>7. QED  BY <1>4, <1>5, <1>6, GroupsType

\* The taxable amounts sum to the total without VAT.
LEMMA TaxableSum ==
    ASSUME NEW doc \in Invoices, NEW b, Adds(doc, b)
    PROVE  /\ SumOf(b, LAMBDA e : e.taxable) =
                 LineSum(doc) - AmountSum(doc.allowances) + AmountSum(doc.charges)
           /\ SumOf(b, LAMBDA e : e.taxable + e.tax) =
                 SumOf(b, LAMBDA e : e.taxable) + TaxSum(b)
           /\ SumOf(b, LAMBDA e : e.taxable) \in Int
<1>1. PICK I : I = DOMAIN b  OBVIOUS
<1>2. b \in Seq(Entries) /\ \A i \in I : /\ b[i].taxable \in Int /\ b[i].tax \in Int
                                         /\ b[i].taxable = AmountOf(doc, Key(b[i]))
  BY <1>1 DEF Adds, IsComputed
<1>3. IsFiniteSet(I)
  <2>1. Len(b) \in Nat /\ I = 1..Len(b)  BY <1>1, <1>2, LenProperties
  <2>2. QED  BY <2>1, FS_Interval
<1>4. PICK n, a, c : /\ n = [i \in I |-> NetShare(doc.lines, Key(b[i]))]
                     /\ a = [i \in I |-> Share(doc.allowances, Key(b[i]))]
                     /\ c = [i \in I |-> Share(doc.charges, Key(b[i]))]
  OBVIOUS
<1>5. PICK t, x : t = [i \in I |-> b[i].taxable] /\ x = [i \in I |-> b[i].tax]  OBVIOUS
<1>6. /\ SumFunctionOnSet(n, I) = LineSum(doc)
      /\ SumFunctionOnSet(a, I) = AmountSum(doc.allowances)
      /\ SumFunctionOnSet(c, I) = AmountSum(doc.charges)
  BY <1>1, <1>4, SharesAddUp
<1>7. \A i \in I : /\ n[i] \in Int /\ a[i] \in Int /\ c[i] \in Int
                   /\ t[i] \in Int /\ x[i] \in Int /\ t[i] = n[i] - a[i] + c[i]
  <2>1. /\ doc.lines \in Seq(Lines) /\ doc.allowances \in Seq(Parts) /\ doc.charges \in Seq(Parts)
    BY DocumentParts
  <2>2. \A i \in I : n[i] \in Int /\ a[i] \in Int /\ c[i] \in Int  BY <1>4, <2>1, ShareType
  <2>3. \A i \in I : t[i] = n[i] - a[i] + c[i]  BY <1>2, <1>4, <1>5 DEF AmountOf
  <2>4. QED  BY <1>2, <1>5, <2>2, <2>3
<1>8. PICK d : d = [i \in I |-> n[i] - a[i]]  OBVIOUS
<1>9. \A i \in I : d[i] \in Int /\ a[i] \in Int /\ n[i] = d[i] + a[i]  BY <1>7, <1>8
<1>10. \A i \in I : d[i] \in Int /\ c[i] \in Int /\ t[i] = d[i] + c[i]  BY <1>7, <1>8
<1>11. SumFunctionOnSet(n, I) = SumFunctionOnSet(d, I) + SumFunctionOnSet(a, I)
  BY <1>3, <1>9, SumAdds
<1>12. SumFunctionOnSet(t, I) = SumFunctionOnSet(d, I) + SumFunctionOnSet(c, I)
  BY <1>3, <1>10, SumAdds
<1>13. PICK sn, sa, sc, sd, st :
          /\ sn = SumFunctionOnSet(n, I) /\ sa = SumFunctionOnSet(a, I)
          /\ sc = SumFunctionOnSet(c, I) /\ sd = SumFunctionOnSet(d, I)
          /\ st = SumFunctionOnSet(t, I)
  OBVIOUS
<1>14. sn \in Int /\ sa \in Int /\ sc \in Int /\ sd \in Int /\ st \in Int
  BY <1>3, <1>7, <1>9, <1>13, SumType
<1>15. sn = sd + sa /\ st = sd + sc  BY <1>11, <1>12, <1>13
<1>16. st = sn - sa + sc  BY <1>14, <1>15
<1>17. SumOf(b, LAMBDA e : e.taxable) = st
  <2>1. DOMAIN t = I  BY <1>5
  <2>2. QED  BY <1>1, <1>5, <1>13, <2>1 DEF SumOf, SumFunction
<1>18. SumOf(b, LAMBDA e : e.taxable + e.tax) = st + TaxSum(b)
  <2>1. PICK h : h = [i \in I |-> b[i].taxable + b[i].tax]  OBVIOUS
  <2>2. \A i \in I : t[i] \in Int /\ x[i] \in Int /\ h[i] = t[i] + x[i]  BY <1>5, <1>7, <2>1
  <2>3. SumFunctionOnSet(h, I) = SumFunctionOnSet(t, I) + SumFunctionOnSet(x, I)
    BY <1>3, <2>2, SumAdds
  <2>4. SumOf(b, LAMBDA e : e.taxable + e.tax) = SumFunctionOnSet(h, I)
    <3>1. DOMAIN h = I  BY <2>1
    <3>2. QED  BY <1>1, <2>1, <3>1 DEF SumOf, SumFunction
  <2>5. TaxSum(b) = SumFunctionOnSet(x, I)
    <3>1. \A i \in I : Zero(b[i].tax) = b[i].tax  BY <1>2, ValueType
    <3>2. [i \in DOMAIN b |-> Zero(b[i].tax)] = x  BY <1>1, <1>5, <3>1
    <3>3. DOMAIN x = I  BY <1>5
    <3>4. QED  BY <3>2, <3>3 DEF TaxSum, SumOf, SumFunction
  <2>6. QED  BY <1>13, <2>3, <2>4, <2>5
<1>19. QED  BY <1>6, <1>13, <1>14, <1>16, <1>17, <1>18

\* The tax of a group is its rate's share of what is taxed, to half a cent.
LEMMA TaxIsClose ==
    ASSUME NEW taxable \in Int, NEW category, NEW rate \in Nat, category \in Taxed <=> rate > 0,
           NEW tax, tax = TaxOn(taxable, category, rate)
    PROVE  /\ tax \in Int /\ Abs(100 * tax - taxable * rate) <= 50
           /\ category \notin Taxed => tax = 0
           /\ category \in Taxed => Abs(tax) = TaxOn(Abs(taxable), category, rate)
<1>1. PICK p : p = taxable * rate  OBVIOUS
<1>2. p \in Int  BY <1>1
<1>3. CASE category \in Taxed
  <2>1. tax = Rounded(p, 100)  BY <1>1, <1>3 DEF TaxOn
  <2>2. tax \in Int /\ -50 <= 100 * tax - p /\ 100 * tax - p <= 50  BY <1>2, <2>1, RoundedTaxes
  <2>3. Abs(100 * tax - p) <= 50  BY <1>2, <2>2 DEF Abs
  <2>4. Abs(taxable) * rate = Abs(p)
    <3>1. CASE taxable >= 0
      <4>1. p >= 0  BY <1>1, <3>1
      <4>2. QED  BY <1>1, <1>2, <3>1, <4>1 DEF Abs
    <3>2. CASE taxable < 0
      <4>1. p <= 0 /\ (-taxable) * rate = -p  BY <1>1, <3>2
      <4>2. Abs(taxable) = -taxable  BY <3>2 DEF Abs
      <4>3. Abs(p) = -p  BY <1>2, <4>1 DEF Abs
      <4>4. QED  BY <4>1, <4>2, <4>3
    <3>3. QED  BY <3>1, <3>2
  <2>5. TaxOn(Abs(taxable), category, rate) = Rounded(Abs(p), 100)  BY <1>3, <2>4 DEF TaxOn
  <2>6. Abs(tax) = Rounded(Abs(p), 100)  BY <1>2, <2>1 DEF Abs, Rounded
  <2>7. QED  BY <1>1, <1>3, <2>2, <2>3, <2>5, <2>6
<1>4. CASE category \notin Taxed
  <2>1. tax = 0 /\ rate = 0  BY <1>4 DEF TaxOn
  <2>2. p = 0  BY <1>1, <2>1
  <2>3. Abs(100 * tax - p) <= 50  BY <2>1, <2>2 DEF Abs
  <2>4. QED  BY <1>1, <1>4, <2>1, <2>3
<1>5. QED  BY <1>3, <1>4

\* What the rules say of a computed breakdown: nothing.
LEMMA AddsIsAccepted ==
    ASSUME NEW doc \in Invoices, NEW b, Adds(doc, b)
    PROVE  /\ PresenceFindings(doc, b) = {}
           /\ \A i \in DOMAIN b : EntryFindings(doc, b[i]) = {}
           /\ \A i \in DOMAIN b : Abs(100 * b[i].tax - b[i].taxable * b[i].rate) <= 50
<1>1. /\ b \in Seq(Entries)
      /\ \A i, j \in DOMAIN b : Key(b[i]) = Key(b[j]) => i = j
      /\ \A key \in Groups(doc) : \E i \in DOMAIN b : Key(b[i]) = key
  BY DEF Adds
<1>2. IsFiniteSet(DOMAIN b)
  <2>1. Len(b) \in Nat /\ DOMAIN b = 1..Len(b)  BY <1>1, LenProperties
  <2>2. QED  BY <2>1, FS_Interval
<1>3. ASSUME NEW key \in Groups(doc)
      PROVE  /\ CountOf(b, key.category) \in Nat /\ CountOf(b, key.category) # 0
             /\ key.category \notin Taxed => CountOf(b, key.category) = 1
  <2>1. PICK i \in DOMAIN b : Key(b[i]) = key  BY <1>1
  <2>2. b[i].category = key.category  BY <2>1 DEF Key
  <2>3. PICK Q : Q = {j \in DOMAIN b : b[j].category = key.category}  OBVIOUS
  <2>4. Q \in SUBSET DOMAIN b /\ i \in Q  BY <2>2, <2>3
  <2>5. IsFiniteSet(Q)  BY <1>2, <2>4, FS_Subset
  <2>6. Cardinality(Q) \in Nat /\ Cardinality(Q) # 0
    BY <2>4, <2>5, FS_CardinalityType, FS_EmptySet
  <2>7. key.category \notin Taxed => Q = {i}
    <3> SUFFICES ASSUME key.category \notin Taxed, NEW j \in Q PROVE j = i
      BY <2>4
    <3>1. j \in DOMAIN b /\ b[j].category = key.category  BY <2>3
    <3>2. b[i] \in Entries /\ b[j] \in Entries  BY <1>1, <3>1
    <3>3. b[i].rate = 0 /\ b[j].rate = 0
      BY <2>2, <3>1, <3>2 DEF Entries, TaxedByRate
    <3>4. Key(b[i]) = Key(b[j])  BY <2>2, <3>1, <3>3 DEF Key
    <3>5. QED  BY <1>1, <3>1, <3>4
  <2>8. key.category \notin Taxed => Cardinality(Q) = 1  BY <2>7, FS_Singleton
  <2>9. QED  BY <2>3, <2>6, <2>8 DEF CountOf
<1>4. PresenceFindings(doc, b) = {}
  <2>1. \A c \in {key.category : key \in Groups(doc)} :
           ~(CountOf(b, c) = 0 \/ (c \notin Taxed /\ CountOf(b, c) > 1))
    <3> SUFFICES ASSUME NEW key \in Groups(doc)
                 PROVE  ~(\/ CountOf(b, key.category) = 0
                          \/ key.category \notin Taxed /\ CountOf(b, key.category) > 1)
      OBVIOUS
    <3>1. QED  BY <1>3
  <2>2. QED  BY <2>1 DEF PresenceFindings
<1>5. ASSUME NEW i \in DOMAIN b
      PROVE  /\ EntryFindings(doc, b[i]) = {}
             /\ Abs(100 * b[i].tax - b[i].taxable * b[i].rate) <= 50
  <2>1. PICK e : e = b[i]  OBVIOUS
  <2>2. /\ e \in Entries /\ Key(e) \in Groups(doc) /\ IsComputed(doc, e)
        /\ e.taxable \in Int /\ e.tax \in Int /\ (e.category \in Exempt => e.reason)
    BY <2>1 DEF Adds
  <2>3. e.rate \in Nat /\ (e.category \in Taxed <=> e.rate > 0)
    BY <2>2 DEF Entries, TaxedByRate
  <2>4. e.taxable = AmountOf(doc, Key(e)) /\ e.tax = TaxOn(e.taxable, e.category, e.rate)
    BY <2>2 DEF IsComputed
  <2>5. PICK x, y, c, q : x = e.taxable /\ y = e.tax /\ c = e.category /\ q = e.rate  OBVIOUS
  <2>6. x \in Int /\ q \in Nat /\ (c \in Taxed <=> q > 0) /\ y = TaxOn(x, c, q)
    BY <2>2, <2>3, <2>4, <2>5
  <2>7. /\ y \in Int /\ Abs(100 * y - x * q) <= 50 /\ (c \notin Taxed => y = 0)
        /\ c \in Taxed => Abs(y) = TaxOn(Abs(x), c, q)
    BY <2>6, TaxIsClose
  <2>8. Miss(doc, e) = 0
    <3>1. Miss(doc, e) = Abs(x - x)  BY <2>2, <2>4, <2>5 DEF Miss
    <3>2. QED  BY <2>6, <3>1 DEF Abs
  <2>9. ~(Miss(doc, e) >= (IF e.category \in Taxed THEN Unit ELSE 1))  BY <2>8 DEF Unit
  <2>10. ~(c \in Taxed /\ Abs(Abs(y) - TaxOn(Abs(x), c, q)) >= Unit)
    <3>1. PICK n : n = Abs(y)  OBVIOUS
    <3>2. n \in Int  BY <2>7, <3>1 DEF Abs
    <3>3. Abs(n - n) = 0  BY <3>2 DEF Abs
    <3>4. c \in Taxed => Abs(Abs(y) - TaxOn(Abs(x), c, q)) = 0  BY <2>7, <3>1, <3>3
    <3>5. QED  BY <3>4 DEF Unit
  <2>11. e.taxable # Unset /\ e.tax # Unset  BY <2>2, InvoiceChoices
  <2>12. EntryFindings(doc, e) = {}
    <3>1. ~(e.category \in Exempt /\ ~e.reason)  BY <2>2
    <3>2. ~(e.category \notin Taxed /\ e.tax # 0)  BY <2>5, <2>7
    <3>3. ~(/\ e.category \in Taxed
            /\ Abs(Abs(e.tax) - TaxOn(Abs(e.taxable), e.category, e.rate)) >= Unit)
      BY <2>5, <2>10
    <3>4. QED  BY <2>9, <2>11, <3>1, <3>2, <3>3, NothingFound
  <2>13. QED  BY <2>1, <2>5, <2>7, <2>12
<1>6. QED  BY <1>4, <1>5

\* Where no sum is stated the effective totals are the computed ones.
LEMMA TotalsAreAccepted ==
    ASSUME NEW doc \in Invoices, NoSumStated(doc), NEW b \in Seq(Entries),
           NEW ts, ts = TotalsOf(doc, b)
    PROVE  /\ ts.effective = ComputedTotals(doc, b)
           /\ SumFindings(ts) = {} /\ FormulaFindings(ts.effective) = {}
<1>1. PICK c : c = ComputedTotals(doc, b)  OBVIOUS
<1>2. /\ ts.computed = c /\ ts.effective \in [Members -> Amounts]
      /\ \A m \in Members : ts.effective[m] = Given(doc.totals[m], c[m])
  BY <1>1, EffectiveMembers
<1>3. /\ c \in [Members -> Amounts] /\ \A m \in Members \ MayBeUnset : c[m] \in Int
      /\ c.prepaid = doc.totals.prepaid /\ c.rounding = doc.totals.rounding
      /\ c.exclusive = c.lines - Zero(c.allowance) + Zero(c.charge)
      /\ c.inclusive = c.exclusive + c.vat
      /\ c.payable = c.inclusive - Zero(c.prepaid) + Zero(c.rounding)
  BY <1>1, ComputedMembers
<1>4. \A m \in Members : Given(doc.totals[m], c[m]) = c[m]
  <2>1. DOMAIN doc.totals = Members  BY DocumentParts
  <2>2. \A m \in Members \ {"prepaid", "rounding"} : doc.totals[m] = Unset
    BY <2>1 DEF NoSumStated
  <2>3. \A m \in Members : doc.totals[m] = Unset \/ doc.totals[m] = c[m]
    BY <1>3, <2>2
  <2>4. QED  BY <2>3 DEF Given
<1>5. ts.effective = c  BY <1>2, <1>3, <1>4
<1>6. SumFindings(ts) = {}  BY <1>2, <1>5 DEF SumFindings
<1>7. FormulaFindings(c) = {}
  <2>1. c.lines \in Int /\ c.exclusive \in Int /\ c.vat \in Int /\ c.inclusive \in Int
    BY <1>3 DEF Members, MayBeUnset
  <2>2. /\ Zero(c.lines) = c.lines /\ Zero(c.exclusive) = c.exclusive /\ Zero(c.vat) = c.vat
        /\ Zero(c.inclusive) = c.inclusive
    BY <2>1, ValueType
  <2>3. /\ c.exclusive = Zero(c.lines) - Zero(c.allowance) + Zero(c.charge)
        /\ c.inclusive = Zero(c.exclusive) + Zero(c.vat)
        /\ c.payable = Zero(c.inclusive) - Zero(c.prepaid) + Zero(c.rounding)
    BY <1>3, <2>2
  <2>4. QED  BY <2>3 DEF FormulaFindings
<1>8. QED  BY <1>1, <1>5, <1>6, <1>7

\* Where the author states no sum, the breakdown and the totals agree, each group's tax
\* is exact to half a cent, and the rules accept what was computed.
THEOREM WhatIsComputedAddsUp == InvoiceSpec => []ComputedAddsUp
<1>1. InvoiceInv => ComputedAddsUp
  <2> SUFFICES ASSUME InvoiceInv, totals # <<>>, NoSumStated(document)
               PROVE  LET t == totals.effective IN
                      /\ t.exclusive = SumOf(entries, LAMBDA e : e.taxable)
                      /\ t.payable = SumOf(entries, LAMBDA e : e.taxable + e.tax)
                                     - Zero(t.prepaid) + Zero(t.rounding)
                      /\ \A e \in ToSet(entries) : Abs(100 * e.tax - e.taxable * e.rate) <= 50
                      /\ Accepted(document, entries, totals)
    BY DEF ComputedAddsUp
  <2>1. document \in Invoices /\ stage \in {"authored", "rendered", "refused", "read"}
    BY DEF InvoiceInv
  <2>2. entries = Breakdown(document) /\ totals = TotalsOf(document, entries)
    BY DEF InvoiceInv
  <2>3. stage # "read"
    <3>1. SUFFICES ASSUME stage = "read" PROVE FALSE
      OBVIOUS
    <3>2. PICK s : s = document.breakdown  OBVIOUS
    <3>3. s # <<>> /\ \A i \in DOMAIN s : s[i].taxable # Unset  BY <3>1, <3>2 DEF InvoiceInv
    <3>4. s \in Seq(Entries)  BY <2>1, <3>2, DocumentParts
    <3>5. Len(s) \in Nat /\ Len(s) # 0 /\ DOMAIN s = 1..Len(s)
      BY <3>3, <3>4, EmptySeq, LenProperties
    <3>6. 1 \in DOMAIN s  BY <3>5
    <3>7. s[1] \in ToSet(s)  BY <3>6 DEF ToSet
    <3>8. s[1].taxable = Unset  BY <3>2, <3>7 DEF NoSumStated
    <3>9. QED  BY <3>3, <3>6, <3>8
  <2>4. \A i \in DOMAIN document.breakdown :
           document.breakdown[i].reason = (document.breakdown[i].category \in Exempt)
    BY <2>3 DEF InvoiceInv
  <2>5. Adds(document, entries)  BY <2>1, <2>2, <2>4, NothingStatedAdds
  <2>6. entries \in Seq(Entries)  BY <2>5 DEF Adds
  <2>7. PICK c : c = ComputedTotals(document, entries)  OBVIOUS
  <2>8. totals.effective = c /\ SumFindings(totals) = {} /\ FormulaFindings(totals.effective) = {}
    BY <2>1, <2>2, <2>6, <2>7, TotalsAreAccepted
  <2>9. /\ PresenceFindings(document, entries) = {}
        /\ \A i \in DOMAIN entries : EntryFindings(document, entries[i]) = {}
        /\ \A i \in DOMAIN entries :
              Abs(100 * entries[i].tax - entries[i].taxable * entries[i].rate) <= 50
    BY <2>1, <2>5, AddsIsAccepted
  <2>10. PICK sum, both : /\ sum = SumOf(entries, LAMBDA e : e.taxable)
                          /\ both = SumOf(entries, LAMBDA e : e.taxable + e.tax)
    OBVIOUS
  <2>11. /\ sum = LineSum(document) - AmountSum(document.allowances) + AmountSum(document.charges)
         /\ both = sum + TaxSum(entries)
    BY <2>1, <2>5, <2>10, TaxableSum
  <2>12. /\ c.exclusive = LineSum(document) - AmountSum(document.allowances)
                             + AmountSum(document.charges)
         /\ c.vat = TaxSum(entries) /\ c.inclusive = c.exclusive + c.vat
         /\ c.payable = c.inclusive - Zero(c.prepaid) + Zero(c.rounding)
    BY <2>1, <2>6, <2>7, ComputedMembers
  <2>13. c.exclusive = sum /\ c.payable = both - Zero(c.prepaid) + Zero(c.rounding)
    BY <2>11, <2>12
  <2>14. \A e \in ToSet(entries) : Abs(100 * e.tax - e.taxable * e.rate) <= 50
    BY <2>9 DEF ToSet
  <2>15. Accepted(document, entries, totals)  BY <2>8, <2>9 DEF Accepted
  <2>16. QED  BY <2>8, <2>10, <2>13, <2>14, <2>15
<1>2. QED  BY <1>1, InvoiceInvariant, PTL
=============================================================================
