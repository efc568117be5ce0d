------------------------- MODULE KeyringStoreProofs -------------------------
(***************************************************************************)
(* The keyring store's invariants for every number of processes and every  *)
(* way to cut token sets into entries: that a settled set is loaded, and   *)
(* that whole writes leave nothing behind; and that the store is a         *)
(* register where every set fits in one entry.                             *)
(***************************************************************************)
EXTENDS KeyringStore, TLAPS

USE MaxChunksType, ChunksType, MarkersDiffer DEF Places, Writing

\* What a load makes of the chunks it read is a set or a way to fail.
LEMMA OutcomesType ==
    ASSUME NEW s \in Seq(Gens)
    PROVE  Outcomes(s) \subseteq Gens \cup {None, Unreadable, Mixed}
<1>1. s # <<>> => s[1] \in Gens
  OBVIOUS
<1>2. QED
  BY <1>1 DEF Outcomes

\* All the chunks of one set, in order and nothing else, parse as that set.
LEMMA OutcomesWhole ==
    ASSUME NEW s \in Seq(Gens), NEW g \in Gens,
           Len(s) = Chunks[g],
           \A i \in 1..Len(s) : s[i] = g
    PROVE  Outcomes(s) = {g}
<1>1. Len(s) \in Nat /\ Len(s) >= 1
  OBVIOUS
<1>2. s # <<>>
  BY <1>1
<1>3. s[1] = g /\ s[Len(s)] = g
  BY <1>1
<1>4. \A i \in 1..(Len(s) - 1) : Chunks[s[i]] > i
  BY <1>1
<1>5. Closed(s)
  BY <1>3, <1>4 DEF Closed
<1>6. \A i \in 1..Len(s) : s[i] = s[1]
  BY <1>3
<1>7. QED
  BY <1>2, <1>3, <1>5, <1>6 DEF Outcomes

\* The initial state satisfies the inductive invariant.
LEMMA InitStoreInv == Init => StoreInv
<1> SUFFICES ASSUME Init PROVE StoreInv
  OBVIOUS
<1>1. TypeOK
  BY DEF Init, TypeOK
<1>2. Writers = {}
  BY DEF Init, Writers
<1>3. (\A p \in Procs : Written(p)) /\ Settled /\ Calm /\ SettledIsLoaded
  BY <1>2 DEF Init, Written, Settled, Calm, SettledIsLoaded
<1>4. QED
  BY <1>1, <1>3 DEF StoreInv

\* While a process writes, nothing is settled and no other operation is calm.
LEMMA WriterAlone ==
    ASSUME TypeOK, Settled, Calm, NEW p \in Procs, pc[p] \in Writing
    PROVE  settled = Unsettled /\ \A q \in Procs : calm[q] => q = p
<1>1. p \in Writers
  BY DEF Writers
<1>2. QED
  BY <1>1 DEF Settled, Calm

-----------------------------------------------------------------------------
(* Every step of every operation preserves the invariant.                  *)

\* The start of a save or a clear.
LEMMA BeginKeeps ==
    ASSUME StoreInv, NEW p \in Procs, NEW set \in Gens \cup {None}, NEW place,
           BeginWrite(p, set, place),
           \/ place = "writing" /\ set \in Gens
           \/ place = "pruning" /\ set = None
    PROVE  StoreInv'
<1> USE DEF BeginWrite
<1>1. TypeOK /\ (\A q \in Procs : Written(q)) /\ Calm
  BY DEF StoreInv
<1>2. TypeOK'
  BY <1>1 DEF TypeOK
<1>3. ASSUME NEW q \in Procs PROVE Written(q)'
  <2>1. CASE q = p
    <3>1. at[p] = 0 /\ parts[p] = <<>>
      BY <1>1 DEF Written
    <3>2. UNCHANGED <<at, parts>> /\ pc'[p] = place /\ what'[p] = set
      BY <1>1 DEF TypeOK
    <3>3. set \in Gens => 0 < Chunks[set]
      OBVIOUS
    <3>4. \A g : Holds(g, 0)'
      BY DEF Holds
    <3>5. QED
      BY <2>1, <3>1, <3>2, <3>3, <3>4 DEF Written
  <2>2. CASE q # p
    BY <1>1, <2>2 DEF TypeOK, Written, Holds
  <2>3. QED
    BY <2>1, <2>2
<1>4. Settled'
  BY <1>1 DEF TypeOK, Settled
<1>5. \A q \in Procs : calm'[q] => q = p /\ Writers' \subseteq {p}
  BY <1>1 DEF TypeOK, Writers
<1>6. Calm'
  BY <1>1, <1>5 DEF TypeOK, Calm
<1>7. SettledIsLoaded'
  BY <1>1 DEF TypeOK, SettledIsLoaded
<1>8. QED
  BY <1>2, <1>3, <1>4, <1>6, <1>7 DEF StoreInv

\* A chunk is written.
LEMMA SetPasswordKeeps ==
    ASSUME StoreInv, NEW p \in Procs, SetPassword(p)
    PROVE  StoreInv'
<1> USE DEF SetPassword
<1>1. TypeOK /\ (\A q \in Procs : Written(q)) /\ Settled /\ Calm /\ SettledIsLoaded
  BY DEF StoreInv
<1>2. settled = Unsettled /\ \A q \in Procs : calm[q] => q = p
  BY <1>1, WriterAlone
<1>3. what[p] \in Gens /\ at[p] < Chunks[what[p]] /\ at[p] \in 0..MaxChunks
  BY <1>1 DEF TypeOK, Written
<1>4. Chunks[what[p]] \in 1..MaxChunks
  BY <1>3
<1>5. TypeOK'
  BY <1>1, <1>3, <1>4 DEF TypeOK
<1>6. calm[p] => Holds(what[p], at[p])'
  BY <1>1, <1>3, <1>4 DEF TypeOK, Written, Holds
<1>7. ASSUME NEW q \in Procs PROVE Written(q)'
  <2>1. CASE q = p
    BY <1>1, <1>3, <1>4, <1>6, <2>1 DEF TypeOK, Written, Holds
  <2>2. CASE q # p
    BY <1>1, <1>2, <2>2 DEF TypeOK, Written
  <2>3. QED
    BY <2>1, <2>2
<1>8. Settled' /\ SettledIsLoaded'
  BY <1>1, <1>2 DEF TypeOK, Settled, SettledIsLoaded
<1>9. Calm'
  BY <1>1, <1>2 DEF TypeOK, Calm, Writers
<1>10. QED
  BY <1>5, <1>7, <1>8, <1>9 DEF StoreInv

\* A write stops, completed or not; others see nothing of it.
LEMMA StopKeeps ==
    ASSUME StoreInv, NEW p \in Procs, pc[p] \in Writing, Stop(p),
           UNCHANGED <<entry, got>>,
           calm' = [calm EXCEPT ![p] = FALSE], whole' \in BOOLEAN,
           \/ settled' = settled
           \/ settled' = what[p] /\ calm[p] /\ pc[p] = "pruning" /\ entry[at[p]] = None
    PROVE  StoreInv'
<1> USE DEF Stop
<1>1. TypeOK /\ (\A q \in Procs : Written(q)) /\ Settled /\ Calm /\ SettledIsLoaded
  BY DEF StoreInv
<1>2. settled = Unsettled /\ \A q \in Procs : calm[q] => q = p
  BY <1>1, WriterAlone
<1>3. TypeOK'
  BY <1>1 DEF TypeOK
<1>4. ASSUME NEW q \in Procs PROVE Written(q)'
  BY <1>1, <1>2 DEF TypeOK, Written
<1>5. \A q \in Procs : ~calm'[q]
  BY <1>1, <1>2 DEF TypeOK
<1>6. Calm' /\ SettledIsLoaded'
  BY <1>5 DEF Calm, SettledIsLoaded
<1>7. Settled'
  <2>1. CASE settled' = settled
    BY <1>2, <2>1 DEF Settled
  <2>2. CASE settled' = what[p] /\ calm[p] /\ pc[p] = "pruning" /\ entry[at[p]] = None
    <3>1. Writers' = {}
      BY <1>1, <2>2 DEF TypeOK, Calm, Writers
    <3>2. what[p] \in Gens =>
              Holds(what[p], Chunks[what[p]]) /\ entry[Chunks[what[p]]] = None
      <4>1. HAVE what[p] \in Gens
      <4>2. at[p] >= Chunks[what[p]] /\ Holds(what[p], Chunks[what[p]])
        BY <1>1, <2>2, <4>1 DEF Written
      <4>3. at[p] > Chunks[what[p]] => entry[Chunks[what[p]]] = None
        BY <1>1, <2>2, <4>1 DEF Written
      <4>4. at[p] \in 0..MaxChunks /\ Chunks[what[p]] \in 1..MaxChunks
        BY <1>1, <4>1 DEF TypeOK
      <4>5. at[p] = Chunks[what[p]] \/ at[p] > Chunks[what[p]]
        BY <4>2, <4>4
      <4>6. QED
        BY <2>2, <4>2, <4>3, <4>5
    <3>3. what[p] = None => entry[0] = None
      BY <1>1, <2>2 DEF TypeOK, Written
    <3>4. QED
      BY <2>2, <3>1, <3>2, <3>3 DEF Settled, Holds
  <2>3. QED
    BY <2>1, <2>2
<1>8. QED
  BY <1>3, <1>4, <1>6, <1>7 DEF StoreInv
\* "Is there an entry at `index`?"
LEMMA ProbeKeeps ==
    ASSUME StoreInv, NEW p \in Procs, Probe(p)
    PROVE  StoreInv'
<1>1. TypeOK /\ (\A q \in Procs : Written(q)) /\ Settled /\ Calm /\ SettledIsLoaded
  BY DEF StoreInv
<1>2. CASE entry[at[p]] = None
  <2>1. pc[p] = "pruning" /\ Complete(p)
    BY <1>2 DEF Probe
  <2>2. \/ settled' = settled
        \/ settled' = what[p] /\ calm[p] /\ pc[p] = "pruning" /\ entry[at[p]] = None
    BY <1>1, <1>2, <2>1 DEF Complete, TypeOK
  <2>3. /\ Stop(p) /\ UNCHANGED <<entry, got>> /\ calm' = [calm EXCEPT ![p] = FALSE]
        /\ whole' \in BOOLEAN
    BY <1>1, <2>1 DEF Complete, TypeOK
  <2>4. QED
    BY <2>1, <2>2, <2>3, StopKeeps
<1>3. CASE entry[at[p]] # None
  <2>1. /\ pc[p] = "pruning"
        /\ pc' = [pc EXCEPT ![p] = "dropping"]
        /\ UNCHANGED <<entry, at, what, parts, got, settled, calm, whole>>
    BY <1>3 DEF Probe
  <2>2. TypeOK'
    BY <1>1, <2>1 DEF TypeOK
  <2>3. \A q \in Procs : Written(q)'
    BY <1>1, <2>1 DEF TypeOK, Written, Holds
  <2>4. Writers' = Writers
    BY <1>1, <2>1 DEF TypeOK, Writers
  <2>5. Settled' /\ Calm'
    BY <1>1, <2>1, <2>4 DEF TypeOK, Settled, Holds, Calm
  <2>6. SettledIsLoaded'
    BY <1>1, <2>1 DEF TypeOK, SettledIsLoaded
  <2>7. QED
    BY <2>2, <2>3, <2>5, <2>6 DEF StoreInv
<1>4. QED
  BY <1>2, <1>3

\* A stale entry is deleted.
LEMMA DeletePasswordKeeps ==
    ASSUME StoreInv, NEW p \in Procs, DeletePassword(p)
    PROVE  StoreInv'
<1>1. TypeOK /\ (\A q \in Procs : Written(q)) /\ Settled /\ Calm /\ SettledIsLoaded
  BY DEF StoreInv
<1>2. pc[p] = "dropping"
  BY DEF DeletePassword
<1>3. CASE entry[at[p]] = None
  <2>1. /\ Stop(p) /\ calm' = [calm EXCEPT ![p] = FALSE] /\ UNCHANGED <<entry, got, settled, whole>>
    BY <1>3 DEF DeletePassword
  <2>2. whole' \in BOOLEAN
    BY <1>1, <2>1 DEF TypeOK
  <2>3. QED
    BY <1>2, <2>1, <2>2, StopKeeps
<1>4. CASE entry[at[p]] # None
  <2>1. /\ entry' = [entry EXCEPT ![at[p]] = None]
        /\ at' = [at EXCEPT ![p] = at[p] + 1]
        /\ pc' = [pc EXCEPT ![p] = "pruning"]
        /\ UNCHANGED <<what, parts, got, settled, calm, whole>>
    BY <1>4 DEF DeletePassword
  <2>2. settled = Unsettled /\ \A q \in Procs : calm[q] => q = p
    BY <1>1, <1>2, WriterAlone
  <2>3. at[p] \in 0..MaxChunks /\ at[p] # MaxChunks
    BY <1>1, <1>4 DEF TypeOK
  <2>4. TypeOK'
    BY <1>1, <2>1, <2>3 DEF TypeOK
  <2>5. ASSUME NEW q \in Procs PROVE Written(q)'
    <3>1. CASE q # p
      BY <1>1, <2>1, <2>2, <3>1 DEF TypeOK, Written
    <3>2. CASE q = p
      <4>1. /\ pc'[p] = "pruning" /\ parts'[p] = <<>>
            /\ at'[p] = at[p] + 1 /\ what'[p] = what[p] /\ calm'[p] = calm[p]
        BY <1>1, <1>2, <2>1 DEF TypeOK, Written
      <4>2. ASSUME what[p] \in Gens
            PROVE  /\ at[p] >= Chunks[what[p]]
                   /\ calm[p] => Holds(what[p], Chunks[what[p]])'
                   /\ calm[p] => entry'[Chunks[what[p]]] = None
        <5>1. Chunks[what[p]] \in 1..MaxChunks
          BY <4>2
        <5>2. /\ at[p] >= Chunks[what[p]]
              /\ calm[p] => Holds(what[p], Chunks[what[p]])
              /\ calm[p] /\ at[p] > Chunks[what[p]] => entry[Chunks[what[p]]] = None
          BY <1>1, <1>2, <4>2 DEF Written
        <5>3. \A i \in 0..MaxChunks : entry'[i] = IF i = at[p] THEN None ELSE entry[i]
          BY <1>1, <2>1, <2>3 DEF TypeOK
        <5>4. calm[p] => Holds(what[p], Chunks[what[p]])'
          <6>1. SUFFICES ASSUME calm[p], NEW i \in 0..(Chunks[what[p]] - 1)
                         PROVE  entry'[i] = what[p]
            BY <5>1, <2>1 DEF Holds
          <6>2. i \in 0..MaxChunks /\ i # at[p]
            BY <2>3, <5>1, <5>2
          <6>3. QED
            BY <5>2, <5>3, <6>1, <6>2 DEF Holds
        <5>5. at[p] = Chunks[what[p]] \/ at[p] > Chunks[what[p]]
          BY <2>3, <5>1, <5>2
        <5>6. calm[p] => entry'[Chunks[what[p]]] = None
          BY <5>1, <5>2, <5>3, <5>5
        <5>7. QED
          BY <5>2, <5>4, <5>6
      <4>3. ASSUME what[p] = None, calm[p] PROVE entry'[0] = None
        <5>1. at[p] > 0 => entry[0] = None
          BY <1>1, <1>2, <4>3 DEF Written
        <5>2. QED
          BY <1>1, <2>1, <2>3, <5>1 DEF TypeOK
      <4>4. at[p] + 1 >= 1 /\ (what[p] \in Gens /\ at[p] >= Chunks[what[p]] =>
                at[p] + 1 >= Chunks[what[p]])
        BY <2>3
      <4>5. QED
        BY <3>2, <4>1, <4>2, <4>3, <4>4 DEF Written
    <3>3. QED
      BY <3>1, <3>2
  <2>6. Settled' /\ SettledIsLoaded'
    BY <1>1, <2>1, <2>2 DEF TypeOK, Settled, SettledIsLoaded
  <2>7. Calm'
    BY <1>1, <2>1, <2>2 DEF TypeOK, Calm, Writers
  <2>8. QED
    BY <2>4, <2>5, <2>6, <2>7 DEF StoreInv
<1>5. QED
  BY <1>3, <1>4

\* The start of a load.
LEMMA LoadKeeps ==
    ASSUME StoreInv, NEW p \in Procs, Load(p)
    PROVE  StoreInv'
<1> USE DEF Load
<1>1. TypeOK /\ (\A q \in Procs : Written(q)) /\ Settled /\ Calm /\ SettledIsLoaded
  BY DEF StoreInv
<1>2. Writers' = Writers
  BY <1>1 DEF TypeOK, Writers
<1>3. TypeOK'
  BY <1>1 DEF TypeOK
<1>4. ASSUME NEW q \in Procs PROVE Written(q)'
  BY <1>1 DEF TypeOK, Written, Holds
<1>5. Settled'
  BY <1>1, <1>2 DEF Settled, Holds
<1>6. parts[p] = <<>>
  BY <1>1 DEF Written
<1>7. Calm'
  <2>1. \A q \in Procs : q # p => calm'[q] = calm[q] /\ pc'[q] = pc[q]
    BY <1>1 DEF TypeOK
  <2>2. calm'[p] => Writers' = {}
    BY <1>1, <1>2 DEF TypeOK
  <2>3. 1..Len(parts'[p]) = {}
    BY <1>6
  <2>4. ASSUME NEW q \in Procs, calm'[q]
        PROVE  /\ Writers' \subseteq {q}
               /\ pc'[q] = "loading" /\ settled' # Unsettled =>
                     \A i \in 1..Len(parts'[q]) : parts'[q][i] = entry'[i - 1]
    <3>1. CASE q = p
      BY <2>2, <2>3, <2>4, <3>1
    <3>2. CASE q # p
      BY <1>1, <1>2, <2>1, <2>4, <3>2 DEF Calm
    <3>3. QED
      BY <3>1, <3>2
  <2>5. QED
    BY <2>4 DEF Calm
<1>8. SettledIsLoaded'
  BY <1>1 DEF TypeOK, SettledIsLoaded
<1>9. QED
  BY <1>3, <1>4, <1>5, <1>7, <1>8 DEF StoreInv
\* What a calm load of a settled store returns at its end.
LEMMA LoadedIsSettled ==
    ASSUME StoreInv, NEW p \in Procs, pc[p] = "loading", calm[p],
           settled # Unsettled, entry[Len(parts[p])] = None
    PROVE  Outcomes(parts[p]) = {settled}
<1>1. TypeOK /\ Settled /\ Calm
  BY DEF StoreInv
<1> DEFINE s == parts[p]
           n == Len(s)
<1>2. s \in Seq(Gens) /\ n \in Nat /\ n <= MaxChunks
  BY <1>1 DEF TypeOK
<1>3. \A i \in 1..n : s[i] = entry[i - 1] /\ s[i] \in Gens
  BY <1>1, <1>2 DEF Calm
<1>4. CASE settled = None
  <2>1. entry[0] = None
    BY <1>1, <1>4 DEF Settled
  <2>2. n = 0
    <3>1. SUFFICES ASSUME n # 0 PROVE FALSE
      OBVIOUS
    <3>2. 1 \in 1..n /\ 1 - 1 = 0
      BY <1>2, <3>1
    <3>3. entry[0] \in Gens
      BY <1>3, <3>2
    <3>4. QED
      BY <2>1, <3>3
  <2>3. s = <<>>
    BY <1>2, <2>2
  <2>4. QED
    BY <1>4, <2>3 DEF Outcomes
<1>5. CASE settled \in Gens
  <2>1. Chunks[settled] \in 1..MaxChunks
    BY <1>5
  <2>2. /\ \A i \in 0..(Chunks[settled] - 1) : entry[i] = settled
        /\ entry[Chunks[settled]] = None
    BY <1>1, <1>5 DEF Settled, Holds
  <2>3. ~(n < Chunks[settled])
    <3>1. SUFFICES ASSUME n < Chunks[settled] PROVE FALSE
      OBVIOUS
    <3>2. n \in 0..(Chunks[settled] - 1)
      BY <1>2, <2>1, <3>1
    <3>3. entry[n] = settled
      BY <2>2, <3>2
    <3>4. QED
      BY <1>5, <3>3
  <2>4. ~(n > Chunks[settled])
    <3>1. SUFFICES ASSUME n > Chunks[settled] PROVE FALSE
      OBVIOUS
    <3>2. Chunks[settled] + 1 \in 1..n /\ (Chunks[settled] + 1) - 1 = Chunks[settled]
      BY <1>2, <2>1, <3>1
    <3>3. entry[Chunks[settled]] \in Gens
      BY <1>3, <3>2
    <3>4. QED
      BY <2>2, <3>3
  <2>5. n = Chunks[settled]
    BY <1>2, <2>1, <2>3, <2>4
  <2>6. \A i \in 1..n : s[i] = settled
    <3>1. TAKE i \in 1..n
    <3>2. i - 1 \in 0..(Chunks[settled] - 1)
      BY <2>1, <2>5
    <3>3. QED
      BY <1>3, <2>2, <3>2
  <2>7. QED
    BY <1>2, <1>5, <2>5, <2>6, OutcomesWhole
<1>6. QED
  BY <1>1, <1>4, <1>5 DEF TypeOK

\* The next entry is read.
LEMMA GetPasswordKeeps ==
    ASSUME StoreInv, NEW p \in Procs, GetPassword(p)
    PROVE  StoreInv'
<1>1. TypeOK /\ (\A q \in Procs : Written(q)) /\ Settled /\ Calm /\ SettledIsLoaded
  BY DEF StoreInv
<1>2. pc[p] = "loading" /\ UNCHANGED <<entry, settled, calm, whole>>
  BY DEF GetPassword
<1>3. CASE entry[Len(parts[p])] = None
  <2>1. PICK o \in Outcomes(parts[p]) : got' = [got EXCEPT ![p] = o]
    BY <1>3 DEF GetPassword
  <2>2. Stop(p)
    BY <1>3 DEF GetPassword
  <2>3. o \in Gens \cup {None, Unreadable, Mixed}
    BY <1>1, <2>1, OutcomesType DEF TypeOK
  <2>4. TypeOK'
    BY <1>1, <1>2, <2>1, <2>2, <2>3 DEF TypeOK, Stop
  <2>5. Writers' = Writers
    BY <1>1, <1>2, <2>2 DEF TypeOK, Writers, Stop
  <2>6. \A q \in Procs : Written(q)'
    BY <1>1, <1>2, <2>2 DEF TypeOK, Written, Stop, Holds
  <2>7. Settled' /\ Calm'
    BY <1>1, <1>2, <2>2, <2>5 DEF TypeOK, Settled, Calm, Stop, Holds
  <2>8. calm[p] => settled \in {o, Unsettled}
    BY <1>2, <1>3, <2>1, LoadedIsSettled
  <2>9. SettledIsLoaded'
    BY <1>1, <1>2, <2>1, <2>2, <2>8 DEF TypeOK, SettledIsLoaded, Stop
  <2>10. QED
    BY <2>4, <2>6, <2>7, <2>9 DEF StoreInv
<1>4. CASE entry[Len(parts[p])] # None
  <2> DEFINE n == Len(parts[p])
  <2>1. /\ parts' = [parts EXCEPT ![p] = Append(parts[p], entry[n])]
        /\ UNCHANGED <<pc, at, what, got>>
    BY <1>4 DEF GetPassword
  <2>2. parts[p] \in Seq(Gens) /\ n \in 0..MaxChunks /\ n # MaxChunks /\ entry[n] \in Gens
    BY <1>1, <1>4 DEF TypeOK
  <2>3. /\ parts'[p] \in Seq(Gens) /\ Len(parts'[p]) = n + 1
        /\ parts'[p][n + 1] = entry[n]
        /\ \A i \in 1..n : parts'[p][i] = parts[p][i]
    BY <1>1, <2>1, <2>2 DEF TypeOK
  <2>4. \A q \in Procs : q # p => parts'[q] = parts[q]
    BY <1>1, <2>1 DEF TypeOK
  <2>5. parts' \in [Procs -> Seq(Gens)]
    BY <1>1, <2>1, <2>2, <2>3 DEF TypeOK
  <2>6. ASSUME NEW q \in Procs PROVE Len(parts'[q]) <= MaxChunks
    <3>1. n + 1 <= MaxChunks
      BY <2>2
    <3>2. CASE q = p
      BY <2>3, <3>1, <3>2
    <3>3. CASE q # p
      BY <1>1, <2>4, <3>3 DEF TypeOK
    <3>4. QED
      BY <3>2, <3>3
  <2>7. TypeOK'
    BY <1>1, <1>2, <2>1, <2>5, <2>6 DEF TypeOK
  <2>8. Writers' = Writers
    BY <2>1 DEF Writers
  <2>9. \A q \in Procs : Written(q)'
    BY <1>1, <1>2, <2>1, <2>4 DEF Written, Holds
  <2>10. Settled' /\ SettledIsLoaded'
    BY <1>1, <1>2, <2>1, <2>8 DEF Settled, Holds, SettledIsLoaded
  <2>11. calm[p] /\ settled # Unsettled =>
             \A i \in 1..(n + 1) : parts'[p][i] = entry[i - 1]
    <3>1. SUFFICES ASSUME calm[p], settled # Unsettled, NEW i \in 1..(n + 1)
                   PROVE  parts'[p][i] = entry[i - 1]
      OBVIOUS
    <3>2. CASE i = n + 1
      BY <2>2, <2>3, <3>2
    <3>3. CASE i \in 1..n
      BY <1>1, <1>2, <2>3, <3>1, <3>3 DEF Calm
    <3>4. QED
      BY <2>2, <3>2, <3>3
  <2>12. Calm'
    <3>1. SUFFICES ASSUME NEW q \in Procs, calm[q]
                   PROVE  /\ Writers \subseteq {q}
                          /\ pc[q] = "loading" /\ settled # Unsettled =>
                                \A i \in 1..Len(parts'[q]) : parts'[q][i] = entry[i - 1]
      BY <1>2, <2>1, <2>8 DEF Calm
    <3>2. CASE q = p
      BY <1>1, <2>3, <2>11, <3>1, <3>2 DEF Calm
    <3>3. CASE q # p
      BY <1>1, <2>4, <3>1, <3>3 DEF Calm
    <3>4. QED
      BY <3>2, <3>3
  <2>13. QED
    BY <2>7, <2>9, <2>10, <2>12 DEF StoreInv
<1>5. QED
  BY <1>3, <1>4

\* An operation breaks off.
LEMMA BreakKeeps ==
    ASSUME StoreInv, NEW p \in Procs, Break(p)
    PROVE  StoreInv'
<1>1. TypeOK /\ (\A q \in Procs : Written(q)) /\ Settled /\ Calm /\ SettledIsLoaded
  BY DEF StoreInv
<1>2. /\ Stop(p) /\ calm' = [calm EXCEPT ![p] = FALSE] /\ UNCHANGED <<entry, settled>>
      /\ whole' \in BOOLEAN
  BY DEF Break
<1>3. CASE pc[p] \in Writing
  BY <1>2, <1>3, StopKeeps DEF Break
<1>4. CASE pc[p] = "loading"
  <2>1. got' = [got EXCEPT ![p] = Unreadable]
    BY <1>4 DEF Break
  <2>2. TypeOK'
    BY <1>1, <1>2, <2>1 DEF TypeOK, Stop
  <2>3. Writers' = Writers
    BY <1>1, <1>2, <1>4 DEF TypeOK, Writers, Stop
  <2>4. \A q \in Procs : Written(q)'
    BY <1>1, <1>2, <1>4 DEF TypeOK, Written, Stop, Holds
  <2>5. Settled' /\ Calm'
    BY <1>1, <1>2, <2>3 DEF TypeOK, Settled, Calm, Stop, Holds
  <2>6. SettledIsLoaded'
    BY <1>1, <1>2, <2>1 DEF TypeOK, SettledIsLoaded, Stop
  <2>7. QED
    BY <2>2, <2>4, <2>5, <2>6 DEF StoreInv
<1>5. QED
  BY <1>1, <1>3, <1>4 DEF TypeOK, Break
-----------------------------------------------------------------------------
(* The theorems.                                                           *)

\* StoreInv is inductive.
THEOREM StoreInvariant == Spec => []StoreInv
<1>1. Init => StoreInv
  BY InitStoreInv
<1>2. StoreInv /\ [Next]_vars => StoreInv'
  <2>1. SUFFICES ASSUME StoreInv, [Next]_vars PROVE StoreInv'
    OBVIOUS
  <2>2. CASE UNCHANGED vars
    BY <2>1, <2>2 DEF vars, StoreInv, TypeOK, Written, Settled, Calm, SettledIsLoaded,
                      Holds, Writers
  <2>3. ASSUME NEW p \in Procs, NEW g \in Gens, Save(p, g) PROVE StoreInv'
    BY <2>1, <2>3, BeginKeeps DEF Save
  <2>4. ASSUME NEW p \in Procs, Clear(p) PROVE StoreInv'
    BY <2>1, <2>4, BeginKeeps DEF Clear
  <2>5. ASSUME NEW p \in Procs, SetPassword(p) \/ Probe(p) \/ DeletePassword(p)
        PROVE  StoreInv'
    BY <2>1, <2>5, SetPasswordKeeps, ProbeKeeps, DeletePasswordKeeps
  <2>6. ASSUME NEW p \in Procs, Load(p) \/ GetPassword(p) \/ Break(p)
        PROVE  StoreInv'
    BY <2>1, <2>6, LoadKeeps, GetPasswordKeeps, BreakKeeps
  <2>7. QED
    BY <2>1, <2>2, <2>3, <2>4, <2>5, <2>6 DEF Next
<1>3. QED
  BY <1>1, <1>2, PTL DEF Spec

\* Every variable holds what its comment says.
THEOREM TypeCorrect == Spec => []TypeOK
<1>1. StoreInv => TypeOK
  BY DEF StoreInv
<1>2. QED
  BY <1>1, StoreInvariant, PTL

\* A load that no write overlaps returns exactly what the last write stored, if
\* that one ran alone to its end, whatever broke off before.
THEOREM SettledLoads == Spec => []SettledIsLoaded
<1>1. StoreInv => SettledIsLoaded
  BY DEF StoreInv
<1>2. QED
  BY <1>1, StoreInvariant, PTL
-----------------------------------------------------------------------------
(* As long as no write breaks off or overlaps another, none leaves anything *)
(* behind it.                                                               *)

\* A step that changes nothing of the entries or of a write at work.
LEMMA OthersKeepWhole ==
    ASSUME WholeInv, whole' => whole, Writers' = Writers, UNCHANGED <<entry, settled>>,
           \A q \in Writers : /\ pc'[q] = pc[q] /\ at'[q] = at[q] /\ what'[q] = what[q]
                              /\ calm'[q] = calm[q]
    PROVE  WholeInv'
<1>1. ASSUME whole', NEW q \in Writers PROVE Tidied(q)'
  BY <1>1 DEF WholeInv, Tidied, NoGapFrom, Spans
<1>2. QED
  BY <1>1 DEF WholeInv, NothingLeftBehind, Spans

\* A write that begins alone finds what the one before it left.
LEMMA BeginKeepsWhole ==
    ASSUME StoreInv, WholeInv, NEW p \in Procs, NEW set \in Gens \cup {None}, NEW place,
           BeginWrite(p, set, place), place \in {"writing", "pruning"}
    PROVE  WholeInv'
<1>1. TypeOK /\ Written(p)
  BY DEF StoreInv
<1>2. /\ settled' = Unsettled /\ pc'[p] = place /\ at'[p] = 0 /\ entry' = entry
      /\ whole' => whole /\ Writers = {} /\ calm'[p]
  BY <1>1 DEF BeginWrite, TypeOK, Written
<1>3. p \in Writers' /\ \A q \in Writers' : q = p \/ q \in Writers
  BY <1>1, <1>2 DEF Writers, BeginWrite, TypeOK
<1>4. ASSUME whole' PROVE Tidied(p)'
  <2>1. \A i \in 0..MaxChunks : entry[i] # None <=> Spans(settled, i)
    BY <1>1, <1>2, <1>4 DEF WholeInv, NothingLeftBehind, TypeOK, Spans
  <2>2. settled \in Gens \cup {None}
    BY <1>1, <1>2, <1>4 DEF WholeInv, TypeOK
  <2>3. \A i, j \in 0..MaxChunks : i <= j /\ Spans(settled, j) => Spans(settled, i)
    BY <2>2 DEF Spans
  <2>4. NoGapFrom(0)
    BY <2>1, <2>3 DEF NoGapFrom
  <2>5. QED
    BY <1>2, <1>4, <2>4 DEF Tidied, NoGapFrom
<1>5. QED
  BY <1>2, <1>3, <1>4 DEF WholeInv, NothingLeftBehind

\* The chunks overwrite from the front, so they close every gap they make.
LEMMA SetPasswordKeepsWhole ==
    ASSUME StoreInv, WholeInv, NEW p \in Procs, SetPassword(p)
    PROVE  WholeInv'
<1>1. TypeOK /\ Written(p) /\ Settled /\ Calm
  BY DEF StoreInv
<1>2. pc[p] = "writing" /\ UNCHANGED <<what, settled, calm, whole>>
  BY DEF SetPassword
<1>3. settled = Unsettled /\ p \in Writers
  BY <1>1, <1>2, WriterAlone DEF Writers
<1>4. what[p] \in Gens /\ at[p] < Chunks[what[p]] /\ at[p] \in 0..MaxChunks
  BY <1>1, <1>2 DEF Written, TypeOK
<1>5. Chunks[what[p]] \in 1..MaxChunks
  BY <1>4
<1>6. /\ \A i \in 0..MaxChunks : entry'[i] = IF i = at[p] THEN what[p] ELSE entry[i]
      /\ at'[p] = at[p] + 1
      /\ pc'[p] = IF at[p] + 1 < Chunks[what[p]] THEN "writing" ELSE "pruning"
  BY <1>1, <1>4 DEF SetPassword, TypeOK
<1>7. Writers' = Writers
  BY <1>1, <1>2 DEF Writers, SetPassword, TypeOK
<1>8. ASSUME whole' PROVE Tidied(p)' /\ Writers = {p}
  <2>1. Tidied(p)
    BY <1>2, <1>3, <1>8 DEF WholeInv
  <2>2. calm[p] /\ NoGapFrom(0) /\ Holds(what[p], at[p])
    BY <1>1, <1>2, <2>1 DEF Tidied, Written
  <2>3. \A i \in 0..MaxChunks : i < at[p] => entry[i] # None
    BY <1>4, <2>2 DEF Holds
  <2>4. NoGapFrom(0)'
    <3>1. SUFFICES ASSUME NEW i \in 0..MaxChunks, NEW j \in 0..MaxChunks, i <= j, entry'[j] # None
                   PROVE  entry'[i] # None
      BY DEF NoGapFrom
    <3>2. CASE i = at[p]
      BY <1>4, <1>6, <3>2
    <3>3. CASE i # at[p] /\ j = at[p]
      BY <1>4, <1>6, <2>3, <3>1, <3>3
    <3>4. CASE i # at[p] /\ j # at[p]
      BY <1>6, <2>2, <3>1, <3>4 DEF NoGapFrom
    <3>5. QED
      BY <3>2, <3>3, <3>4
  <2>5. at'[p] \in 0..MaxChunks
    BY <1>4, <1>5, <1>6
  <2>6. NoGapFrom(at[p])'
    BY <2>4, <2>5 DEF NoGapFrom
  <2>7. pc'[p] = "pruning" => \A i \in 0..(at'[p] - 1) : Spans(what'[p], i)
    BY <1>2, <1>4, <1>5, <1>6 DEF Spans
  <2>8. Tidied(p)'
    BY <1>2, <1>6, <2>2, <2>4, <2>6, <2>7 DEF Tidied
  <2>9. QED
    BY <1>1, <1>3, <2>2, <2>8 DEF Calm
<1>9. QED
  BY <1>2, <1>3, <1>7, <1>8 DEF WholeInv, NothingLeftBehind

\* The first missing entry ends the write; without gaps nothing is behind it.
LEMMA ProbeKeepsWhole ==
    ASSUME StoreInv, WholeInv, NEW p \in Procs, Probe(p)
    PROVE  WholeInv'
<1>1. TypeOK /\ Written(p) /\ Settled /\ Calm
  BY DEF StoreInv
<1>2. pc[p] = "pruning" /\ p \in Writers
  BY DEF Probe, Writers, Writing
<1>3. settled = Unsettled
  BY <1>1, <1>2, WriterAlone
<1>4. at[p] \in 0..MaxChunks /\ what[p] \in Gens \cup {None}
  BY <1>1 DEF TypeOK
<1>5. CASE entry[at[p]] = None
  <2>1. /\ UNCHANGED <<entry, whole>> /\ pc' = [pc EXCEPT ![p] = "idle"]
        /\ settled' = IF calm[p] THEN what[p] ELSE settled
    BY <1>5 DEF Probe, Complete, Stop
  <2>2. CASE whole
    <3>1. Tidied(p)
      BY <1>2, <2>2 DEF WholeInv
    <3>2. calm[p] /\ settled' = what[p]
      BY <2>1, <3>1 DEF Tidied
    <3>3. Writers' = {}
      BY <1>1, <1>2, <2>1, <3>2 DEF Calm, Writers, TypeOK
    <3>4. ASSUME NEW i \in 0..MaxChunks
          PROVE  entry[i] = IF Spans(what[p], i) THEN what[p] ELSE None
      <4>1. CASE Spans(what[p], i)
        <5>1. what[p] \in Gens /\ i < Chunks[what[p]]
          BY <1>4, <4>1 DEF Spans
        <5>2. Holds(what[p], Chunks[what[p]])
          BY <1>1, <1>2, <3>2, <5>1 DEF Written
        <5>3. Chunks[what[p]] \in 1..MaxChunks
          BY <5>1
        <5>4. i \in 0..(Chunks[what[p]] - 1)
          BY <5>1, <5>3
        <5>5. QED
          BY <4>1, <5>2, <5>4 DEF Holds
      <4>2. CASE ~Spans(what[p], i) /\ i < at[p]
        <5>1. i \in 0..(at[p] - 1)
          BY <1>4, <4>2
        <5>2. QED
          BY <1>2, <3>1, <4>2, <5>1 DEF Tidied
      <4>3. CASE ~Spans(what[p], i) /\ at[p] <= i
        <5>1. i \in at[p]..MaxChunks /\ at[p] \in at[p]..MaxChunks
          BY <1>4, <4>3
        <5>2. NoGapFrom(at[p])
          BY <1>2, <3>1 DEF Tidied
        <5>3. QED
          BY <1>5, <4>3, <5>1, <5>2 DEF NoGapFrom
      <4>4. QED
        BY <1>4, <4>1, <4>2, <4>3
    <3>5. QED
      BY <1>4, <2>1, <3>2, <3>3, <3>4 DEF WholeInv, NothingLeftBehind, Spans
  <2>3. CASE ~whole
    BY <2>1, <2>3 DEF WholeInv, NothingLeftBehind
  <2>4. QED
    BY <2>2, <2>3
<1>6. CASE entry[at[p]] # None
  <2>1. pc' = [pc EXCEPT ![p] = "dropping"] /\ UNCHANGED <<entry, at, what, settled, calm, whole>>
    BY <1>6 DEF Probe
  <2>2. Writers' = Writers
    BY <1>1, <1>2, <2>1 DEF Writers, TypeOK
  <2>3. ASSUME whole, NEW q \in Writers PROVE Tidied(q)'
    <3>1. Tidied(q)
      BY <2>3 DEF WholeInv
    <3>2. q = p
      BY <1>1, <1>2, <2>3, <3>1 DEF Calm, Tidied, Writers
    <3>3. pc'[p] = "dropping"
      BY <1>1, <2>1 DEF TypeOK
    <3>4. QED
      BY <1>2, <1>6, <2>1, <3>1, <3>2, <3>3 DEF Tidied, NoGapFrom, Spans
  <2>4. QED
    BY <1>2, <1>3, <2>1, <2>2, <2>3 DEF WholeInv, NothingLeftBehind
<1>7. QED
  BY <1>5, <1>6

\* A deleted entry is behind the write, and behind it there is still no gap.
LEMMA DeletePasswordKeepsWhole ==
    ASSUME StoreInv, WholeInv, NEW p \in Procs, DeletePassword(p)
    PROVE  WholeInv'
<1>1. TypeOK /\ Settled /\ Calm
  BY DEF StoreInv
<1>2. pc[p] = "dropping" /\ p \in Writers
  BY DEF DeletePassword, Writers, Writing
<1>3. settled = Unsettled /\ UNCHANGED <<settled, whole>>
  BY <1>1, <1>2, WriterAlone DEF DeletePassword
<1>4. at[p] \in 0..MaxChunks
  BY <1>1 DEF TypeOK
<1>5. CASE whole
  <2>1. Tidied(p)
    BY <1>2, <1>5 DEF WholeInv
  <2>2. entry[at[p]] # None /\ at[p] # MaxChunks
    BY <1>1, <1>2, <2>1 DEF Tidied, TypeOK
  <2>3. /\ entry' = [entry EXCEPT ![at[p]] = None] /\ at' = [at EXCEPT ![p] = at[p] + 1]
        /\ pc' = [pc EXCEPT ![p] = "pruning"] /\ UNCHANGED <<what, calm>>
    BY <2>2 DEF DeletePassword
  <2>4. /\ \A i \in 0..MaxChunks : entry'[i] = IF i = at[p] THEN None ELSE entry[i]
        /\ at'[p] = at[p] + 1 /\ pc'[p] = "pruning"
    BY <1>1, <1>4, <2>3 DEF TypeOK
  <2>5. Writers' = {p} /\ Writers = {p}
    BY <1>1, <1>2, <2>1, <2>3 DEF Tidied, Calm, Writers, TypeOK
  <2>6. NoGapFrom(at[p])'
    <3>1. at'[p] \in 0..MaxChunks /\ at'[p] > at[p]
      BY <1>4, <2>2, <2>4
    <3>2. SUFFICES ASSUME NEW i \in at'[p]..MaxChunks, NEW j \in at'[p]..MaxChunks,
                          i <= j, entry'[j] # None
                   PROVE  entry'[i] # None
      BY DEF NoGapFrom
    <3>3. i \in at[p]..MaxChunks /\ j \in at[p]..MaxChunks /\ i # at[p] /\ j # at[p]
      BY <1>4, <3>1
    <3>4. i \in 0..MaxChunks /\ j \in 0..MaxChunks
      BY <1>4, <3>3
    <3>5. NoGapFrom(at[p])
      BY <1>2, <2>1 DEF Tidied
    <3>6. QED
      BY <2>4, <3>2, <3>3, <3>4, <3>5 DEF NoGapFrom
  <2>7. ASSUME NEW i \in 0..(at'[p] - 1) PROVE Spans(what[p], i) \/ entry'[i] = None
    <3>1. i \in 0..MaxChunks /\ (i = at[p] \/ i \in 0..(at[p] - 1))
      BY <1>4, <2>4, <2>7
    <3>2. QED
      BY <1>2, <2>1, <2>4, <3>1 DEF Tidied
  <2>8. Tidied(p)'
    BY <2>1, <2>3, <2>4, <2>6, <2>7 DEF Tidied, Spans
  <2>9. QED
    BY <1>3, <2>5, <2>8 DEF WholeInv, NothingLeftBehind
<1>6. CASE ~whole
  BY <1>3, <1>6 DEF WholeInv, NothingLeftBehind
<1>7. QED
  BY <1>5, <1>6

\* As long as no write has broken off or overlapped another, the last one to end
\* left what it wrote in the credential store and nothing else: no chunk of a set
\* that save() replaced, or that clear() was to delete, outlives it.
THEOREM NothingIsLeftBehind == Spec => []NothingLeftBehind
<1>1. Init => WholeInv
  <2>1. SUFFICES ASSUME Init PROVE WholeInv
    OBVIOUS
  <2>2. Writers = {} /\ settled = None /\ \A i \in 0..MaxChunks : entry[i] = None
    BY <2>1 DEF Init, Writers
  <2>3. QED
    BY <2>2 DEF WholeInv, NothingLeftBehind, Spans
<1>2. StoreInv /\ WholeInv /\ [Next]_vars => WholeInv'
  <2>1. SUFFICES ASSUME StoreInv, WholeInv, [Next]_vars PROVE WholeInv'
    OBVIOUS
  <2>2. TypeOK
    BY <2>1 DEF StoreInv
  <2>3. CASE UNCHANGED vars
    BY <2>1, <2>3, OthersKeepWhole DEF vars, Writers
  <2>4. ASSUME NEW p \in Procs, NEW g \in Gens, Save(p, g) PROVE WholeInv'
    BY <2>1, <2>4, BeginKeepsWhole DEF Save
  <2>5. ASSUME NEW p \in Procs, Clear(p) PROVE WholeInv'
    BY <2>1, <2>5, BeginKeepsWhole DEF Clear
  <2>6. ASSUME NEW p \in Procs, SetPassword(p) \/ Probe(p) \/ DeletePassword(p)
        PROVE  WholeInv'
    BY <2>1, <2>6, SetPasswordKeepsWhole, ProbeKeepsWhole, DeletePasswordKeepsWhole
  <2>7. ASSUME NEW p \in Procs, Load(p) \/ GetPassword(p) \/ (Break(p) /\ pc[p] \notin Writing)
        PROVE  WholeInv'
    <3>1. /\ whole' => whole
          /\ UNCHANGED <<entry, settled>> /\ pc[p] \notin Writing /\ pc'[p] \notin Writing
          /\ \A q \in Procs \ {p} : /\ pc'[q] = pc[q] /\ at'[q] = at[q] /\ what'[q] = what[q]
                                    /\ calm'[q] = calm[q]
      BY <2>2, <2>7 DEF Load, GetPassword, Break, Stop, TypeOK
    <3>2. Writers' = Writers /\ p \notin Writers
      BY <3>1 DEF Writers
    <3>3. \A q \in Writers : q \in Procs \ {p}
      BY <3>2 DEF Writers
    <3>4. QED
      BY <2>1, <3>1, <3>2, <3>3, OthersKeepWhole
  <2>8. ASSUME NEW p \in Procs, Break(p), pc[p] \in Writing PROVE WholeInv'
    BY <2>8 DEF Break, WholeInv, NothingLeftBehind
  <2>9. QED
    BY <2>1, <2>3, <2>4, <2>5, <2>6, <2>7, <2>8 DEF Next
<1>3. WholeInv => NothingLeftBehind
  BY DEF WholeInv
<1>4. QED
  BY <1>1, <1>2, <1>3, StoreInvariant, PTL DEF Spec
-----------------------------------------------------------------------------
(* Where every set fits in one entry, the store is a register.             *)

OneEntry == \A g \in Gens : Chunks[g] = 1

\* Then only the first entry is ever used.
Single ==
    /\ \A i \in 1..MaxChunks : entry[i] = None
    /\ \A p \in Procs : Len(parts[p]) <= 1

\* Only the first entry is ever used.
LEMMA SingleHolds == OneEntry => (Spec => []Single)
<1> SUFFICES ASSUME OneEntry PROVE Spec => []Single
  OBVIOUS
<1>1. Init => Single
  BY DEF Init, Single
<1>2. StoreInv /\ Single /\ [Next]_vars => Single'
  <2>1. SUFFICES ASSUME StoreInv, Single, [Next]_vars PROVE Single'
    OBVIOUS
  <2>2. TypeOK /\ \A p \in Procs : Written(p)
    BY <2>1 DEF StoreInv
  <2>3. CASE UNCHANGED <<entry, parts>>
    BY <2>1, <2>3 DEF Single
  <2>4. ASSUME NEW p \in Procs, SetPassword(p) PROVE Single'
    <3>1. what[p] \in Gens /\ at[p] = 0
      BY <2>2, <2>4 DEF OneEntry, Written, TypeOK, SetPassword
    <3>2. QED
      BY <2>1, <2>2, <2>4, <3>1 DEF Single, SetPassword, TypeOK
  <2>5. ASSUME NEW p \in Procs, Stop(p), UNCHANGED entry PROVE Single'
    BY <2>1, <2>2, <2>5 DEF Single, Stop, TypeOK
  <2>6. ASSUME NEW p \in Procs, DeletePassword(p) PROVE Single'
    <3>1. CASE entry[at[p]] = None
      BY <2>5, <2>6, <3>1 DEF DeletePassword
    <3>2. CASE entry[at[p]] # None
      BY <2>1, <2>2, <2>6, <3>2 DEF Single, DeletePassword, TypeOK
    <3>3. QED
      BY <3>1, <3>2
  <2>7. ASSUME NEW p \in Procs, GetPassword(p) PROVE Single'
    <3>1. CASE entry[Len(parts[p])] = None
      BY <2>5, <2>7, <3>1 DEF GetPassword
    <3>2. CASE entry[Len(parts[p])] # None
      <4>1. Len(parts[p]) = 0 /\ parts[p] \in Seq(Gens) /\ entry[0] \in Gens
        BY <2>1, <2>2, <3>2 DEF Single, TypeOK
      <4>2. parts' = [parts EXCEPT ![p] = Append(parts[p], entry[0])]
        BY <2>7, <3>2, <4>1 DEF GetPassword
      <4>3. Len(parts'[p]) <= 1
        BY <2>2, <4>1, <4>2 DEF TypeOK
      <4>4. UNCHANGED entry /\ \A q \in Procs : q # p => parts'[q] = parts[q]
        BY <2>2, <2>7, <4>2 DEF GetPassword, TypeOK
      <4>5. ASSUME NEW q \in Procs PROVE Len(parts'[q]) <= 1
        <5>1. CASE q = p
          BY <4>3, <5>1, Zenon
        <5>2. CASE q # p
          BY <2>1, <4>4, <5>2 DEF Single
        <5>3. QED
          BY <5>1, <5>2
      <4>6. QED
        BY <2>1, <4>4, <4>5 DEF Single
    <3>3. QED
      BY <3>1, <3>2
  <2>8. ASSUME NEW p \in Procs, Probe(p) PROVE Single'
    BY <2>3, <2>5, <2>8 DEF Probe, Complete
  <2>9. ASSUME NEW p \in Procs, Break(p) PROVE Single'
    BY <2>5, <2>9 DEF Break
  <2>10. QED
    BY <2>1, <2>3, <2>4, <2>6, <2>7, <2>8, <2>9
       DEF Next, vars, Save, Clear, BeginWrite, Load
<1>3. QED
  BY <1>1, <1>2, StoreInvariant, PTL DEF Spec

\* A process that a step leaves alone is in the same operation as before.
LEMMA TaskFrame ==
    ASSUME NEW q \in Procs,
           pc'[q] = pc[q], at'[q] = at[q], what'[q] = what[q],
           parts'[q] = parts[q], got'[q] = got[q]
    PROVE  TaskOf(q)' = TaskOf(q) /\ SeenBy(q)' = SeenBy(q)
BY DEF TaskOf, SeenBy, Pending, Taken
\* How a step of one process looks to the register.
LEMMA Maps ==
    ASSUME NEW p \in Procs, NEW t, NEW g, TypeOK,
           \A q \in Procs \ {p} :
              /\ pc'[q] = pc[q] /\ at'[q] = at[q] /\ what'[q] = what[q]
              /\ parts'[q] = parts[q] /\ got'[q] = got[q],
           TaskOf(p)' = t, SeenBy(p)' = g
    PROVE  /\ [q \in Procs |-> TaskOf(q)]' = [[q \in Procs |-> TaskOf(q)] EXCEPT ![p] = t]
           /\ [q \in Procs |-> SeenBy(q)]' = [[q \in Procs |-> SeenBy(q)] EXCEPT ![p] = g]
<1>1. \A q \in Procs : q # p => TaskOf(q)' = TaskOf(q) /\ SeenBy(q)' = SeenBy(q)
  BY TaskFrame
<1>2. \A q \in Procs : TaskOf(q)' = [[r \in Procs |-> TaskOf(r)] EXCEPT ![p] = t][q]
  BY <1>1
<1>3. \A q \in Procs : SeenBy(q)' = [[r \in Procs |-> SeenBy(r)] EXCEPT ![p] = g][q]
  BY <1>1
<1>4. QED
  BY <1>2, <1>3

\* A step of one process is a step of the register when it begins, takes, puts
\* or fails there; or when it shows nothing.
LEMMA RegisterSteps ==
    ASSUME NEW p \in Procs, TypeOK,
           \A q \in Procs \ {p} :
              /\ pc'[q] = pc[q] /\ at'[q] = at[q] /\ what'[q] = what[q]
              /\ parts'[q] = parts[q] /\ got'[q] = got[q],
           \* begin
           \/ /\ TaskOf(p) = Register!Idle
              /\ TaskOf(p)' \in {Register!Loading} \cup
                                {Register!Writing(v) : v \in Gens \cup {None}}
              /\ SeenBy(p)' = SeenBy(p) /\ entry'[0] = entry[0]
           \* take
           \/ /\ TaskOf(p) = Register!Loading /\ TaskOf(p)' = Register!Idle
              /\ SeenBy(p)' = entry[0] /\ entry'[0] = entry[0]
           \* put
           \/ /\ TaskOf(p).op = "write" /\ TaskOf(p)' = Register!Idle
              /\ SeenBy(p)' = SeenBy(p) /\ entry'[0] = TaskOf(p).set
           \* fail
           \/ /\ TaskOf(p)' = Register!Idle
              /\ SeenBy(p)' \in {SeenBy(p), Unreadable} /\ entry'[0] = entry[0]
           \* nothing
           \/ /\ TaskOf(p)' = TaskOf(p)
              /\ SeenBy(p)' = SeenBy(p) /\ entry'[0] = entry[0]
    PROVE  [Register!Next]_(Register!rvars)
<1> DEFINE T == [q \in Procs |-> TaskOf(q)]
           G == [q \in Procs |-> SeenBy(q)]
<1>1. T' = [T EXCEPT ![p] = TaskOf(p)'] /\ G' = [G EXCEPT ![p] = SeenBy(p)']
  BY Maps
<1>2. T[p] = TaskOf(p) /\ G[p] = SeenBy(p)
  OBVIOUS
<1>3. G = [G EXCEPT ![p] = SeenBy(p)] /\ T = [T EXCEPT ![p] = TaskOf(p)]
  OBVIOUS
<1> HIDE DEF T, G
<1>4. QED
  BY <1>1, <1>2, <1>3
     DEF Register!Next, Register!rvars, Register!Begin, Register!Take, Register!Put,
         Register!Fail, T, G
\* Every step of the store is a step of the register, or shows it nothing.
LEMMA StepMaps ==
    ASSUME OneEntry, StoreInv, Single, [Next]_vars
    PROVE  [Register!Next]_(Register!rvars)
<1> DEFINE Begins(p) == /\ TaskOf(p) = Register!Idle
                        /\ TaskOf(p)' \in {Register!Loading} \cup
                                          {Register!Writing(v) : v \in Gens \cup {None}}
                        /\ SeenBy(p)' = SeenBy(p) /\ entry'[0] = entry[0]
           Takes(p) == /\ TaskOf(p) = Register!Loading /\ TaskOf(p)' = Register!Idle
                       /\ SeenBy(p)' = entry[0] /\ entry'[0] = entry[0]
           Puts(p) == /\ TaskOf(p).op = "write" /\ TaskOf(p)' = Register!Idle
                      /\ SeenBy(p)' = SeenBy(p) /\ entry'[0] = TaskOf(p).set
           Fails(p) == /\ TaskOf(p)' = Register!Idle
                       /\ SeenBy(p)' \in {SeenBy(p), Unreadable} /\ entry'[0] = entry[0]
           Hides(p) == /\ TaskOf(p)' = TaskOf(p)
                       /\ SeenBy(p)' = SeenBy(p) /\ entry'[0] = entry[0]
           Alone(p) == \A q \in Procs \ {p} :
                          /\ pc'[q] = pc[q] /\ at'[q] = at[q] /\ what'[q] = what[q]
                          /\ parts'[q] = parts[q] /\ got'[q] = got[q]
           Shows(p) == Begins(p) \/ Takes(p) \/ Puts(p) \/ Fails(p) \/ Hides(p)
<1>1. TypeOK /\ \A p \in Procs : Written(p)
  BY DEF StoreInv
<1>2. ASSUME NEW p \in Procs, Alone(p), Shows(p)
      PROVE  [Register!Next]_(Register!rvars)
  BY <1>1, <1>2, RegisterSteps
<1>3. CASE UNCHANGED vars
  <2>1. /\ [p \in Procs |-> TaskOf(p)]' = [p \in Procs |-> TaskOf(p)]
        /\ [p \in Procs |-> SeenBy(p)]' = [p \in Procs |-> SeenBy(p)]
    BY <1>3, TaskFrame DEF vars
  <2>2. QED
    BY <1>3, <2>1 DEF vars, Register!rvars
<1> USE DEF TaskOf, SeenBy, Pending, Taken, Register!Idle, Register!Loading, Register!Writing
<1>4. ASSUME NEW p \in Procs, NEW set \in Gens \cup {None},
             NEW place \in {"writing", "pruning"}, BeginWrite(p, set, place)
      PROVE  Alone(p) /\ Shows(p)
  <2>1. pc[p] = "idle" /\ at[p] = 0 /\ UNCHANGED <<entry, at, parts, got>>
    BY <1>1, <1>4 DEF BeginWrite, Written
  <2>2. pc'[p] = place /\ what'[p] = set
    BY <1>1, <1>4 DEF BeginWrite, TypeOK
  <2>3. Alone(p)
    BY <1>1, <1>4 DEF BeginWrite, TypeOK
  <2>4. QED
    BY <2>1, <2>2, <2>3
<1>5. ASSUME NEW p \in Procs, SetPassword(p) PROVE Alone(p) /\ Shows(p)
  <2>1. pc[p] = "writing" /\ at[p] = 0 /\ what[p] \in Gens
    BY <1>1, <1>5 DEF OneEntry, Written, TypeOK, SetPassword
  <2>2. /\ pc'[p] = "pruning" /\ at'[p] = 1 /\ entry'[0] = what[p]
        /\ UNCHANGED <<parts, got, what>>
    BY <1>1, <1>5, <2>1 DEF OneEntry, TypeOK, SetPassword
  <2>3. Alone(p)
    BY <1>1, <1>5 DEF SetPassword, TypeOK
  <2>4. QED
    BY <2>1, <2>2, <2>3
<1>6. ASSUME NEW p \in Procs, Stop(p), UNCHANGED <<entry, got>>, pc[p] \in Writing
      PROVE  Alone(p) /\ Shows(p)
  <2>1. pc'[p] = "idle"
    BY <1>1, <1>6 DEF Stop, TypeOK
  <2>2. Alone(p)
    BY <1>1, <1>6 DEF Stop, TypeOK
  <2>3. Fails(p)
    BY <1>6, <2>1
  <2>4. QED
    BY <2>2, <2>3
<1>7. ASSUME NEW p \in Procs, Probe(p) PROVE Alone(p) /\ Shows(p)
  <2>1. pc[p] = "pruning"
    BY <1>7 DEF Probe
  <2>2. CASE entry[at[p]] = None
    <3>1. Complete(p)
      BY <1>7, <2>2 DEF Probe
    <3>2. Stop(p) /\ UNCHANGED <<entry, got>> /\ pc'[p] = "idle" /\ Alone(p)
      BY <1>1, <3>1 DEF Complete, Stop, TypeOK
    <3>3. CASE at[p] = 0
      <4>1. what[p] = None
        BY <1>1, <2>1, <3>3 DEF Written, TypeOK
      <4>2. Puts(p)
        BY <2>1, <2>2, <3>2, <3>3, <4>1
      <4>3. QED
        BY <3>2, <4>2
    <3>4. CASE at[p] # 0
      <4>1. Hides(p)
        BY <2>1, <3>2, <3>4
      <4>2. QED
        BY <3>2, <4>1
    <3>5. QED
      BY <3>3, <3>4
  <2>3. CASE entry[at[p]] # None
    <3>1. pc'[p] = "dropping" /\ UNCHANGED <<entry, at, what, parts, got>> /\ Alone(p)
      BY <1>1, <1>7, <2>3 DEF Probe, TypeOK
    <3>2. Hides(p)
      BY <2>1, <3>1
    <3>3. QED
      BY <3>1, <3>2
  <2>4. QED
    BY <2>2, <2>3
<1>8. ASSUME NEW p \in Procs, DeletePassword(p) PROVE Alone(p) /\ Shows(p)
  <2>1. pc[p] = "dropping"
    BY <1>8 DEF DeletePassword
  <2>2. CASE entry[at[p]] = None
    BY <1>6, <1>8, <2>1, <2>2 DEF DeletePassword
  <2>3. CASE entry[at[p]] # None
    <3>1. at[p] = 0
      BY <1>1, <2>3 DEF Single, TypeOK
    <3>2. what[p] = None
      BY <1>1, <2>1, <3>1 DEF Written, TypeOK
    <3>3. /\ pc'[p] = "pruning" /\ at'[p] = 1 /\ entry'[0] = None
          /\ UNCHANGED <<what, parts, got>> /\ Alone(p)
      BY <1>1, <1>8, <2>3, <3>1 DEF DeletePassword, TypeOK
    <3>4. Puts(p)
      BY <2>1, <3>1, <3>2, <3>3
    <3>5. QED
      BY <3>3, <3>4
  <2>4. QED
    BY <2>2, <2>3
<1>9. ASSUME NEW p \in Procs, Load(p) PROVE Alone(p) /\ Shows(p)
  <2>1. /\ pc[p] = "idle" /\ pc'[p] = "loading" /\ parts[p] = <<>>
        /\ UNCHANGED <<entry, at, what, parts, got>> /\ Alone(p)
    BY <1>1, <1>9 DEF Load, Written, TypeOK
  <2>2. Begins(p)
    BY <2>1
  <2>3. QED
    BY <2>1, <2>2
<1>10. ASSUME NEW p \in Procs, GetPassword(p) PROVE Alone(p) /\ Shows(p)
  <2>1. /\ pc[p] = "loading" /\ UNCHANGED entry
        /\ parts[p] \in Seq(Gens) /\ Len(parts[p]) \in {0, 1}
    <3>1. pc[p] = "loading" /\ UNCHANGED entry
      BY <1>10 DEF GetPassword
    <3>2. parts[p] \in Seq(Gens) /\ Len(parts[p]) <= 1
      BY <1>1 DEF Single, TypeOK
    <3>3. Len(parts[p]) \in Nat
      BY <3>2
    <3>4. \A k \in Nat : k <= 1 => k \in {0, 1}
      OBVIOUS
    <3>5. QED
      BY <3>1, <3>2, <3>3, <3>4, Zenon
  <2>2. CASE entry[Len(parts[p])] = None
    <3>1. PICK o \in Outcomes(parts[p]) : got' = [got EXCEPT ![p] = o]
      BY <1>10, <2>2 DEF GetPassword
    <3>2. pc'[p] = "idle" /\ got'[p] = o /\ Alone(p)
      BY <1>1, <1>10, <2>2, <3>1 DEF GetPassword, Stop, TypeOK
    <3>3. CASE Len(parts[p]) = 0
      <4>1. parts[p] = <<>>
        BY <2>1, <3>3
      <4>2. o = None
        BY <4>1 DEF Outcomes
      <4>3. Takes(p)
        BY <2>1, <2>2, <3>2, <3>3, <4>1, <4>2
      <4>4. QED
        BY <3>2, <4>3
    <3>4. CASE Len(parts[p]) = 1
      <4>1. parts[p] # <<>> /\ parts[p][1] \in Gens
        BY <2>1, <3>4
      <4>2. Chunks[parts[p][1]] = 1 /\ \A i \in 1..Len(parts[p]) : parts[p][i] = parts[p][1]
        BY <3>4, <4>1 DEF OneEntry
      <4>3. Outcomes(parts[p]) = {parts[p][1]}
        BY <2>1, <3>4, <4>1, <4>2, OutcomesWhole, Zenon
      <4>4. Hides(p)
        BY <2>1, <3>1, <3>2, <4>1, <4>3
      <4>5. QED
        BY <3>2, <4>4
    <3>5. QED
      BY <2>1, <3>3, <3>4
  <2>3. CASE entry[Len(parts[p])] # None
    <3>1. Len(parts[p]) = 0 /\ parts[p] = <<>>
      BY <1>1, <2>1, <2>3 DEF Single
    <3>2. parts' = [parts EXCEPT ![p] = Append(<<>>, entry[0])]
      BY <1>10, <2>3, <3>1 DEF GetPassword
    <3>3. /\ parts'[p] # <<>> /\ parts'[p][1] = entry[0]
          /\ UNCHANGED <<pc, at, what, got>> /\ Alone(p)
      BY <1>1, <1>10, <2>3, <3>2 DEF GetPassword, TypeOK
    <3>4. Takes(p)
      BY <2>1, <3>1, <3>3
    <3>5. QED
      BY <3>3, <3>4
  <2>4. QED
    BY <2>2, <2>3
<1>11. ASSUME NEW p \in Procs, Break(p) PROVE Alone(p) /\ Shows(p)
  <2>1. CASE pc[p] \in Writing
    BY <1>6, <1>11, <2>1 DEF Break
  <2>2. CASE pc[p] = "loading"
    <3>1. pc'[p] = "idle" /\ got'[p] = Unreadable /\ UNCHANGED entry /\ Alone(p)
      BY <1>1, <1>11, <2>2 DEF Break, Stop, TypeOK
    <3>2. Fails(p)
      BY <3>1
    <3>3. QED
      BY <3>1, <3>2
  <2>3. QED
    BY <1>1, <1>11, <2>1, <2>2 DEF Break, TypeOK
<1> HIDE DEF Alone, Shows
<1>12. QED
  BY <1>2, <1>3, <1>4, <1>5, <1>7, <1>8, <1>9, <1>10, <1>11 DEF Next, Save, Clear

\* Where every set fits in one entry, the keyring store is a register.
THEOREM OneEntryIsRegister == OneEntry => (Spec => ImplementsRegister)
<1> SUFFICES ASSUME OneEntry PROVE Spec => ImplementsRegister
  OBVIOUS
<1>1. Init => Register!Init
  BY DEF Init, Register!Init, TaskOf, SeenBy, Pending, Taken, Register!Idle
<1>2. StoreInv /\ Single /\ [Next]_vars => [Register!Next]_(Register!rvars)
  BY StepMaps
<1>3. Spec => []Single
  BY SingleHolds
<1>4. QED
  BY <1>1, <1>2, <1>3, StoreInvariant, PTL DEF Spec, ImplementsRegister, Register!Spec
=============================================================================
