---------------------------- MODULE KeyringStore ----------------------------
(***************************************************************************)
(* KeyringTokenStore (src/src/anafpy/auth/store.py): a token set as JSON   *)
(* in one entry of the OS credential store, or split over several where    *)
(* an entry is too small for it (Windows).  save, clear and load are loops *)
(* of keyring calls.  A call is atomic; between two calls other processes  *)
(* run theirs, and an operation may end at any call, by a KeyringError or  *)
(* with its process.  No lock spans the loops.                             *)
(*                                                                         *)
(* Entry i only ever holds chunk i of some set, so the set names the text. *)
(***************************************************************************)
EXTENDS Naturals, Sequences

CONSTANTS
    Procs,       \* processes; each runs one operation at a time
    Gens,        \* token sets
    Chunks,      \* how many entries a set takes
    MaxChunks,   \* bound: the longest set
    None,        \* no entry, no set
    Unreadable,  \* load raises AnafConfigError
    Mixed,       \* load returns a set spliced from two
    Unsettled    \* see `settled`

ASSUME MaxChunksType == MaxChunks \in Nat \ {0}
ASSUME ChunksType == Chunks \in [Gens -> 1..MaxChunks]
ASSUME MarkersDiffer == None \notin Gens /\ Unsettled \notin Gens \cup {None}

VARIABLES
    entry,    \* the credential store: chunk i of which set
    pc,       \* what each process does
    at,       \* `index` of save and clear
    what,     \* the set being saved; None for clear
    parts,    \* what load has read
    got,      \* what the last load returned
    settled,  \* what the last write stored, if it ran to its end and no other
              \* write overlapped it; else Unsettled (history)
    calm,     \* no other write since the operation began (history)
    whole     \* no write so far has broken off or overlapped another (history)

vars == <<entry, pc, at, what, parts, got, settled, calm, whole>>

Writing == {"writing", "pruning", "dropping"}
Writers == {p \in Procs : pc[p] \in Writing}

\* "".join(parts) as JSON: nothing follows the closing brace, and it is there.
Closed(s) ==
    /\ Chunks[s[Len(s)]] = Len(s)
    /\ \A i \in 1..(Len(s) - 1) : Chunks[s[i]] > i

\* A text of one set parses.  A text of several is cut inside the token strings
\* of each: it may parse, too.
Outcomes(s) ==
    IF s = <<>> THEN {None}
    ELSE IF ~Closed(s) THEN {Unreadable}
    ELSE IF \A i \in 1..Len(s) : s[i] = s[1] THEN {s[1]}
    ELSE {Unreadable, Mixed}

Init ==
    /\ entry = [i \in 0..MaxChunks |-> None]
    /\ pc = [p \in Procs |-> "idle"]
    /\ at = [p \in Procs |-> 0]
    /\ what = [p \in Procs |-> None]
    /\ parts = [p \in Procs |-> <<>>]
    /\ got = [p \in Procs |-> None]
    /\ settled = None
    /\ calm = [p \in Procs |-> FALSE]
    /\ whole = TRUE

\* The operation of p is over.
Stop(p) ==
    /\ pc' = [pc EXCEPT ![p] = "idle"]
    /\ at' = [at EXCEPT ![p] = 0]
    /\ what' = [what EXCEPT ![p] = None]
    /\ parts' = [parts EXCEPT ![p] = <<>>]

BeginWrite(p, set, place) ==
    /\ pc[p] = "idle"
    /\ pc' = [pc EXCEPT ![p] = place]
    /\ what' = [what EXCEPT ![p] = set]
    /\ settled' = Unsettled
    /\ calm' = [q \in Procs |-> q = p /\ Writers = {}]
    /\ whole' = (whole /\ Writers = {})
    /\ UNCHANGED <<entry, at, parts, got>>

Save(p, g) == BeginWrite(p, g, "writing")
Clear(p) == BeginWrite(p, None, "pruning")

\* Mutant: the chunk just written taken for a stale one.
ProbeOneBack(p) ==
    /\ pc[p] = "pruning"
    /\ at[p] > 0
    /\ at' = [at EXCEPT ![p] = at[p] - 1]
    /\ pc' = [pc EXCEPT ![p] = "dropping"]
    /\ UNCHANGED <<entry, what, parts, got, settled, calm, whole>>

\* save: the next chunk into its entry.
SetPassword(p) ==
    /\ pc[p] = "writing"
    /\ entry' = [entry EXCEPT ![at[p]] = what[p]]
    /\ at' = [at EXCEPT ![p] = at[p] + 1]
    /\ pc' = [pc EXCEPT ![p] =
                 IF at[p] + 1 < Chunks[what[p]] THEN "writing" ELSE "pruning"]
    /\ UNCHANGED <<what, parts, got, settled, calm, whole>>

\* The end of a write.
Complete(p) ==
    /\ Stop(p)
    /\ settled' = IF calm[p] THEN what[p] ELSE settled
    /\ calm' = [calm EXCEPT ![p] = FALSE]
    /\ UNCHANGED <<entry, got, whole>>

ProbeNothing(p) == pc[p] = "pruning" /\ Complete(p)   \* mutant: no stale entry dropped

\* save after its chunks, clear from the start: is there an entry at `index`?
Probe(p) ==
    /\ pc[p] = "pruning"
    /\ IF entry[at[p]] = None
       THEN Complete(p)
       ELSE /\ pc' = [pc EXCEPT ![p] = "dropping"]
            /\ UNCHANGED <<entry, at, what, parts, got, settled, calm, whole>>

DeleteOne(p) ==   \* mutant: an `if` for the `while`
    /\ pc[p] = "dropping"
    /\ entry' = [entry EXCEPT ![at[p]] = None]
    /\ Stop(p)
    /\ settled' = IF calm[p] THEN what[p] ELSE settled
    /\ calm' = [calm EXCEPT ![p] = FALSE]
    /\ UNCHANGED <<got, whole>>

\* ... then delete it; an entry that another process deleted is a KeyringError.
DeletePassword(p) ==
    /\ pc[p] = "dropping"
    /\ IF entry[at[p]] = None
       THEN /\ Stop(p)
            /\ calm' = [calm EXCEPT ![p] = FALSE]
            /\ UNCHANGED <<entry, got, settled, whole>>
       ELSE /\ entry' = [entry EXCEPT ![at[p]] = None]
            /\ at' = [at EXCEPT ![p] = at[p] + 1]
            /\ pc' = [pc EXCEPT ![p] = "pruning"]
            /\ UNCHANGED <<what, parts, got, settled, calm, whole>>

Load(p) ==
    /\ pc[p] = "idle"
    /\ pc' = [pc EXCEPT ![p] = "loading"]
    /\ calm' = [calm EXCEPT ![p] = (Writers = {})]
    /\ UNCHANGED <<entry, at, what, parts, got, settled, whole>>

\* load: the next entry, until there is none.
GetPassword(p) ==
    /\ pc[p] = "loading"
    /\ LET next == entry[Len(parts[p])]
       IN  IF next = None
           THEN /\ Stop(p)
                /\ \E o \in Outcomes(parts[p]) : got' = [got EXCEPT ![p] = o]
           ELSE /\ parts' = [parts EXCEPT ![p] = Append(parts[p], next)]
                /\ UNCHANGED <<pc, at, what, got>>
    /\ UNCHANGED <<entry, settled, calm, whole>>

\* A KeyringError, or the end of the process, between two calls.
Break(p) ==
    /\ pc[p] # "idle"
    /\ Stop(p)
    /\ got' = IF pc[p] = "loading" THEN [got EXCEPT ![p] = Unreadable] ELSE got
    /\ calm' = [calm EXCEPT ![p] = FALSE]
    /\ whole' = (whole /\ pc[p] \notin Writing)
    /\ UNCHANGED <<entry, settled>>

Next == \E p \in Procs :
    \/ \E g \in Gens : Save(p, g)
    \/ SetPassword(p)
    \/ Clear(p)
    \/ Probe(p)
    \/ DeletePassword(p)
    \/ Load(p)
    \/ GetPassword(p)
    \/ Break(p)

Spec == Init /\ [][Next]_vars

-----------------------------------------------------------------------------
(* Properties.                                                             *)

Places == {"idle", "loading"} \cup Writing

\* Every variable holds what its comment says; the last entry is never needed.
TypeOK ==
    /\ entry \in [0..MaxChunks -> Gens \cup {None}]
    /\ entry[MaxChunks] = None
    /\ pc \in [Procs -> Places]
    /\ at \in [Procs -> 0..MaxChunks]
    /\ what \in [Procs -> Gens \cup {None}]
    /\ parts \in [Procs -> Seq(Gens)]
    /\ got \in [Procs -> Gens \cup {None, Unreadable, Mixed}]
    /\ settled \in Gens \cup {None, Unsettled}
    /\ calm \in [Procs -> BOOLEAN] /\ whole \in BOOLEAN
    /\ \A p \in Procs : Len(parts[p]) <= MaxChunks

\* After a save or a clear that ran alone to its end, a load that no write
\* overlaps returns exactly what was written, whatever interrupted saves,
\* half-done clears and overlapping writes had left in the entries before.
SettledIsLoaded ==
    \A p \in Procs : pc[p] = "idle" /\ calm[p] => settled \in {got[p], Unsettled}

\* Entry i is one of the set's.
Spans(set, i) == set # None /\ i < Chunks[set]

\* As long as no write has broken off or overlapped another, the last one leaves
\* nothing behind it: save() drops every entry of a longer set before, clear()
\* every entry.
NothingLeftBehind ==
    whole /\ settled # Unsettled =>
        \A i \in 0..MaxChunks :
            entry[i] = IF Spans(settled, i) THEN settled ELSE None

\* What save() says of its clean-up: "so load() can never reassemble a
\* mixed-generation token set".
NeverMixed == \A p \in Procs : got[p] # Mixed

\* Where every set fits in one entry (macOS, Linux), the store is a register:
\* a load sees a save or a clear wholly or not at all, in one order for all
\* processes.  A write takes effect at its first keyring call that changes
\* something; a load at its first call.
Pending(p) == at[p] = 0 /\ pc[p] \in Writing
Taken(p) == pc[p] = "loading" /\ parts[p] # <<>>
TaskOf(p) ==
    [op |-> IF Pending(p) THEN "write"
            ELSE IF pc[p] = "loading" /\ ~Taken(p) THEN "load" ELSE "idle",
     set |-> IF Pending(p) THEN what[p] ELSE None]
SeenBy(p) == IF Taken(p) THEN parts[p][1] ELSE got[p]
Register == INSTANCE TokenRegister WITH
    value <- entry[0],
    task <- [p \in Procs |-> TaskOf(p)],
    got <- [p \in Procs |-> SeenBy(p)]

ImplementsRegister == Register!Spec

\* The inductive strengthening of SettledIsLoaded: what the entries hold while a
\* calm write runs ...
Holds(g, n) ==
    /\ n \in 0..MaxChunks
    /\ \A i \in 0..(n - 1) : entry[i] = g

Written(p) ==
    /\ pc[p] # "loading" => parts[p] = <<>>
    /\ pc[p] \notin Writing => at[p] = 0
    /\ pc[p] = "writing" =>
          /\ what[p] \in Gens
          /\ at[p] < Chunks[what[p]]
          /\ calm[p] => Holds(what[p], at[p])
    /\ pc[p] \in {"pruning", "dropping"} /\ what[p] \in Gens =>
          /\ at[p] >= Chunks[what[p]]
          /\ calm[p] => Holds(what[p], Chunks[what[p]])
          /\ calm[p] /\ at[p] > Chunks[what[p]] => entry[Chunks[what[p]]] = None
    /\ pc[p] \in {"pruning", "dropping"} /\ what[p] = None =>
          (calm[p] /\ at[p] > 0 => entry[0] = None)

\* ... and after it; what a calm load has read; and that calm is calm.
Settled ==
    /\ settled # Unsettled => Writers = {}
    /\ settled \in Gens =>
          Holds(settled, Chunks[settled]) /\ entry[Chunks[settled]] = None
    /\ settled = None => entry[0] = None

Calm ==
    \A p \in Procs : calm[p] =>
        /\ Writers \subseteq {p}
        /\ pc[p] = "loading" /\ settled # Unsettled =>
              \A i \in 1..Len(parts[p]) : parts[p][i] = entry[i - 1]

StoreInv ==
    /\ TypeOK
    /\ \A p \in Procs : Written(p)
    /\ Settled
    /\ Calm
    /\ SettledIsLoaded

\* The inductive strengthening of NothingLeftBehind: behind the entries that the
\* write at work has dealt with there is no gap, and behind a gap no entry.
NoGapFrom(n) ==
    \A i, j \in n..MaxChunks : i <= j /\ entry[j] # None => entry[i] # None

Tidied(p) ==
    /\ calm[p]
    /\ pc[p] = "writing" => NoGapFrom(0)
    /\ pc[p] \in {"pruning", "dropping"} =>
          /\ NoGapFrom(at[p])
          /\ \A i \in 0..(at[p] - 1) : Spans(what[p], i) \/ entry[i] = None
    /\ pc[p] = "dropping" => entry[at[p]] # None

WholeInv ==
    /\ whole => \A p \in Writers : Tidied(p)
    /\ whole /\ Writers = {} => settled # Unsettled
    /\ NothingLeftBehind
=============================================================================
