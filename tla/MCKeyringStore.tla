--------------------------- MODULE MCKeyringStore ---------------------------
(* KeyringStore on small instances: token sets of three entries and of one, *)
(* and sets that all fit in one.                                            *)
EXTENDS KeyringStore, TLC

CONSTANTS long, twin, short

MCGens == {long, twin, short}
Split == (long :> 3) @@ (twin :> 3) @@ (short :> 1)
Single == [g \in MCGens |-> 1]

Symmetry == Permutations(Procs) \cup Permutations({long, twin})
=============================================================================
