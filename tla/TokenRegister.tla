--------------------------- MODULE TokenRegister ---------------------------
(***************************************************************************)
(* What TokenProvider takes a TokenStore for: one register.  save, clear   *)
(* and load each happen at one instant between their call and their end,   *)
(* or fail.                                                                *)
(***************************************************************************)
CONSTANTS Procs, Gens, None, Unreadable

VARIABLES
    value,   \* the stored set, or None
    task,    \* the operation each process is in
    got      \* what its last load returned

rvars == <<value, task, got>>

Idle == [op |-> "idle", set |-> None]
Loading == [op |-> "load", set |-> None]
Writing(v) == [op |-> "write", set |-> v]      \* clear() writes None

Init ==
    /\ value \in Gens \cup {None}
    /\ task = [p \in Procs |-> Idle]
    /\ got = [p \in Procs |-> None]

Begin(p) ==
    /\ task[p] = Idle
    /\ \E t \in {Loading} \cup {Writing(v) : v \in Gens \cup {None}} :
          task' = [task EXCEPT ![p] = t]
    /\ UNCHANGED <<value, got>>

Take(p) ==
    /\ task[p] = Loading
    /\ task' = [task EXCEPT ![p] = Idle]
    /\ got' = [got EXCEPT ![p] = value]
    /\ UNCHANGED value

Put(p) ==
    /\ task[p].op = "write"
    /\ task' = [task EXCEPT ![p] = Idle]
    /\ value' = task[p].set
    /\ UNCHANGED got

\* The caller gets an exception; a write that fails has happened or has not.
Fail(p) ==
    /\ task' = [task EXCEPT ![p] = Idle]
    /\ got' \in {got, [got EXCEPT ![p] = Unreadable]}
    /\ UNCHANGED value

Next == \E p \in Procs : Begin(p) \/ Take(p) \/ Put(p) \/ Fail(p)

Spec == Init /\ [][Next]_rvars
=============================================================================
