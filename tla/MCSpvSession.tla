---------------------------- MODULE MCSpvSession ----------------------------
(* Instances of SpvSession for TLC. *)
EXTENDS SpvSession

CONSTANTS server, cli, r1, r2, r3

OneProcess == [r \in Requests |-> server]
TwoProcesses == [r \in Requests |-> IF r = r1 THEN server ELSE cli]
=============================================================================
