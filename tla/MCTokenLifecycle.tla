-------------------------- MODULE MCTokenLifecycle --------------------------
(* TokenLifecycle on a small instance: the server with two concurrent      *)
(* requests and another process with one.                                  *)
EXTENDS TokenLifecycle, TLC

CONSTANTS server, other, r1, r2, r3

MCProcs == {server, other}
MCRequests == {r1, r2, r3}
MCProcOf == (r1 :> server) @@ (r2 :> server) @@ (r3 :> other)

\* Which of the server's requests is which does not matter.
Symmetry == Permutations({r1, r2})

\* The server alone, with two concurrent requests.
OneProc == {server}
OneProcRequests == {r1, r2}
OneProcOf == (r1 :> server) @@ (r2 :> server)
=============================================================================
