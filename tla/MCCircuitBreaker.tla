-------------------------- MODULE MCCircuitBreaker --------------------------
(* CircuitBreaker on a small instance: one replica with two requests at a  *)
(* time, which share its breaker and its lock, and one with a single       *)
(* request.  A stability gate of 1 lets the second request of r1 close the *)
(* breaker that the first has opened while the hash is still open.         *)
(* Liveness is checked, so there is no symmetry reduction.                 *)
EXTENDS CircuitBreaker

CONSTANTS r1, r2

MCCalls == {<<r1, 1>>, <<r1, 2>>, <<r2, 1>>}
=============================================================================
