-------------------------- MODULE MCCircuitBreaker ---------------------------
(***************************************************************************)
(* Model checking of the circuit breaker.                                  *)
(***************************************************************************)
EXTENDS CircuitBreaker, TLC

CONSTANTS c1, c2, c3

MCCalls == {c1, c2, c3}
MCTwoCalls == {c1, c2}
Symmetry == Permutations(MCCalls)

==============================================================================
