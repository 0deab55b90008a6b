-------------------------- MODULE MCCircuitBreaker --------------------------
(* Small instances of CircuitBreaker for TLC. *)
EXTENDS BreakerOverlap

MCFairSpec == WatchedSpec /\ Fairness
=============================================================================
