-------------------------- MODULE MCCircuitBreaker --------------------------
(* Three tasks, a threshold they reach together or one by one, and a       *)
(* cooldown longer than one tick.                                          *)
EXTENDS CircuitBreaker

CONSTANTS c1, c2, c3

MCCalls == {c1, c2, c3}
=============================================================================
