----------------------------- MODULE MCRefusals -----------------------------
(* Whom the server turns away for a time: the circuit breaker and the rate *)
(* limiter, each explored with the other at rest.  Three tasks, a          *)
(* threshold they reach together or one by one, and a cooldown longer than *)
(* one tick, so that it can be restarted half-way; two users of one tool,  *)
(* and one of a tool whose rate is zero.                                   *)
EXTENDS Refusals

CONSTANTS c1, c2, c3, u1, u2, fetch, blocked

MCCalls == {c1, c2, c3}

MCCallers == {[tool |-> fetch, user |-> u1], [tool |-> fetch, user |-> u2],
              [tool |-> blocked, user |-> Anonymous]}
MCRpm == [t \in {fetch, blocked} |-> IF t = fetch THEN 2 ELSE 0]

MCInit == Init /\ LimiterInit
MCNext ==
  \/ LimiterInit /\ Next /\ UNCHANGED limiterVars
  \/ Init /\ LimiterNext /\ UNCHANGED vars

MCSpec == MCInit /\ [][MCNext]_<<vars, limiterVars>> /\ Fairness
=============================================================================
