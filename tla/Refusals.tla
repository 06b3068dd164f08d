------------------------------ MODULE Refusals ------------------------------
(***************************************************************************)
(* Whom the server turns away for a time: the circuit breaker, before      *)
(* requests to the identity provider, and the rate limiter, before tools.  *)
(* They share no state.                                                    *)
(***************************************************************************)
EXTENDS CircuitBreaker, RateLimiter

RefusalsSpec == Spec /\ LimiterSpec

RefusalsTypeOK == TypeOK /\ LimiterTypeOK
=============================================================================
