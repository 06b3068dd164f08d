-------------------------- MODULE MCTokenLifecycle --------------------------
(* Two calls, a provider that issues two tokens, and the three deployments *)
(* that differ: logins with a provider that rotates refresh tokens or does *)
(* not, and client credentials, where there is none.                       *)
EXTENDS TokenLifecycle

CONSTANTS r1, r2

MCRequests == {r1, r2}

MCDeployments ==
  {[interactive |-> TRUE, rotates |-> TRUE],
   [interactive |-> TRUE, rotates |-> FALSE],
   [interactive |-> FALSE, rotates |-> FALSE]}
=============================================================================
