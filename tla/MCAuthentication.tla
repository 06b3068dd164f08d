-------------------------- MODULE MCAuthentication --------------------------
(* The two ways to a token, each explored with the other at rest: the      *)
(* token set that logins and refreshes keep, under the deployments of      *)
(* MCTokenLifecycle; and the exchange, with one upstream token more than   *)
(* the cache holds, and a lifetime of a token that is shorter than that of *)
(* an entry and one that is as long.                                       *)
EXTENDS MCTokenLifecycle, TokenExchange

CONSTANTS c1, c2, s1, s2, s3

MCCalls == {c1, c2}
MCSubjects == {s1, s2, s3}
MCMortal == {s1}
MCLives == {1, 2}

MCInit == Init /\ ExchangeInit
MCNext ==
  \/ ExchangeInit /\ Next /\ UNCHANGED exchangeVars
  \/ Init /\ deployment.rotates /\ ExchangeNext /\ UNCHANGED vars

MCSpec ==
  MCInit /\ [][MCNext]_<<vars, exchangeVars>> /\ Fairness /\ ExchangeFairness
=============================================================================
