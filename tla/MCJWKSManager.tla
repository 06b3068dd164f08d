--------------------------- MODULE MCJWKSManager ---------------------------
(* Two requests, room for two fetches (a coalesced one and a background    *)
(* refresh), and one rotation of the provider's keys.                      *)
EXTENDS JWKSManager

CONSTANTS r1, r2, t1, t2

MCRequests == {r1, r2}
MCTasks == {t1, t2}
=============================================================================
