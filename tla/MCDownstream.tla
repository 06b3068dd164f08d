---------------------------- MODULE MCDownstream ----------------------------
(* Two tasks, in one of which calls nest; two users; a mapping with scopes *)
(* of its own, and one without any that may take its place, of another API *)
(* at a provider that is told no audience.                                 *)
EXTENDS Downstream

CONSTANTS t1, t2, u1, u2, a1, a2, read, write, orders

MCDepth == (t1 :> 2) @@ (t2 :> 1)
MCMapped == orders :> [audience |-> a1, scopes |-> read, provider |-> "default"]
MCOffered == {[audience |-> a2, scopes |-> Unnamed, provider |-> "entra"]}
MCSymmetry == Permutations({u1, u2})
=============================================================================
