-------------------------- MODULE MCConfigWatcher --------------------------
(* The watched file and the secrets in it, each explored with the other at *)
(* rest.  An empty file, one that may reload observability alone, and one  *)
(* that has other values everywhere, part of them from the environment,    *)
(* and claims that all may be reloaded; two backends, and a configuration  *)
(* with a secret of each and one that is out of the resolver's sight.      *)
EXTENDS Configuration

CONSTANTS w1, w2, a, b, x

MCWatchers == {w1, w2}
MCValues == {a, b, x}
MCDeclared == [v \in MCValues |-> IF v = a THEN {"observability"} ELSE Sections]
MCEnvironment == [v \in MCValues |-> IF v = b THEN x ELSE v]
Blank == [s \in Sections |-> Absent]
Narrow == [s \in Sections |-> IF s = "sessions" THEN Absent ELSE a]
Wide == [s \in Sections |-> b]
MCConfigs == {Blank, Narrow, Wide}

Ref(n) == [name |-> n, key |-> "key"]
In(place, n) == [at |-> place, ref |-> Ref(n)]
MCDocuments ==
  {<<In("dict", "env")>>, <<In("list", "vault"), In("dict", "env"), In("deeper", "vault")>>}

(* In the other part: no watch, and no edit of the file yet. *)
MCInit == Init /\ SecretInit
MCNext ==
  \/ SecretInit /\ Next /\ UNCHANGED resolverVars
  \/ Init /\ SecretNext /\ UNCHANGED vars

MCSpec == MCInit /\ [][MCNext]_<<vars, resolverVars>> /\ Fairness
=============================================================================
