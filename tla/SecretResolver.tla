--------------------------- MODULE SecretResolver ---------------------------
(***************************************************************************)
(* secrets.py: a configuration in which secrets are named, and the         *)
(* resolver that puts them in their places.  Backends are registered under *)
(* names, another one may take a name over, and what they hold changes     *)
(* while the resolver keeps what it has got for a time.  Resolving does    *)
(* not await.  Nothing in config_loader.py uses it yet.                    *)
(***************************************************************************)
EXTENDS Naturals, Sequences

CONSTANTS
  BackendNames, \* names of backends, "env" among them
  Backends,     \* what may be registered
  EnvBackend,   \* the one that is registered as "env" to begin with
  NoBackend,    \* nothing is registered under the name
  SecretKeys,   \* keys of secrets
  Secrets,      \* what a secret may be
  Missing,      \* no secret at the key
  Documents,    \* the configurations that are resolved
  CacheTtl      \* cache_ttl, in ticks

ASSUME CacheTtlAssumption == CacheTtl \in Nat
ASSUME BackendAssumption ==
  /\ "env" \in BackendNames
  /\ EnvBackend \in Backends /\ NoBackend \notin Backends
  /\ Missing \notin Secrets \cup [value : Secrets, age : 0..CacheTtl]

(* A reference, ${SECRET:name:key}, and where a configuration has it: in a *)
(* string of a dict, be it a nested one; in a string of a list; or deeper, *)
(* in a dict or a list within a list.                                      *)
References == [name : BackendNames, key : SecretKeys]
Occurrences == [at : {"dict", "list", "deeper"}, ref : References]

ASSUME DocumentAssumption == Documents \subseteq Seq(Occurrences)

VARIABLES
  backends,   \* SecretResolver._backends
  holds,      \* what each backend has at each key
  kept,       \* _cache: a secret and its age, or Missing
  wrongFor,   \* (history) for how long what is kept has not been the secret
  resolved    \* (history) what the last step resolved, and the first failure

resolverVars == <<backends, holds, kept, wrongFor, resolved>>

SecretTypeOK ==
  /\ backends \in [BackendNames -> Backends \cup {NoBackend}]
  /\ holds \in [Backends -> [SecretKeys -> Secrets \cup {Missing}]]
  /\ kept \in [References -> [value : Secrets, age : 0..CacheTtl] \cup {Missing}]
  /\ wrongFor \in [References -> Nat]
  /\ resolved \in [taken : SUBSET [ref : References, value : Secrets],
                   failed : SUBSET References]

NothingResolved == [taken |-> {}, failed |-> {}]

SecretInit ==
  /\ backends = [n \in BackendNames |-> IF n = "env" THEN EnvBackend ELSE NoBackend]
  /\ holds = [b \in Backends |-> [k \in SecretKeys |-> Missing]]
  /\ kept = [r \in References |-> Missing]
  /\ wrongFor = [r \in References |-> 0]
  /\ resolved = NothingResolved

-----------------------------------------------------------------------------
(* What the backend answers.                                               *)
Answer(r) ==
  IF backends[r.name] = NoBackend THEN Missing ELSE holds[backends[r.name]][r.key]

Fresh(r) == kept[r] # Missing /\ kept[r].age < CacheTtl

(* Mutant: a secret that is used is kept for longer. *)
KeepUsed(r) ==
  CASE Fresh(r) -> [kept[r] EXCEPT !.age = 0]
    [] ~Fresh(r) /\ Answer(r) = Missing -> Missing
    [] OTHER -> [value |-> Answer(r), age |-> 0]

(* _resolve_single, by what it leaves in the cache: what was kept, if its  *)
(* time is not over, or the answer.  That there is none is not kept.       *)
ResolveSingle(r) ==
  CASE Fresh(r) -> kept[r]
    [] ~Fresh(r) /\ Answer(r) = Missing -> Missing
    [] OTHER -> [value |-> Answer(r), age |-> 0]

(* resolve_value: one reference after the other, until one that cannot be  *)
(* resolved raises a ValueError, and the rest is not looked at.            *)
ResolveValue(document, places) ==
  {document[n].ref : n \in
     {n \in places : \A m \in places : m < n => ResolveSingle(document[m].ref) # Missing}}

(* resolve_config: what is deeper stays as it is, a reference.  The time   *)
(* stands still, so that asking twice gets the same secret twice.          *)
ResolveConfig(document) ==
  LET shallow == {n \in DOMAIN document : document[n].at # "deeper"}
      asked == ResolveValue(document, shallow)
      failed == {r \in asked : ResolveSingle(r) = Missing}
  IN  /\ kept' = [r \in References |-> IF r \in asked THEN ResolveSingle(r) ELSE kept[r]]
      /\ resolved' = [taken |-> {[ref |-> r, value |-> ResolveSingle(r).value] :
                                   r \in asked \ failed},
                      failed |-> failed]
      /\ wrongFor' = [r \in References |->
                        IF kept'[r] = Missing \/ kept'[r].value = Answer(r)
                        THEN 0 ELSE wrongFor[r]]
      /\ UNCHANGED <<backends, holds>>

RegisterBackend(n, b) ==
  /\ backends' = [backends EXCEPT ![n] = b]
  /\ resolved' = NothingResolved
  /\ UNCHANGED <<holds, kept, wrongFor>>

-----------------------------------------------------------------------------
(* A secret is rotated, set or deleted.                                    *)
Rotate(b, key, to) ==
  /\ holds' = [holds EXCEPT ![b][key] = to]
  /\ resolved' = NothingResolved
  /\ UNCHANGED <<backends, kept, wrongFor>>

Wrong(r) == kept[r] # Missing /\ kept[r].value # Answer(r)

Older ==
  /\ kept' = [r \in References |->
                IF kept[r] = Missing \/ kept[r].age = CacheTtl THEN kept[r]
                ELSE [kept[r] EXCEPT !.age = @ + 1]]
  /\ wrongFor' = [r \in References |->
                    IF ~Wrong(r) THEN 0
                    ELSE IF wrongFor[r] = CacheTtl THEN CacheTtl ELSE wrongFor[r] + 1]
  /\ resolved' = NothingResolved
  /\ UNCHANGED <<backends, holds>>

SecretNext ==
  \/ \E d \in Documents : ResolveConfig(d)
  \/ \E n \in BackendNames, b \in Backends : RegisterBackend(n, b)
  \/ \E b \in Backends, key \in SecretKeys, to \in Secrets \cup {Missing} : Rotate(b, key, to)
  \/ Older

SecretSpec == SecretInit /\ [][SecretNext]_resolverVars

-----------------------------------------------------------------------------
(* Properties.                                                             *)

(* A secret that is rotated or deleted, or whose backend is replaced, is   *)
(* out of use before cache_ttl is over, however often it is asked for      *)
(* meanwhile; and a configuration is refused only for a secret that is     *)
(* missing now, not for one that was missing before.                       *)
SecretsFresh ==
  /\ \A t \in resolved.taken : t.value # Answer(t.ref) => wrongFor[t.ref] < CacheTtl
  /\ \A r \in resolved.failed : Answer(r) = Missing
=============================================================================
