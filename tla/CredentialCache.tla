-------------------------- MODULE CredentialCache --------------------------
(***************************************************************************)
(* Tokens for the APIs behind the tools: CredentialResolver says which     *)
(* audience, scopes and provider a tool needs, an adapter exchanges the    *)
(* caller's token for one, and TokenCache keeps it.  The three are parts   *)
(* that an application joins: look up, exchange what is not there, put.    *)
(* Nothing in server.py uses them yet.                                     *)
(***************************************************************************)
EXTENDS Integers, FiniteSets

CONSTANTS
  Upstream,    \* the access tokens that are exchanged
  Audiences,   \* the APIs, by names that are not empty
  Scopes,      \* the sets of scopes that are asked of them
  Unnamed,     \* a mapping has no scopes, or a request names no audience
  Configured,  \* token_exchange_scope, which may be Unnamed
  ToolNames,   \* the tools that may have a mapping
  MaxSize,     \* TokenCache max_size
  DefaultTtl,  \* its default_ttl, in ticks
  Secret,      \* a client_secret is configured
  Mapped,      \* the mappings that the resolver is made with
  NoMapping    \* the tool has no mapping

ASSUME SizeAssumption == MaxSize \in Nat \ {0}
ASSUME TtlAssumption == DefaultTtl \in Nat \ {0}

Providers == {"default", "rfc8693", "google", "entra", "unknown"}
Replies == {"token", "no token", "no JSON", "refused", "unreachable"}

ScopesOrNone == Scopes \cup {Unnamed}
Mappings == [audience : Audiences, scopes : ScopesOrNone, provider : Providers]

(* A token that was got in exchange: of whose, and what the request for it *)
(* named.                                                                  *)
Delegated ==
  [of : Upstream, audience : Audiences \cup {Unnamed}, scopes : ScopesOrNone]

ASSUME ConfiguredAssumption == Configured \in ScopesOrNone

ASSUME MappedAssumption == Mapped \in [ToolNames -> Mappings \cup {NoMapping}]

VARIABLES
  toolIndex,  \* CredentialResolver._tool_index
  cache       \* TokenCache._cache: at a key, a token and the ticks it has left

credentialVars == <<toolIndex, cache>>

CacheKeys == Upstream \X Audiences \X ScopesOrNone

CredentialTypeOK ==
  /\ toolIndex \in [ToolNames -> Mappings \cup {NoMapping}]
  /\ DOMAIN cache \subseteq CacheKeys
  /\ Cardinality(DOMAIN cache) <= MaxSize
  /\ \A k \in DOMAIN cache : cache[k].token \in Delegated /\ cache[k].left \in Int

CredentialInit ==
  /\ toolIndex = Mapped
  /\ cache = << >>

-----------------------------------------------------------------------------
(* CredentialResolver.                                                     *)

Resolve(n) == toolIndex[n]

(* A later mapping of a tool takes the place of an earlier one.            *)
AddMapping(names, mapping) ==
  /\ toolIndex' = [n \in ToolNames |-> IF n \in names THEN mapping ELSE toolIndex[n]]
  /\ UNCHANGED cache

-----------------------------------------------------------------------------
(* The adapters: what each of them asks its provider for, and what it      *)
(* makes of the answer.                                                    *)

(* AdapterRegistry.get_adapter.                                            *)
Adapter(provider) == IF provider = "default" THEN "rfc8693" ELSE provider

(* All send the configured scope when none is asked of them.               *)
Effective(scopes) == IF scopes = Unnamed THEN Configured ELSE scopes

(* Entra's takes an audience, and sends none.                              *)
Sent(provider, audience) == IF Adapter(provider) = "entra" THEN Unnamed ELSE audience

(* What the token is for: what the request has named.                      *)
Issued(of, mapping) ==
  [of |-> of, audience |-> Sent(mapping.provider, mapping.audience),
   scopes |-> Effective(mapping.scopes)]

(* "provider" and "authentication" are the framework's own errors, what    *)
(* httpx or json raise is "raw".                                           *)
RFC8693(reply) ==
  CASE reply = "token" -> "token"
    [] reply = "no token" -> "provider"
    [] OTHER -> "raw"

Google(reply) ==
  CASE reply = "token" -> "token"
    [] reply \in {"no token", "refused"} -> "provider"
    [] OTHER -> "raw"

Entra(reply) ==
  CASE ~Secret -> "authentication"
    [] Secret /\ reply = "token" -> "token"
    [] Secret /\ reply = "unreachable" -> "raw"
    [] OTHER -> "provider"

Exchange(provider, reply) ==
  CASE Adapter(provider) = "rfc8693" -> RFC8693(reply)
    [] Adapter(provider) = "google" -> Google(reply)
    [] Adapter(provider) = "entra" -> Entra(reply)
    [] OTHER -> "configuration"

-----------------------------------------------------------------------------
(* TokenCache.                                                             *)

(* Mutant: the key is that of the target alone. *)
KeyOfTarget(of, audience, scopes) == <<CHOOSE u \in Upstream : TRUE, audience, scopes>>

(* _make_key: from the token's hash, the audience, and the scopes' hash.   *)
MakeKey(of, audience, scopes) == <<of, audience, scopes>>

Without(k) == [j \in DOMAIN cache \ {k} |-> cache[j]]

(* get: an entry is good up to and including the moment it expires at.     *)
Cached(k) == k \in DOMAIN cache /\ cache[k].left >= 0

(* What get leaves in the cache.                                           *)
SweptCache(k) == IF k \in DOMAIN cache /\ ~Cached(k) THEN Without(k) ELSE cache

(* Mutant: one entry too many is let in. *)
PutOver(k, token, ttl) ==
  LET grown == [j \in DOMAIN cache \cup {k} |->
                  IF j = k THEN [token |-> token, left |-> ttl] ELSE cache[j]]
      first == {j \in DOMAIN grown : \A i \in DOMAIN grown : grown[j].left <= grown[i].left}
  IN  IF Cardinality(DOMAIN grown) > MaxSize + 1
      THEN \E j \in first : cache' = [i \in DOMAIN grown \ {j} |-> grown[i]]
      ELSE cache' = grown

(* put.  A lifetime of zero counts as none given.  The entry that expires  *)
(* first makes room, be it the new one.                                    *)
Put(k, token, ttl) ==
  LET lasts == IF ttl = 0 THEN DefaultTtl ELSE ttl
      grown == [j \in DOMAIN cache \cup {k} |->
                  IF j = k THEN [token |-> token, left |-> lasts] ELSE cache[j]]
      first == {j \in DOMAIN grown : \A i \in DOMAIN grown : grown[j].left <= grown[i].left}
  IN  IF Cardinality(DOMAIN grown) > MaxSize
      THEN \E j \in first : cache' = [i \in DOMAIN grown \ {j} |-> grown[i]]
      ELSE cache' = grown

Invalidate(of) == cache' = [k \in {j \in DOMAIN cache : j[1] # of} |-> cache[k]]

InvalidateAll == cache' = << >>

(* Bound: what an expired entry is past its time does not matter.          *)
Elapse ==
  cache' = [k \in DOMAIN cache |->
              [cache[k] EXCEPT !.left = IF @ < 0 THEN @ ELSE @ - 1]]
=============================================================================
