----------------------------- MODULE Downstream -----------------------------
(***************************************************************************)
(* Tools that call APIs as the user they run for: RequestScope, in which   *)
(* calls come, nest, spawn tasks and return, composed with                 *)
(* CredentialCache, from which they have tokens.  A tool reads the access  *)
(* token from its context when it makes a client (downstream.py), and      *)
(* keeps what it read while the exchange of that token is awaited.         *)
(***************************************************************************)
EXTENDS RequestScope, CredentialCache

CONSTANTS
  Lifetimes,  \* what is put as the lifetime of a token, in ticks
  Offered     \* the mappings that the application makes

(* Bound: calls of other tokens ask for no exchange.                       *)
ASSUME UpstreamAssumption == Upstream \subseteq AccessTokens
ASSUME OfferedAssumption == Offered \subseteq Mappings /\ Lifetimes \subseteq Nat

VARIABLES
  asking,  \* in each task, the exchange that is awaited
  got      \* (history) what the last step got for a call, and for which

toolVars == <<asking, got>>
vars == <<scopeVars, credentialVars, toolVars>>

(* What an API is called with: a token that was got in exchange, or the    *)
(* access token itself, for which nothing was named.                       *)
Credentials ==
  [of : AccessTokens, audience : Audiences \cup {Unnamed}, scopes : ScopesOrNone]

TypeOK ==
  /\ ScopeTypeOK
  /\ CredentialTypeOK
  /\ asking \in [Tasks -> [of : Upstream, mapping : Mappings] \cup {None}]
  /\ got = None \/ got \in [task : Tasks, token : Credentials, asked : Mappings \cup {None}]
  /\ \A t \in Tasks : asking[t] # None => Busy(t)

Init ==
  /\ ScopeInit
  /\ CredentialInit
  /\ asking = [t \in Tasks |-> None]
  /\ got = None

-----------------------------------------------------------------------------
(* The calls.  A call that returns while it awaits an exchange has been    *)
(* cancelled.                                                              *)
NoMore(t) ==
  /\ asking' = [asking EXCEPT ![t] = None]
  /\ got' = None
  /\ UNCHANGED credentialVars

Begin(t) ==
  /\ asking[t] = None /\ t \notin Spawned
  /\ \/ \E u \in Users : Call(t, u) \/ Test(t, u)
     \/ CallPlain(t) \/ CallRefused(t)
  /\ NoMore(t)

End(t) == (Return(t) \/ TestReturns(t)) /\ NoMore(t)

Running(t) == Busy(t) /\ asking[t] = None

Propagate(t) ==
  /\ Running(t)
  /\ SetContext(t)
  /\ got' = None
  /\ UNCHANGED <<credentialVars, asking>>

Detach(t) ==
  /\ Running(t)
  /\ \E b \in Tasks \ {t} : Spawn(t, b)
  /\ got' = None
  /\ UNCHANGED <<credentialVars, asking>>

-----------------------------------------------------------------------------
(* What the innermost call of a task does about its token.  Without one,   *)
(* it gets a RuntimeError.                                                 *)
HasToken(t) == Running(t) /\ tokenVar[t] # None

Got(t, token, asked) == got' = [task |-> t, token |-> token, asked |-> asked]

(* authenticated_client and the other three; downstream_token, which       *)
(* answers the access token whatever API it is asked for.                  *)
MakeClient(t) ==
  /\ HasToken(t)
  /\ Got(t, [of |-> tokenVar[t], audience |-> Unnamed, scopes |-> Unnamed], None)
  /\ UNCHANGED <<scopeVars, credentialVars, asking>>

(* A token for the API that the tool is mapped to, from the cache or to be *)
(* got in exchange.                                                        *)
Ask(t) ==
  /\ HasToken(t) /\ tokenVar[t] \in Upstream
  /\ \E n \in ToolNames :
       LET mapping == Resolve(n)
           k == MakeKey(tokenVar[t], mapping.audience, mapping.scopes)
       IN  /\ mapping # NoMapping
           /\ cache' = SweptCache(k)
           /\ IF Cached(k)
              THEN Got(t, cache[k].token, mapping) /\ UNCHANGED asking
              ELSE /\ asking' =
                        [asking EXCEPT ![t] = [of |-> tokenVar[t], mapping |-> mapping]]
                   /\ got' = None
  /\ UNCHANGED <<scopeVars, toolIndex>>

Exchanged(t) ==
  /\ asking[t] # None
  /\ LET a == asking[t]
         k == MakeKey(a.of, a.mapping.audience, a.mapping.scopes)
         token == Issued(a.of, a.mapping)
     IN  /\ \E reply \in Replies : Exchange(a.mapping.provider, reply) = "token"
         /\ \E ttl \in Lifetimes : Put(k, token, ttl)
         /\ Got(t, token, a.mapping)
  /\ asking' = [asking EXCEPT ![t] = None]
  /\ UNCHANGED <<scopeVars, toolIndex>>

(* The adapter raises, or none answers to the name.                        *)
ExchangeFails(t) ==
  /\ asking[t] # None
  /\ \E reply \in Replies : Exchange(asking[t].mapping.provider, reply) # "token"
  /\ asking' = [asking EXCEPT ![t] = None]
  /\ got' = None
  /\ UNCHANGED <<scopeVars, credentialVars>>

-----------------------------------------------------------------------------
(* The application forgets a user's tokens or all of them, and maps tools. *)
Manage ==
  /\ \/ (\E u \in Upstream : Invalidate(u)) /\ UNCHANGED toolIndex
     \/ InvalidateAll /\ UNCHANGED toolIndex
     \/ \E names \in SUBSET ToolNames, m \in Offered : AddMapping(names, m)
  /\ got' = None
  /\ UNCHANGED <<scopeVars, asking>>

Tick == Elapse /\ got' = None /\ UNCHANGED <<scopeVars, toolIndex, asking>>

Next ==
  \/ \E t \in Tasks :
       \/ Begin(t) \/ End(t) \/ Propagate(t) \/ Detach(t)
       \/ MakeClient(t) \/ Ask(t) \/ Exchanged(t) \/ ExchangeFails(t)
  \/ Manage \/ Tick

Spec == Init /\ [][Next]_vars

-----------------------------------------------------------------------------
(* Properties.                                                             *)

(* A token that a request has named as a mapping asks: its scopes, or the  *)
(* configured ones when it has none; its audience, or none at all (Entra's *)
(* adapter names none), but never another API.                             *)
NamedBy(mapping, token) ==
  /\ token.scopes = Effective(mapping.scopes)
  /\ token.audience \in {mapping.audience, Unnamed}

(* What a tool calls an API with was got with the token of its own call,   *)
(* by a request that named what its mapping asks for, whatever calls of    *)
(* other users and for other APIs exchange, evict, invalidate or remap in  *)
(* the meantime, and in the background after the call as well.  (A call in *)
(* which another has authenticated somebody else is left out, see OwnUser. *)
(* Without a mapping it is the access token itself.)                       *)
OwnCredentials ==
  got # None /\ ~Top(got.task).crossed =>
    /\ got.token.of = Top(got.task).token
    /\ got.asked # None => NamedBy(got.asked, got.token)
=============================================================================
