--------------------------- MODULE TokenExchange ---------------------------
(***************************************************************************)
(* The token_exchange grant of AuthenticationMiddleware:                   *)
(* _handle_token_exchange swaps the upstream token of a call for a         *)
(* downstream one, through OAuthService.token_exchange, and keeps what it  *)
(* got in a cache.  Calls run concurrently on one asyncio loop; the        *)
(* provider answers late, refuses, or not at all, and may end a user's     *)
(* session at any moment.                                                  *)
(***************************************************************************)
EXTENDS Naturals, SequencesExt

CONSTANTS
  Calls,    \* concurrent calls of tools
  Subjects, \* upstream tokens
  Capacity, \* entries the cache may hold: 1000
  Ttl,      \* how long an entry is used: 60 s, in ticks
  Lives,    \* what expires_in may be, in ticks
  Latency,  \* bound: an answer or a signature check takes this long at most
  Mortal,   \* the upstream tokens whose session may be ended
  None      \* no token

ASSUME SizeAssumption == Capacity \in Nat \ {0}
ASSUME TimeAssumption ==
  /\ Ttl \in Nat \ {0} /\ Latency \in Nat
  /\ Lives # {} /\ Lives \subseteq Nat \ {0}
  /\ \E t \in Lives \cup {Ttl} : \A u \in Lives \cup {Ttl} : u <= t
ASSUME NameAssumption ==
  /\ Mortal \subseteq Subjects
  /\ None \notin Subjects

(* Ages beyond which no two of them differ.                                *)
Longest == CHOOSE t \in Lives \cup {Ttl} : \A u \in Lives \cup {Ttl} : u <= t
Oldest == Ttl + 2 * Latency + 1

VARIABLES
  endpoints, \* OAuthService._endpoints is set
  cache,     \* _exchange_cache, in the order of the times in it
  doing,     \* what each call awaits
  subject,   \* upstream_token
  held,      \* the token set it was given
  wait,      \* how long the answer has been under way
  ended      \* how long ago the provider ended the session; 0 if it has not

exchangeVars == <<endpoints, cache, doing, subject, held, wait, ended>>

Tokens == [owner : Subjects, life : Lives, kept : 0..(Longest + Latency)]
Entries == [key : Subjects, token : Tokens]

ASSUME NoTokenAssumption == None \notin Tokens

ExchangeTypeOK ==
  /\ endpoints \in BOOLEAN
  /\ cache \in Seq(Entries)
  /\ Len(cache) <= Capacity
  /\ \A i, j \in DOMAIN cache : cache[i].key = cache[j].key => i = j
  /\ doing \in [Calls -> {"idle", "discovering", "asking", "granted", "identifying"}]
  /\ subject \in [Calls -> Subjects \cup {None}]
  /\ held \in [Calls -> Tokens \cup {None}]
  /\ wait \in [Calls -> 0..Latency]
  /\ ended \in [Subjects -> 0..Oldest]
  /\ \A c \in Calls :
       /\ subject[c] = None <=> doing[c] = "idle"
       /\ held[c] # None <=> doing[c] \in {"granted", "identifying"}

ExchangeInit ==
  /\ endpoints = FALSE
  /\ cache = <<>>
  /\ doing = [c \in Calls |-> "idle"]
  /\ subject = [c \in Calls |-> None]
  /\ held = [c \in Calls |-> None]
  /\ wait = [c \in Calls |-> 0]
  /\ ended = [s \in Subjects |-> 0]

(* With an answer, or an exception. *)
Finish(c) ==
  /\ doing' = [doing EXCEPT ![c] = "idle"]
  /\ subject' = [subject EXCEPT ![c] = None]
  /\ held' = [held EXCEPT ![c] = None]
  /\ wait' = [wait EXCEPT ![c] = 0]

-----------------------------------------------------------------------------
(* The cache.                                                              *)

(* A digest of the whole upstream token.                                   *)
Key(s) == s

(* Mutant: an entry is used for its time, whatever token it holds. *)
InTime(t) == t.kept < Ttl

Fresh(t) == t.kept < Ttl /\ t.kept < t.life

Cached(s) == {e.token : e \in {f \in ToSet(cache) : f.key = Key(s)}}

(* del: the one entry at the key, if there is one. *)
Without(s) ==
  IF Cached(s) = {} THEN cache
  ELSE RemoveAt(cache, CHOOSE i \in DOMAIN cache : cache[i].key = Key(s))

(* Mutant: the limit is passed by one. *)
GrowOnce(seq) == IF Len(seq) > Capacity + 1 THEN Tail(seq) ELSE seq
Evict(seq) == IF Len(seq) > Capacity THEN Tail(seq) ELSE seq

Entry(s, t) == [key |-> Key(s), token |-> t]

(* Mutant: what is put again keeps its place, as the first key would. *)
PutInPlace(s, t) ==
  IF Cached(s) = {} THEN Evict(Append(cache, Entry(s, t)))
  ELSE [i \in DOMAIN cache |-> IF cache[i].key = Key(s) THEN Entry(s, t) ELSE cache[i]]

Put(s, t) == Evict(Append(Without(s), Entry(s, t)))

-----------------------------------------------------------------------------
(* A call; one without an acceptable upstream token is answered before it  *)
(* gets here.                                                              *)

Hit(c, s) ==
  /\ doing[c] = "idle"
  /\ \E t \in Cached(s) :
       /\ Fresh(t)
       /\ held' = [held EXCEPT ![c] = t]
  /\ doing' = [doing EXCEPT ![c] = "identifying"]
  /\ subject' = [subject EXCEPT ![c] = s]
  /\ UNCHANGED <<endpoints, cache, wait, ended>>

Miss(c, s) ==
  /\ doing[c] = "idle"
  /\ \A t \in Cached(s) : ~Fresh(t)
  /\ cache' = Without(s)
  /\ doing' = [doing EXCEPT ![c] = IF endpoints THEN "asking" ELSE "discovering"]
  /\ subject' = [subject EXCEPT ![c] = s]
  /\ UNCHANGED <<endpoints, held, wait, ended>>

DiscoverProvider(c) ==
  /\ doing[c] = "discovering"
  /\ endpoints' = TRUE
  /\ doing' = [doing EXCEPT ![c] = "asking"]
  /\ UNCHANGED <<cache, subject, held, wait, ended>>

(* Errors of the request are reported, endpoints without TLS are raised.   *)
NoProvider(c) ==
  /\ doing[c] = "discovering"
  /\ Finish(c)
  /\ UNCHANGED <<endpoints, cache, ended>>

(* The provider issues a token, for a session that is on.                  *)
Grant(c) ==
  /\ doing[c] = "asking"
  /\ ended[subject[c]] = 0
  /\ \E l \in Lives :
       held' = [held EXCEPT ![c] = [owner |-> subject[c], life |-> l, kept |-> 0]]
  /\ doing' = [doing EXCEPT ![c] = "granted"]
  /\ UNCHANGED <<endpoints, cache, subject, wait, ended>>

(* Mutant: the request has no timeout. *)
OnlyRefusalsEnd(c) ==
  /\ doing[c] = "asking"
  /\ ended[subject[c]] > 0
  /\ Finish(c)
  /\ UNCHANGED <<endpoints, cache, ended>>

(* Refused, out of reach, timed out, or answered with something else: all  *)
(* but what is no JSON become an answer of the call.                       *)
NoGrant(c) ==
  /\ doing[c] = "asking"
  /\ Finish(c)
  /\ UNCHANGED <<endpoints, cache, ended>>

(* The lifetime counts from here.                                          *)
Arrive(c) ==
  /\ doing[c] = "granted"
  /\ cache' = Put(subject[c], held[c])
  /\ doing' = [doing EXCEPT ![c] = "identifying"]
  /\ wait' = [wait EXCEPT ![c] = 0]
  /\ UNCHANGED <<endpoints, subject, held, ended>>

(* The signature is checked, which may await a fetch of keys; then the     *)
(* tool runs with the token, which concerns no other call.                 *)
Identify(c) ==
  /\ doing[c] = "identifying"
  /\ Finish(c)
  /\ UNCHANGED <<endpoints, cache, ended>>

(* The thread that posts goes on, and what it returns is dropped.          *)
CancelExchange(c) ==
  /\ doing[c] # "idle"
  /\ Finish(c)
  /\ UNCHANGED <<endpoints, cache, ended>>

-----------------------------------------------------------------------------
(* The provider, and time.                                                 *)

EndSession(s) ==
  /\ s \in Mortal /\ ended[s] = 0
  /\ ended' = [ended EXCEPT ![s] = 1]
  /\ UNCHANGED <<endpoints, cache, doing, subject, held, wait>>

UnderWay == {c \in Calls : doing[c] \in {"granted", "identifying"}}
Kept(t, most) == [t EXCEPT !.kept = IF @ < most THEN @ + 1 ELSE @]

Tick ==
  /\ \A c \in UnderWay : wait[c] < Latency
  /\ cache' = [i \in DOMAIN cache |->
                 [key |-> cache[i].key, token |-> Kept(cache[i].token, Longest)]]
  /\ wait' = [c \in Calls |-> IF c \in UnderWay THEN wait[c] + 1 ELSE 0]
  /\ held' = [c \in Calls |->
                IF doing[c] = "identifying" THEN Kept(held[c], Longest + Latency)
                ELSE held[c]]
  /\ ended' = [s \in Subjects |->
                 IF ended[s] \in 1..(Oldest - 1) THEN ended[s] + 1 ELSE ended[s]]
  /\ UNCHANGED <<endpoints, doing, subject>>

Step(c) ==
  \/ \E s \in Subjects : Hit(c, s) \/ Miss(c, s)
  \/ DiscoverProvider(c) \/ NoProvider(c)
  \/ Grant(c) \/ NoGrant(c) \/ Arrive(c)
  \/ Identify(c) \/ CancelExchange(c)

ExchangeNext ==
  \/ \E c \in Calls : Step(c)
  \/ \E s \in Subjects : EndSession(s)
  \/ Tick

ExchangeSpec == ExchangeInit /\ [][ExchangeNext]_exchangeVars

(* What must happen: requests time out, the checks and the tools return.   *)
(* The provider need not answer.                                           *)
Expected(c) == NoProvider(c) \/ NoGrant(c) \/ Arrive(c) \/ Identify(c)

ExchangeFairness == \A c \in Calls : WF_exchangeVars(Expected(c))

-----------------------------------------------------------------------------
(* Properties.                                                             *)

(* The token a tool is given is the right one, whichever calls fill the    *)
(* cache beside its own.  It was exchanged for the upstream token of its   *)
(* own call.  As access_token promises tools a valid token, it had not     *)
(* expired for longer than the check of its signature took.  And since the *)
(* cache outlives a session by the lifetime of an entry, what is used      *)
(* later than that, and than an answer and a check may take, belongs to a  *)
(* session that is on.                                                     *)
RightToken ==
  \A c \in Calls : doing[c] = "identifying" =>
    /\ held[c].owner = subject[c]
    /\ held[c].kept < held[c].life + Latency
    /\ ended[subject[c]] <= Ttl + 2 * Latency

(* An entry that could still be used gives way only to younger ones, and   *)
(* only if these fill the cache.                                           *)
EvictsOldest ==
  [][\A e \in ToSet(cache) :
       Fresh(e.token) /\ e.key \notin {f.key : f \in ToSet(cache')} =>
         /\ Len(cache') = Capacity
         /\ \A f \in ToSet(cache') : f.token.kept <= e.token.kept]_cache

(* Every call comes to an end, whether or not the provider answers.        *)
ExchangesEnd == \A c \in Calls : doing[c] # "idle" ~> doing[c] = "idle"
=============================================================================
