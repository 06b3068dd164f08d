---------------------------- MODULE JWKSManager ----------------------------
(***************************************************************************)
(* auth/jwks_manager.py: the cache of an issuer's signing keys, shared by  *)
(* all the requests of the process.  A request that finds the cache empty  *)
(* waits on one shared future, which a task resolves; one that finds it    *)
(* stale is answered and starts a background task.  Both tasks run the     *)
(* same fetch: discover the key endpoint once, then ask it, with retries.  *)
(*                                                                         *)
(* The identity provider is external: it publishes one generation of keys  *)
(* at a time, answers a request when it likes, and may rotate between the  *)
(* answer and its arrival.  Nothing in asyncio.Lock's critical sections is *)
(* awaited, so each is part of the step that enters it.                    *)
(***************************************************************************)
EXTENDS Naturals, FiniteSets

CONSTANTS
  Requests,       \* the tool calls that verify a token
  Tasks,          \* a pool of asyncio tasks, to run fetches
  LastGen,        \* the provider rotates its keys this many times
  NoKeys,         \* _cached_keys is None
  NoTask,         \* _bg_task is None or done()
  Ttl,            \* cache_ttl, in ticks
  MaxStaleness,   \* max_staleness, in ticks
  MaxRetries,     \* max_retries
  Latency         \* the longest an answer travels, in ticks

(* The generations of keys the provider publishes, in this order. *)
Gens == 0..LastGen

ASSUME GensAssumption == LastGen \in Nat
ASSUME NullAssumption == NoKeys \notin Gens /\ NoTask \notin Tasks
(* config.py wants a ttl of a minute at least. *)
ASSUME TimeAssumption ==
  Ttl \in Nat \ {0} /\ MaxStaleness \in Nat /\ MaxRetries \in Nat /\ Latency \in Nat

VARIABLES
  idp,         \* the generation the provider publishes now
  retired,     \* history: how long each generation has been withdrawn
  uriKnown,    \* _jwks_uri is not None
  cached,      \* _cached_keys, as the generation they are
  age,         \* time since _last_successful_fetch
  future,      \* _inflight_future: "none", "pending", or "cancelled"
  bgTask,      \* _bg_task, while it is not done
  task,        \* the fetches that are running
  pc,          \* where each request is in get_signing_key
  kid          \* the key a request asks for; once answered, the key it got

vars == <<idp, retired, uriKnown, cached, age, future, bgTask, task, pc, kid>>

(* Ages are saturated above everything they are compared with.             *)
Oldest == IF Ttl > MaxStaleness THEN Ttl ELSE MaxStaleness
RetirementLimit == Oldest + Latency

Kinds == {"none", "coalesced", "background"}
Steps == {"none", "created", "discovering", "fetching", "backoff"}

TaskState == [kind : Kinds, step : Steps, tries : 0..MaxRetries,
              reply : Gens \cup {NoKeys}, wait : 0..Latency]

NoFetch == [kind |-> "none", step |-> "none", tries |-> 0,
            reply |-> NoKeys, wait |-> 0]

(* A request waits on the future until it is "resolved", "failed" or       *)
(* "aborted" (cancelled), and is then resumed; or it is answered at once.  *)
Woken == {"resolved", "failed", "aborted"}
Answered == {"got_key", "got_error", "got_cancelled"}

TypeOK ==
  /\ idp \in Gens
  /\ retired \in [Gens -> 0..RetirementLimit]
  /\ uriKnown \in BOOLEAN
  /\ cached \in Gens \cup {NoKeys}
  /\ age \in 0..Oldest
  /\ future \in {"none", "pending", "cancelled"}
  /\ bgTask \in Tasks \cup {NoTask}
  /\ task \in [Tasks -> TaskState]
  /\ pc \in [Requests -> {"idle", "waiting"} \cup Woken \cup Answered]
  /\ kid \in [Requests -> Gens]

Init ==
  /\ idp = 0
  /\ retired = [g \in Gens |-> 0]
  /\ uriKnown = FALSE
  /\ cached = NoKeys
  /\ age = Oldest
  /\ future = "none"
  /\ bgTask = NoTask
  /\ task = [t \in Tasks |-> NoFetch]
  /\ pc = [r \in Requests |-> "idle"]
  /\ kid = [r \in Requests |-> 0]

-----------------------------------------------------------------------------
(* Requests: get_signing_key, as verify_token awaits it.                   *)

requestVars == <<pc, kid>>
fetchVars == <<uriKnown, future, bgTask, task>>
cacheVars == <<cached, age>>
idpVars == <<idp, retired>>

Fresh == cached # NoKeys /\ age < Ttl
(* Mutant: no limit to staleness. *)
StaleForever == cached # NoKeys /\ age >= Ttl

Stale == cached # NoKeys /\ age >= Ttl /\ age < MaxStaleness
TooStale == cached # NoKeys /\ age >= Ttl /\ age >= MaxStaleness

(* A task of the pool starts to run a fetch. *)
Create(t, kind) ==
  /\ task[t] = NoFetch
  /\ task' = [task EXCEPT ![t] = [NoFetch EXCEPT !.kind = kind, !.step = "created"]]

(* _find_key: the cached set has the key or it has not; it is not fetched  *)
(* again for the sake of an unknown key.                                   *)
FindKey(r, k) ==
  /\ kid' = [kid EXCEPT ![r] = k]
  /\ pc' = [pc EXCEPT ![r] = IF cached = k THEN "got_key" ELSE "got_error"]

(* Tokens carry the kid of a generation that has been published. *)
Asks(r, k) == pc[r] = "idle" /\ k \in Gens /\ k <= idp

AnswerFresh(r, k) ==
  /\ Asks(r, k)
  /\ Fresh
  /\ FindKey(r, k)
  /\ UNCHANGED <<fetchVars, cacheVars, idpVars>>

(* Mutant: every stale answer starts a refresh. *)
AnswerStaleUnguarded(r, k) ==
  /\ Asks(r, k)
  /\ Stale
  /\ \E t \in Tasks : Create(t, "background") /\ bgTask' = t
  /\ FindKey(r, k)
  /\ UNCHANGED <<uriKnown, future, cacheVars, idpVars>>

(* _trigger_background_refresh, then _find_key, with no await between.     *)
AnswerStale(r, k) ==
  /\ Asks(r, k)
  /\ Stale
  /\ IF bgTask = NoTask
       THEN \E t \in Tasks : Create(t, "background") /\ bgTask' = t
       ELSE UNCHANGED <<task, bgTask>>
  /\ FindKey(r, k)
  /\ UNCHANGED <<uriKnown, future, cacheVars, idpVars>>

(* Keys that are too old are refused, and no refresh is started.           *)
RefuseTooStale(r, k) ==
  /\ Asks(r, k)
  /\ TooStale
  /\ kid' = [kid EXCEPT ![r] = k]
  /\ pc' = [pc EXCEPT ![r] = "got_error"]
  /\ UNCHANGED <<fetchVars, cacheVars, idpVars>>

(* _coalesced_fetch with no future: create one, and the task to resolve it.*)
StartFetch(r, k) ==
  /\ Asks(r, k)
  /\ cached = NoKeys
  /\ future = "none"
  /\ \E t \in Tasks : Create(t, "coalesced")
  /\ future' = "pending"
  /\ kid' = [kid EXCEPT ![r] = k]
  /\ pc' = [pc EXCEPT ![r] = "waiting"]
  /\ UNCHANGED <<uriKnown, bgTask, cached, age, idpVars>>

(* _coalesced_fetch with a future: await it.  One that was cancelled while *)
(* its task still runs raises CancelledError at once.                      *)
JoinFetch(r, k) ==
  /\ Asks(r, k)
  /\ cached = NoKeys
  /\ future # "none"
  /\ kid' = [kid EXCEPT ![r] = k]
  /\ pc' = [pc EXCEPT ![r] = IF future = "pending" THEN "waiting" ELSE "aborted"]
  /\ UNCHANGED <<fetchVars, cached, age, idpVars>>

(* A waiter is resumed, after whatever else ran since the future resolved. *)
Resume(r) ==
  /\ pc[r] \in Woken
  /\ CASE pc[r] = "resolved" -> FindKey(r, kid[r])
       [] pc[r] = "failed" ->
            pc' = [pc EXCEPT ![r] = "got_error"] /\ UNCHANGED kid
       [] OTHER ->
            pc' = [pc EXCEPT ![r] = "got_cancelled"] /\ UNCHANGED kid
  /\ UNCHANGED <<fetchVars, cacheVars, idpVars>>

Return(r) ==
  /\ pc[r] \in Answered
  /\ pc' = [pc EXCEPT ![r] = "idle"]
  /\ UNCHANGED <<kid, fetchVars, cacheVars, idpVars>>

(* The requests that wait on the future all leave it the same way. *)
Wake(how) == pc' = [r \in Requests |-> IF pc[r] = "waiting" THEN how ELSE pc[r]]

(* The client cancels a request.  The task awaits the shared future itself,*)
(* so the cancellation goes to the future, and to everyone who awaits it.  *)
Cancel(r) ==
  /\ pc[r] = "waiting"
  /\ future' = "cancelled"
  /\ Wake("aborted")
  /\ UNCHANGED <<kid, uriKnown, bgTask, task, cacheVars, idpVars>>

(* The future was resolved already: only this request is cancelled. *)
CancelResumed(r) ==
  /\ pc[r] \in {"resolved", "failed"}
  /\ pc' = [pc EXCEPT ![r] = "aborted"]
  /\ UNCHANGED <<kid, fetchVars, cacheVars, idpVars>>

Invalidate ==
  /\ cached' = NoKeys
  /\ age' = Oldest
  /\ UNCHANGED <<requestVars, fetchVars, idpVars>>

-----------------------------------------------------------------------------
(* Fetches: _fetch_jwks_with_backoff, and what each task does with it.     *)

Begin(t) ==
  /\ task[t].step = "created"
  /\ task' = [task EXCEPT ![t].step = IF uriKnown THEN "fetching" ELSE "discovering"]
  /\ UNCHANGED <<uriKnown, future, bgTask, requestVars, cacheVars, idpVars>>

Discover(t) ==
  /\ task[t].step = "discovering"
  /\ uriKnown' = TRUE
  /\ task' = [task EXCEPT ![t].step = "fetching"]
  /\ UNCHANGED <<future, bgTask, requestVars, cacheVars, idpVars>>

(* The provider answers; the answer takes up to Latency to arrive. *)
Serve(t) ==
  /\ task[t].step = "fetching"
  /\ task[t].reply = NoKeys
  /\ task' = [task EXCEPT ![t].reply = idp]
  /\ UNCHANGED <<uriKnown, future, bgTask, requestVars, cacheVars, idpVars>>

(* Mutant: stop_after_attempt counts one attempt too many. *)
RetryOnceMore(t) ==
  /\ task[t].step = "fetching"
  /\ task[t].tries <= MaxRetries
  /\ task' = [task EXCEPT ![t] =
       [kind |-> task[t].kind, step |-> "backoff", tries |-> task[t].tries + 1,
        reply |-> NoKeys, wait |-> 0]]
  /\ UNCHANGED <<uriKnown, future, bgTask, requestVars, cacheVars, idpVars>>

(* A 5xx or a network error, before or after the provider answered, while  *)
(* there are attempts left.                                                *)
Retry(t) ==
  /\ task[t].step = "fetching"
  /\ task[t].tries < MaxRetries
  /\ task' = [task EXCEPT ![t] =
       [kind |-> task[t].kind, step |-> "backoff", tries |-> task[t].tries + 1,
        reply |-> NoKeys, wait |-> 0]]
  /\ UNCHANGED <<uriKnown, future, bgTask, requestVars, cacheVars, idpVars>>

Resend(t) ==
  /\ task[t].step = "backoff"
  /\ task' = [task EXCEPT ![t].step = "fetching"]
  /\ UNCHANGED <<uriKnown, future, bgTask, requestVars, cacheVars, idpVars>>

(* Mutant: the future is cleared, but resolved only by a success. *)
EndInSilence(t, how) ==
  /\ task' = [task EXCEPT ![t] = NoFetch]
  /\ IF task[t].kind = "coalesced"
       THEN /\ future' = "none"
            /\ IF future = "pending" /\ how = "resolved" THEN Wake(how) ELSE UNCHANGED pc
            /\ UNCHANGED bgTask
       ELSE /\ bgTask' = NoTask
            /\ UNCHANGED <<future, pc>>

(* A coalesced fetch that ends resolves the future, unless a waiter has    *)
(* cancelled it, and clears it; set_result and the clearing are one step,  *)
(* the lock being free.  A background fetch tells nobody.                  *)
End(t, how) ==
  /\ task' = [task EXCEPT ![t] = NoFetch]
  /\ IF task[t].kind = "coalesced"
       THEN /\ future' = "none"
            /\ IF future = "pending" THEN Wake(how) ELSE UNCHANGED pc
            /\ UNCHANGED bgTask
       ELSE /\ bgTask' = NoTask
            /\ UNCHANGED <<future, pc>>

(* The cache is replaced by whichever fetch ends, in the order they end.   *)
Store(t) ==
  /\ cached' = task[t].reply
  /\ age' = 0

Arrive(t) ==
  /\ task[t].step = "fetching"
  /\ task[t].reply # NoKeys
  /\ Store(t)
  /\ End(t, "resolved")
  /\ UNCHANGED <<uriKnown, kid, idpVars>>

(* Discovery is not retried; a fetch gives up on a 4xx, on a refusal of    *)
(* the circuit breaker, on a body that is no key set, or after its last    *)
(* attempt.                                                                *)
GiveUp(t) ==
  /\ task[t].step \in {"discovering", "fetching"}
  /\ End(t, "failed")
  /\ UNCHANGED <<uriKnown, kid, cacheVars, idpVars>>

-----------------------------------------------------------------------------
(* The environment. *)

Rotate ==
  /\ idp + 1 \in Gens
  /\ idp' = idp + 1
  /\ UNCHANGED <<retired, requestVars, fetchVars, cacheVars>>

(* Ticks are seconds: a task the loop can run is run before the next one,  *)
(* and no answer travels longer than Latency.                              *)
Quiet ==
  /\ \A r \in Requests : pc[r] \in {"idle", "waiting"}
  /\ \A t \in Tasks :
       /\ task[t].step # "created"
       /\ task[t].reply # NoKeys => task[t].wait < Latency

Tick ==
  /\ Quiet
  /\ age' = IF age < Oldest THEN age + 1 ELSE age
  /\ retired' = [g \in Gens |->
       IF g < idp /\ retired[g] < RetirementLimit THEN retired[g] + 1
                                                   ELSE retired[g]]
  /\ task' = [t \in Tasks |->
       IF task[t].reply # NoKeys THEN [task[t] EXCEPT !.wait = @ + 1] ELSE task[t]]
  /\ UNCHANGED <<idp, uriKnown, cached, future, bgTask, requestVars>>

RequestStep(r) ==
  \/ \E k \in Gens :
       \/ AnswerFresh(r, k) \/ AnswerStale(r, k) \/ RefuseTooStale(r, k)
       \/ StartFetch(r, k) \/ JoinFetch(r, k)
  \/ Resume(r) \/ Return(r) \/ Cancel(r) \/ CancelResumed(r)

FetchStep(t) ==
  \/ Begin(t) \/ Discover(t) \/ Serve(t) \/ Retry(t) \/ Resend(t)
  \/ Arrive(t) \/ GiveUp(t)

Next ==
  \/ \E r \in Requests : RequestStep(r)
  \/ \E t \in Tasks : FetchStep(t)
  \/ Invalidate \/ Rotate \/ Tick

(* The event loop runs what is runnable, every HTTP request has a timeout, *)
(* the backoff ends, and time passes.  Nobody is obliged to ask, cancel or *)
(* rotate.                                                                 *)
Fairness ==
  /\ WF_vars(Tick)
  /\ \A r \in Requests : WF_vars(Resume(r) \/ Return(r))
  /\ \A t \in Tasks : WF_vars(FetchStep(t))

Spec == Init /\ [][Next]_vars

FairSpec == Spec /\ Fairness

(* Verification keeps being asked for, and the provider is well: a fetch   *)
(* that could succeed again and again does.                                *)
DemandSpec ==
  /\ FairSpec
  /\ \A r \in Requests : WF_vars(\E k \in Gens :
       \/ AnswerFresh(r, k) \/ AnswerStale(r, k) \/ RefuseTooStale(r, k)
       \/ StartFetch(r, k) \/ JoinFetch(r, k))
  /\ \A t \in Tasks : SF_vars(Arrive(t)) /\ SF_vars(Discover(t))

-----------------------------------------------------------------------------
Running(kind) == {t \in Tasks : task[t].kind = kind}

(* Coalescing: one task at most runs the fetch that requests wait for, and *)
(* it runs exactly as long as there is a future for it to resolve.         *)
OneCoalescedFetch ==
  /\ \A t, u \in Running("coalesced") : t = u
  /\ future # "none" <=> Running("coalesced") # {}

(* Nobody waits on a future that was cancelled or has gone.                *)
WaitersHaveAFuture ==
  \A r \in Requests : pc[r] = "waiting" => future = "pending"

(* One background refresh at most, and it is the one _bg_task remembers.   *)
OneBackgroundRefresh ==
  Running("background") = IF bgTask = NoTask THEN {} ELSE {bgTask}

(* However requests, cancellations, invalidations, retries and failures    *)
(* interleave, there is one fetch of each kind at most, the manager keeps  *)
(* track of it, and whoever waits, waits for one that is running.          *)
FetchesTracked == OneCoalescedFetch /\ WaitersHaveAFuture /\ OneBackgroundRefresh

(* The manager promises what SharedFetch states: requests without keys     *)
(* share one fetch and are told the same, one that is cancelled voids it   *)
(* for all until it has run out, and no second fetch of a kind is started, *)
(* whatever the cache is emptied of or filled with in the meantime.        *)
Told == [r \in Requests |->
  CASE pc[r] = "waiting" -> "wait" [] pc[r] \in Woken -> pc[r] [] OTHER -> "nothing"]

Flight == INSTANCE SharedFetch WITH
  Calls <- Requests, Fetchers <- Tasks,
  shared <- Running("coalesced"), refreshing <- Running("background"),
  void <- future = "cancelled", told <- Told

FlightSpec == Flight!Spec

(* A key is not used to verify tokens once it has been withdrawn for as    *)
(* long as the longer of the cache's two limits and the time an answer     *)
(* travels: not even when fetches overtake each other and an older set     *)
(* of keys replaces a newer one.                                           *)
RetiredKeyUnused ==
  \A r \in Requests : pc[r] = "got_key" => retired[kid[r]] < RetirementLimit

(* Every request that waits is answered, whoever cancels and whatever the  *)
(* fetch meets.                                                            *)
WaitersAnswered ==
  \A r \in Requests : (pc[r] = "waiting") ~> (pc[r] \in Answered)

-----------------------------------------------------------------------------
(* What the documents say, and the code does not do.                       *)

(* docs/GUIDE.md: when the provider recovers, "normal operation resumes    *)
(* automatically": keys that are too old do not stay so.                   *)
StalenessEnds == TooStale ~> ~TooStale
=============================================================================
