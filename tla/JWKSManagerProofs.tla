------------------------- MODULE JWKSManagerProofs -------------------------
(***************************************************************************)
(* The manager of signing keys, for any number of requests, of tasks and   *)
(* of rotations, and for any limits.                                       *)
(***************************************************************************)
EXTENDS JWKSManager, TLAPS

(* A task runs a fetch while it is in some step of it; an answer belongs   *)
(* to the attempt that is under way, and only it travels.                  *)
TasksConsistent ==
  \A t \in Tasks :
    /\ task[t].kind = "none" <=> task[t].step = "none"
    /\ task[t].step # "fetching" => task[t].reply = NoKeys
    /\ task[t].reply = NoKeys => task[t].wait = 0

(* What is published now has not been withdrawn.                           *)
PublishedInUse == \A g \in Gens : g >= idp => retired[g] = 0

(* Keys were published when the provider sent them, so they are withdrawn  *)
(* for no longer than they have travelled, or travelled and been cached.   *)
RepliesYoung ==
  \A t \in Tasks : task[t].reply # NoKeys => retired[task[t].reply] <= task[t].wait

CacheYoung == cached # NoKeys => retired[cached] <= age + Latency

(* While a waiter is woken no time passes: what it will look at is what    *)
(* the fetch has just stored, or another, or nothing.                      *)
WokenInTime ==
  \A r \in Requests : pc[r] = "resolved" => cached = NoKeys \/ age < Oldest

KeysInv ==
  /\ PublishedInUse /\ RepliesYoung /\ CacheYoung
  /\ WokenInTime /\ RetiredKeyUnused

-----------------------------------------------------------------------------
(* Types.                                                                  *)

LEMMA LimitsNat ==
  /\ Oldest \in Nat \ {0} /\ RetirementLimit \in Nat
  /\ Ttl <= Oldest /\ MaxStaleness <= Oldest
  /\ RetirementLimit = Oldest + Latency
BY TimeAssumption DEF Oldest, RetirementLimit

LEMMA NoFetchType == NoFetch \in TaskState
<1>1. 0 \in 0..MaxRetries /\ 0 \in 0..Latency
  BY TimeAssumption
<1>2. "none" \in Kinds /\ "none" \in Steps
  BY DEF Kinds, Steps
<1>3. QED
  BY <1>1, <1>2 DEF NoFetch, TaskState

LEMMA InitTypeOK == Init => TypeOK
<1> SUFFICES ASSUME Init PROVE TypeOK
  OBVIOUS
<1>1. 0 \in Gens /\ 0 \in 0..RetirementLimit /\ Oldest \in 0..Oldest
  BY GensAssumption, LimitsNat DEF Gens
<1>2. /\ idp \in Gens /\ cached \in Gens \cup {NoKeys} /\ age \in 0..Oldest
      /\ retired \in [Gens -> 0..RetirementLimit]
      /\ kid \in [Requests -> Gens]
  BY <1>1, Zenon DEF Init
<1>3. task \in [Tasks -> TaskState]
  BY NoFetchType, Zenon DEF Init
<1>4. /\ uriKnown \in BOOLEAN /\ bgTask \in Tasks \cup {NoTask}
      /\ future \in {"none", "pending", "cancelled"}
      /\ pc \in [Requests -> {"idle", "waiting"} \cup Woken \cup Answered]
  BY Zenon DEF Init
<1>5. QED
  BY <1>2, <1>3, <1>4, Zenon DEF TypeOK

(* The requests' own variables stay well typed, whatever wakes them.       *)
LEMMA WakeType ==
  ASSUME TypeOK, NEW how \in Woken, Wake(how)
  PROVE  pc' \in [Requests -> {"idle", "waiting"} \cup Woken \cup Answered]
BY Zenon DEF Wake, TypeOK

LEMMA FindKeyType ==
  ASSUME TypeOK, NEW r \in Requests, NEW k \in Gens, FindKey(r, k)
  PROVE  /\ pc' \in [Requests -> {"idle", "waiting"} \cup Woken \cup Answered]
         /\ kid' \in [Requests -> Gens]
<1>1. (IF cached = k THEN "got_key" ELSE "got_error") \in Answered
  BY DEF Answered
<1>2. QED
  BY <1>1, Zenon DEF FindKey, TypeOK

LEMMA CreateType ==
  ASSUME TypeOK, NEW t \in Tasks, NEW kind \in Kinds, Create(t, kind)
  PROVE  task' \in [Tasks -> TaskState]
<1>1. [NoFetch EXCEPT !.kind = kind, !.step = "created"] \in TaskState
  BY NoFetchType DEF NoFetch, TaskState, Steps
<1>2. QED
  BY <1>1, Zenon DEF Create, TypeOK

LEMMA EndType ==
  ASSUME TypeOK, NEW t \in Tasks, NEW how \in Woken, End(t, how)
  PROVE  /\ task' \in [Tasks -> TaskState]
         /\ future' \in {"none", "pending", "cancelled"}
         /\ bgTask' \in Tasks \cup {NoTask}
         /\ pc' \in [Requests -> {"idle", "waiting"} \cup Woken \cup Answered]
<1>1. task' \in [Tasks -> TaskState]
  BY NoFetchType, Zenon DEF End, TypeOK
<1>2. /\ future' \in {"none", "pending", "cancelled"}
      /\ bgTask' \in Tasks \cup {NoTask}
  BY Zenon DEF End, TypeOK
<1>3. pc' \in [Requests -> {"idle", "waiting"} \cup Woken \cup Answered]
  <2>1. CASE task[t].kind = "coalesced" /\ future = "pending"
    BY <2>1, WakeType, Zenon DEF End
  <2>2. CASE ~(task[t].kind = "coalesced" /\ future = "pending")
    BY <2>2, Zenon DEF End, TypeOK
  <2>3. QED
    BY <2>1, <2>2, Zenon
<1>4. QED
  BY <1>1, <1>2, <1>3

LEMMA RequestTypeOK ==
  ASSUME TypeOK, NEW r \in Requests, RequestStep(r)
  PROVE  TypeOK'
<1> USE DEF TypeOK, requestVars, fetchVars, cacheVars, idpVars
<1>0. "background" \in Kinds /\ "coalesced" \in Kinds
  BY DEF Kinds
<1>1. ASSUME NEW k \in Gens, AnswerFresh(r, k) PROVE TypeOK'
  BY <1>1, FindKeyType, Zenon DEF AnswerFresh
<1>2. ASSUME NEW k \in Gens, AnswerStale(r, k) PROVE TypeOK'
  <2>1. task' \in [Tasks -> TaskState] /\ bgTask' \in Tasks \cup {NoTask}
    BY <1>2, <1>0, CreateType, Zenon DEF AnswerStale
  <2>2. QED
    BY <1>2, <2>1, FindKeyType, Zenon DEF AnswerStale
<1>3. ASSUME NEW k \in Gens, RefuseTooStale(r, k) PROVE TypeOK'
  BY <1>3, Zenon DEF RefuseTooStale, Answered
<1>4. ASSUME NEW k \in Gens, StartFetch(r, k) PROVE TypeOK'
  <2>1. task' \in [Tasks -> TaskState]
    BY <1>4, <1>0, CreateType, Zenon DEF StartFetch
  <2>2. QED
    BY <1>4, <2>1, Zenon DEF StartFetch
<1>5. ASSUME NEW k \in Gens, JoinFetch(r, k) PROVE TypeOK'
  BY <1>5, Zenon DEF JoinFetch, Woken
<1>6. CASE Resume(r)
  <2>1. /\ pc' \in [Requests -> {"idle", "waiting"} \cup Woken \cup Answered]
        /\ kid' \in [Requests -> Gens]
    <3>1. CASE pc[r] = "resolved"
      BY <1>6, <3>1, FindKeyType, Zenon DEF Resume
    <3>2. CASE pc[r] = "failed"
      BY <1>6, <3>2, Zenon DEF Resume, Answered
    <3>3. CASE pc[r] \notin {"resolved", "failed"}
      BY <1>6, <3>3, Zenon DEF Resume, Answered
    <3>4. QED
      BY <3>1, <3>2, <3>3, Zenon
  <2>2. QED
    BY <1>6, <2>1, Zenon DEF Resume
<1>7. CASE Return(r)
  BY <1>7, Zenon DEF Return
<1>8. CASE Cancel(r)
  BY <1>8, WakeType, Zenon DEF Cancel, Woken
<1>9. CASE CancelResumed(r)
  BY <1>9, Zenon DEF CancelResumed, Woken
<1>10. QED
  BY <1>1, <1>2, <1>3, <1>4, <1>5, <1>6, <1>7, <1>8, <1>9, Zenon DEF RequestStep

(* Only these fields of one task change as a fetch advances.               *)
LEMMA FetchTypeOK ==
  ASSUME TypeOK, NEW t \in Tasks, FetchStep(t)
  PROVE  TypeOK'
<1> USE DEF TypeOK, requestVars, fetchVars, cacheVars, idpVars
<1>0. /\ task[t] \in TaskState
      /\ "resolved" \in Woken /\ "failed" \in Woken
  BY DEF Woken
<1>1. CASE Begin(t) \/ Discover(t) \/ Resend(t)
  <2>1. PICK s \in Steps : task' = [task EXCEPT ![t].step = s]
    <3>1. "fetching" \in Steps /\ "discovering" \in Steps
      BY DEF Steps
    <3>2. QED
      BY <1>1, <3>1, Zenon DEF Begin, Discover, Resend
  <2>2. [task[t] EXCEPT !.step = s] \in TaskState
    BY <1>0 DEF TaskState
  <2>3. task' \in [Tasks -> TaskState]
    BY <2>1, <2>2, Zenon
  <2>4. QED
    BY <1>1, <2>3, Zenon DEF Begin, Discover, Resend
<1>2. CASE Serve(t)
  <2>1. [task[t] EXCEPT !.reply = idp] \in TaskState
    BY <1>0 DEF TaskState
  <2>2. task' \in [Tasks -> TaskState]
    BY <1>2, <2>1, Zenon DEF Serve
  <2>3. QED
    BY <1>2, <2>2, Zenon DEF Serve
<1>3. CASE Retry(t)
  <2>1. [kind |-> task[t].kind, step |-> "backoff", tries |-> task[t].tries + 1,
        reply |-> NoKeys, wait |-> 0] \in TaskState
    BY <1>0, <1>3, TimeAssumption DEF TaskState, Steps, Retry
  <2>2. task' \in [Tasks -> TaskState]
    BY <1>3, <2>1, Zenon DEF Retry
  <2>3. QED
    BY <1>3, <2>2, Zenon DEF Retry
<1>4. CASE Arrive(t)
  <2>1. cached' \in Gens \cup {NoKeys}
    BY <1>0, <1>4 DEF Arrive, Store, TaskState
  <2>2. age' \in 0..Oldest
    BY <1>4, LimitsNat DEF Arrive, Store
  <2>3. QED
    BY <1>0, <1>4, <2>1, <2>2, EndType, Zenon DEF Arrive
<1>5. CASE GiveUp(t)
  BY <1>0, <1>5, EndType, Zenon DEF GiveUp
<1>6. QED
  BY <1>1, <1>2, <1>3, <1>4, <1>5, Zenon DEF FetchStep

LEMMA EnvironmentTypeOK ==
  ASSUME TypeOK, Invalidate \/ Rotate \/ Tick
  PROVE  TypeOK'
<1> USE DEF TypeOK, requestVars, fetchVars, cacheVars, idpVars
<1>1. CASE Invalidate
  <2>1. age' \in 0..Oldest
    BY <1>1, LimitsNat DEF Invalidate
  <2>2. QED
    BY <1>1, <2>1, Zenon DEF Invalidate
<1>2. CASE Rotate
  BY <1>2, Zenon DEF Rotate
<1>3. CASE Tick
  <2>1. age' \in 0..Oldest
    BY <1>3, LimitsNat DEF Tick
  <2>2. retired' \in [Gens -> 0..RetirementLimit]
    <3>1. ASSUME NEW g \in Gens PROVE retired'[g] \in 0..RetirementLimit
      BY <1>3, LimitsNat DEF Tick
    <3>2. retired' = [g \in Gens |-> retired'[g]]
      BY <1>3, Zenon DEF Tick
    <3>3. QED
      BY <3>1, <3>2, Zenon
  <2>3. task' \in [Tasks -> TaskState]
    <3>1. ASSUME NEW t \in Tasks PROVE task'[t] \in TaskState
      <4>1. CASE task[t].reply # NoKeys
        <5>1. task[t].wait + 1 \in 0..Latency
          BY <1>3, <4>1, TimeAssumption DEF Tick, Quiet, TaskState
        <5>2. [task[t] EXCEPT !.wait = @ + 1] \in TaskState
          BY <5>1 DEF TaskState
        <5>3. QED
          BY <1>3, <4>1, <5>2, Zenon DEF Tick
      <4>2. CASE task[t].reply = NoKeys
        BY <1>3, <4>2, Zenon DEF Tick
      <4>3. QED
        BY <4>1, <4>2
    <3>2. task' = [t \in Tasks |-> task'[t]]
      BY <1>3, Zenon DEF Tick
    <3>3. QED
      BY <3>1, <3>2, Zenon
  <2>4. QED
    BY <1>3, <2>1, <2>2, <2>3, Zenon DEF Tick
<1>4. QED
  BY <1>1, <1>2, <1>3, Zenon

LEMMA NextTypeOK == TypeOK /\ [Next]_vars => TypeOK'
<1> SUFFICES ASSUME TypeOK, [Next]_vars PROVE TypeOK'
  OBVIOUS
<1>1. CASE UNCHANGED vars
  BY <1>1, Zenon DEF vars, TypeOK
<1>2. CASE Next
  BY <1>2, RequestTypeOK, FetchTypeOK, EnvironmentTypeOK, Zenon DEF Next
<1>3. QED
  BY <1>1, <1>2, Zenon

(* Every state of the manager is of its types (JWKSManager.__init__).      *)
THEOREM TypeInvariant == Spec => []TypeOK
BY InitTypeOK, NextTypeOK, PTL DEF Spec

-----------------------------------------------------------------------------
(* Fetches are tracked.                                                    *)

TrackInv == TasksConsistent /\ FetchesTracked

LEMMA InitTracked == Init => TrackInv
<1> SUFFICES ASSUME Init PROVE TrackInv
  OBVIOUS
<1>1. \A t \in Tasks : task[t] = NoFetch
  BY Zenon DEF Init
<1>2. TasksConsistent
  BY <1>1 DEF TasksConsistent, NoFetch
<1>3. Running("coalesced") = {} /\ Running("background") = {}
  BY <1>1 DEF Running, NoFetch
<1>4. FetchesTracked
  BY <1>3 DEF Init, FetchesTracked, OneCoalescedFetch, WaitersHaveAFuture,
              OneBackgroundRefresh
<1>5. QED
  BY <1>2, <1>4 DEF TrackInv

(* A step of one task that keeps what it fetches for changes no set of     *)
(* running fetches.                                                        *)
LEMMA RunningKept ==
  ASSUME TypeOK, TypeOK', \A t \in Tasks : task'[t].kind = task[t].kind, NEW kind
  PROVE  Running(kind)' = Running(kind)
BY DEF Running

LEMMA TrackedKept ==
  ASSUME TypeOK, TypeOK', FetchesTracked,
         \A t \in Tasks : task'[t].kind = task[t].kind,
         future' = future, bgTask' = bgTask,
         \A r \in Requests : pc'[r] = "waiting" => pc[r] = "waiting" \/ future = "pending"
  PROVE  FetchesTracked'
<1>1. /\ Running("coalesced")' = Running("coalesced")
      /\ Running("background")' = Running("background")
  BY RunningKept
<1>2. OneCoalescedFetch'
  BY <1>1 DEF FetchesTracked, OneCoalescedFetch
<1>3. WaitersHaveAFuture'
  BY DEF FetchesTracked, WaitersHaveAFuture
<1>4. OneBackgroundRefresh'
  BY <1>1 DEF FetchesTracked, OneBackgroundRefresh
<1>5. QED
  BY <1>2, <1>3, <1>4 DEF FetchesTracked

LEMMA CreateTracked ==
  ASSUME TypeOK, TasksConsistent, NEW t \in Tasks, NEW kind \in Kinds \ {"none"},
         Create(t, kind)
  PROVE  /\ TasksConsistent'
         /\ t \notin Running(kind)
         /\ Running(kind)' = Running(kind) \cup {t}
         /\ \A other \in Kinds \ {"none", kind} : Running(other)' = Running(other)
<1>1. /\ task[t] = NoFetch
      /\ task'[t].kind = kind /\ task'[t].step = "created"
      /\ task'[t].reply = NoKeys /\ task'[t].wait = 0
      /\ \A u \in Tasks : u # t => task'[u] = task[u]
  BY DEF Create, NoFetch, TypeOK
<1>2. task[t].kind = "none"
  BY <1>1 DEF NoFetch
<1>3. TasksConsistent'
  BY <1>1 DEF TasksConsistent
<1>4. QED
  BY <1>1, <1>2, <1>3 DEF Running

(* A fetch ends: of its kind there is none left, of the other all that     *)
(* were, and who waited for it is told.                                    *)
LEMMA EndRuns ==
  ASSUME TypeOK, TypeOK', TrackInv, NEW t \in Tasks, task[t].step # "none",
         NEW how \in Woken, End(t, how)
  PROVE  /\ TasksConsistent'
         /\ \/ /\ Running("coalesced") = {t} /\ Running("coalesced")' = {}
               /\ Running("background")' = Running("background")
               /\ future' = "none" /\ bgTask' = bgTask
               /\ \A r \in Requests : pc'[r] = IF pc[r] = "waiting" THEN how ELSE pc[r]
            \/ /\ Running("background") = {t} /\ Running("background")' = {}
               /\ Running("coalesced")' = Running("coalesced")
               /\ bgTask' = NoTask /\ future' = future /\ pc' = pc
<1>1. /\ task'[t] = NoFetch
      /\ \A u \in Tasks : u # t => task'[u] = task[u]
  BY DEF End, TypeOK
<1>2. TasksConsistent'
  BY <1>1 DEF TrackInv, TasksConsistent, NoFetch
<1>3. task'[t].kind = "none" /\ task[t].kind \in {"coalesced", "background"}
  BY <1>1 DEF TrackInv, TasksConsistent, NoFetch, TypeOK, TaskState, Kinds
<1>4. CASE task[t].kind = "coalesced"
  <2>1. t \in Running("coalesced")
    BY <1>4 DEF Running
  <2>2. \A u \in Running("coalesced") : u = t
    BY <2>1 DEF TrackInv, FetchesTracked, OneCoalescedFetch
  <2>3. Running("coalesced") = {t} /\ Running("coalesced")' = {}
    BY <1>1, <1>3, <2>1, <2>2 DEF Running
  <2>4. Running("background")' = Running("background")
    BY <1>1, <1>3, <1>4 DEF Running
  <2>5. future' = "none" /\ bgTask' = bgTask
    BY <1>4, Zenon DEF End
  <2>6. \A r \in Requests : pc'[r] = IF pc[r] = "waiting" THEN how ELSE pc[r]
    <3>1. CASE future = "pending"
      BY <1>4, <3>1 DEF End, Wake
    <3>2. CASE future # "pending"
      BY <1>4, <3>2 DEF End, TrackInv, FetchesTracked, WaitersHaveAFuture
    <3>3. QED
      BY <3>1, <3>2
  <2>7. QED
    BY <1>2, <2>3, <2>4, <2>5, <2>6
<1>5. CASE task[t].kind = "background"
  <2>1. t \in Running("background")
    BY <1>5 DEF Running
  <2>2. bgTask = t /\ Running("background") = {t}
    BY <2>1 DEF TrackInv, FetchesTracked, OneBackgroundRefresh
  <2>3. Running("background")' = {}
    BY <1>1, <1>3, <2>2 DEF Running
  <2>4. Running("coalesced")' = Running("coalesced")
    BY <1>1, <1>3, <1>5 DEF Running
  <2>5. future' = future /\ bgTask' = NoTask /\ pc' = pc
    BY <1>5 DEF End
  <2>6. QED
    BY <1>2, <2>2, <2>3, <2>4, <2>5
<1>6. QED
  BY <1>3, <1>4, <1>5

LEMMA EndTracked ==
  ASSUME TypeOK, TypeOK', TrackInv, NEW t \in Tasks, task[t].step # "none",
         NEW how \in Woken, End(t, how)
  PROVE  TrackInv'
<1> USE DEF TrackInv, FetchesTracked
<1>1. CASE Running("coalesced")' = {}
  BY <1>1, EndRuns DEF OneCoalescedFetch, WaitersHaveAFuture, OneBackgroundRefresh, Woken
<1>2. CASE Running("background")' = {}
  BY <1>2, EndRuns DEF OneCoalescedFetch, WaitersHaveAFuture, OneBackgroundRefresh, Woken
<1>3. QED
  BY <1>1, <1>2, EndRuns

LEMMA RequestTracked ==
  ASSUME TypeOK, TypeOK', TrackInv, NEW r \in Requests, RequestStep(r)
  PROVE  TrackInv'
<1> USE DEF requestVars, fetchVars, cacheVars, idpVars
<1> DEFINE Same ==
      /\ task' = task /\ future' = future /\ bgTask' = bgTask
      /\ \A q \in Requests : pc'[q] = "waiting" => pc[q] = "waiting" \/ future = "pending"
<1>1. ASSUME Same PROVE TrackInv'
  <2>1. TasksConsistent'
    BY <1>1, Zenon DEF TrackInv, TasksConsistent
  <2>2. \A t \in Tasks : task'[t].kind = task[t].kind
    BY <1>1, Zenon
  <2>3. FetchesTracked'
    BY <1>1, <2>2, TrackedKept, Zenon DEF TrackInv
  <2>4. QED
    BY <2>1, <2>3 DEF TrackInv
<1>2. ASSUME NEW k \in Gens, AnswerFresh(r, k) \/ RefuseTooStale(r, k) PROVE Same
  BY <1>2 DEF AnswerFresh, RefuseTooStale, FindKey, TypeOK
<1>3. ASSUME NEW k \in Gens, AnswerStale(r, k) PROVE TrackInv'
  <2>0. future' = future /\ (\A q \in Requests : pc'[q] = "waiting" => pc[q] = "waiting")
    BY <1>3 DEF AnswerStale, FindKey, TypeOK
  <2>1. CASE bgTask = NoTask
    <3>1. PICK t \in Tasks : Create(t, "background") /\ bgTask' = t
      BY <1>3, <2>1 DEF AnswerStale
    <3>2. /\ TasksConsistent'
          /\ Running("background")' = Running("background") \cup {t}
          /\ Running("coalesced")' = Running("coalesced")
      BY <3>1, CreateTracked DEF TrackInv, Kinds
    <3>3. Running("background")' = {t}
      BY <2>1, <3>2 DEF TrackInv, FetchesTracked, OneBackgroundRefresh
    <3>4. OneBackgroundRefresh'
      BY <3>1, <3>3, NullAssumption DEF OneBackgroundRefresh
    <3>5. OneCoalescedFetch' /\ WaitersHaveAFuture'
      BY <2>0, <3>2 DEF TrackInv, FetchesTracked, OneCoalescedFetch, WaitersHaveAFuture
    <3>6. QED
      BY <3>2, <3>4, <3>5 DEF TrackInv, FetchesTracked
  <2>2. CASE bgTask # NoTask
    <3>1. Same
      BY <1>3, <2>0, <2>2 DEF AnswerStale
    <3>2. QED
      BY <1>1, <3>1
  <2>3. QED
    BY <2>1, <2>2
<1>4. ASSUME NEW k \in Gens, StartFetch(r, k) PROVE TrackInv'
  <2>1. PICK t \in Tasks : Create(t, "coalesced")
    BY <1>4 DEF StartFetch
  <2>2. /\ TasksConsistent'
        /\ Running("coalesced")' = Running("coalesced") \cup {t}
        /\ Running("background")' = Running("background")
    BY <2>1, CreateTracked DEF TrackInv, Kinds
  <2>3. Running("coalesced")' = {t}
    BY <1>4, <2>2 DEF TrackInv, FetchesTracked, OneCoalescedFetch, StartFetch
  <2>4. OneCoalescedFetch'
    BY <1>4, <2>3 DEF OneCoalescedFetch, StartFetch
  <2>5. OneBackgroundRefresh' /\ WaitersHaveAFuture'
    BY <1>4, <2>2 DEF TrackInv, FetchesTracked, OneBackgroundRefresh,
                      WaitersHaveAFuture, StartFetch
  <2>6. QED
    BY <2>2, <2>4, <2>5 DEF TrackInv, FetchesTracked
<1>5. ASSUME NEW k \in Gens, JoinFetch(r, k) PROVE Same
  BY <1>5 DEF JoinFetch, TypeOK
<1>6. CASE Resume(r) \/ Return(r) \/ CancelResumed(r)
  <2>1. Same
    BY <1>6 DEF Resume, Return, CancelResumed, FindKey, TypeOK
  <2>2. QED
    BY <1>1, <2>1
<1>7. CASE Cancel(r)
  <2>1. /\ task' = task /\ bgTask' = bgTask /\ future' = "cancelled"
        /\ \A q \in Requests : pc'[q] # "waiting"
    BY <1>7 DEF Cancel, Wake
  <2>2. future = "pending"
    BY <1>7 DEF Cancel, TrackInv, FetchesTracked, WaitersHaveAFuture
  <2>3. TasksConsistent'
    BY <2>1, Zenon DEF TrackInv, TasksConsistent
  <2>4. \A t \in Tasks : task'[t].kind = task[t].kind
    BY <2>1, Zenon
  <2>5. /\ Running("coalesced")' = Running("coalesced")
        /\ Running("background")' = Running("background")
    BY <2>4, RunningKept
  <2>6. FetchesTracked'
    BY <2>1, <2>2, <2>5 DEF TrackInv, FetchesTracked, OneCoalescedFetch,
                            WaitersHaveAFuture, OneBackgroundRefresh
  <2>7. QED
    BY <2>3, <2>6 DEF TrackInv
<1> HIDE DEF Same
<1>8. QED
  BY <1>1, <1>2, <1>3, <1>4, <1>5, <1>6, <1>7, Zenon DEF RequestStep

(* A fetch that goes on is the same fetch.                                 *)
LEMMA FetchGoesOn ==
  ASSUME TypeOK, TypeOK', TrackInv, NEW t \in Tasks,
         Begin(t) \/ Discover(t) \/ Serve(t) \/ Retry(t) \/ Resend(t)
  PROVE  TrackInv'
<1>1. /\ future' = future /\ bgTask' = bgTask /\ pc' = pc
      /\ \A u \in Tasks : u # t => task'[u] = task[u]
  BY DEF Begin, Discover, Serve, Retry, Resend, requestVars, TypeOK
<1>2. /\ task'[t].kind = task[t].kind
      /\ task[t].step # "none" /\ task'[t].step # "none"
  BY DEF Begin, Discover, Serve, Retry, Resend, TypeOK, TaskState
<1>3. /\ task'[t].step # "fetching" => task'[t].reply = NoKeys
      /\ task'[t].reply = NoKeys => task'[t].wait = 0
  BY DEF Begin, Discover, Serve, Retry, Resend, TypeOK, TaskState, TrackInv,
         TasksConsistent
<1>4. TasksConsistent'
  BY <1>1, <1>2, <1>3 DEF TrackInv, TasksConsistent
<1>5. FetchesTracked'
  BY <1>1, <1>2, TrackedKept DEF TrackInv
<1>6. QED
  BY <1>4, <1>5 DEF TrackInv

LEMMA NextTracked == TypeOK /\ TypeOK' /\ TrackInv /\ [Next]_vars => TrackInv'
<1> SUFFICES ASSUME TypeOK, TypeOK', TrackInv, [Next]_vars PROVE TrackInv'
  OBVIOUS
<1>1. ASSUME task' = task, future' = future, bgTask' = bgTask, pc' = pc
      PROVE  TrackInv'
  BY <1>1, TrackedKept, Zenon DEF TrackInv, TasksConsistent
<1>2. ASSUME NEW t \in Tasks, FetchStep(t) PROVE TrackInv'
  <2>1. CASE Arrive(t) \/ GiveUp(t)
    BY <2>1, EndTracked DEF Arrive, GiveUp, Woken
  <2>2. QED
    BY <1>2, <2>1, FetchGoesOn, Zenon DEF FetchStep
<1>3. CASE Tick
  <2>1. /\ future' = future /\ bgTask' = bgTask /\ pc' = pc
        /\ \A t \in Tasks :
             /\ task'[t].kind = task[t].kind /\ task'[t].step = task[t].step
             /\ task'[t].reply = task[t].reply
             /\ task[t].reply = NoKeys => task'[t].wait = task[t].wait
    BY <1>3 DEF Tick, TypeOK, TaskState, requestVars
  <2>2. TasksConsistent'
    BY <2>1 DEF TrackInv, TasksConsistent
  <2>3. FetchesTracked'
    BY <2>1, TrackedKept DEF TrackInv
  <2>4. QED
    BY <2>2, <2>3 DEF TrackInv
<1>4. CASE Invalidate \/ Rotate \/ UNCHANGED vars
  BY <1>1, <1>4 DEF Invalidate, Rotate, vars, fetchVars, requestVars
<1>5. QED
  BY <1>2, <1>3, <1>4, RequestTracked, Zenon DEF Next

LEMMA TrackInvariant == Spec => []TrackInv
BY InitTracked, NextTracked, TypeInvariant, PTL DEF Spec

(* However requests are cancelled and caches invalidated, one fetch of     *)
(* each kind runs at most, the manager keeps track of it, and nobody waits *)
(* in vain (JWKSManager._coalesced_fetch, _trigger_background_refresh).    *)
THEOREM FetchesAreTracked == Spec => []FetchesTracked
<1>1. TrackInv => FetchesTracked
  BY DEF TrackInv
<1>2. QED
  BY <1>1, TrackInvariant, PTL

-----------------------------------------------------------------------------
(* Requests that need keys share their fetch.                              *)

(* What a request has been told, but for those that wait or are woken, is  *)
(* nothing.                                                                *)
Untold == {"idle"} \cup Answered

LEMMA ToldKept ==
  ASSUME \A r \in Requests : pc'[r] = pc[r] \/ (pc[r] \in Untold /\ pc'[r] \in Untold)
  PROVE  Told' = Told
BY DEF Told, Untold, Answered, Woken

LEMMA ToldOne ==
  ASSUME NEW r \in Requests, \A q \in Requests : q # r => pc'[q] = pc[q]
  PROVE  /\ pc[r] \in Untold => Told[r] = "nothing"
         /\ pc[r] = "waiting" => Told[r] = "wait"
         /\ pc[r] \in Woken => Told[r] = pc[r]
         /\ pc'[r] \in Untold => Flight!Tell(r, "nothing")
         /\ pc'[r] = "waiting" => Flight!Tell(r, "wait")
         /\ pc'[r] = "aborted" => Flight!Tell(r, "aborted")
BY DEF Told, Untold, Answered, Woken, Flight!Tell

LEMMA ToldAll ==
  ASSUME NEW how \in Woken,
         \A r \in Requests : pc'[r] = IF pc[r] = "waiting" THEN how ELSE pc[r]
  PROVE  Flight!TellAll(how)
BY DEF Told, Woken, Flight!TellAll

(* A step that leaves fetches and their future as they are.                *)
FlightGoesOn ==
  /\ UNCHANGED future
  /\ \A t \in Tasks : task'[t].kind = task[t].kind

LEMMA GoesOnRuns ==
  ASSUME FlightGoesOn
  PROVE  /\ Running("coalesced")' = Running("coalesced")
         /\ Running("background")' = Running("background")
         /\ (future = "cancelled")' = (future = "cancelled")
BY DEF FlightGoesOn, Running

FlightStep == Flight!Next \/ UNCHANGED Flight!vars

LEMMA AnswerFlies ==
  ASSUME TypeOK, TypeOK', TrackInv, NEW r \in Requests, NEW k \in Gens,
         AnswerFresh(r, k) \/ AnswerStale(r, k) \/ RefuseTooStale(r, k)
  PROVE  FlightStep
<1>1. future' = future /\ Told' = Told
  <2>1. /\ \A q \in Requests : pc'[q] = pc[q] \/ (pc[q] = "idle" /\ pc'[q] \in Answered)
        /\ future' = future
    BY DEF AnswerFresh, AnswerStale, RefuseTooStale, Asks, FindKey, fetchVars, Answered,
           TypeOK
  <2>2. QED
    BY <2>1, ToldKept DEF Untold
<1>2. CASE task' = task
  <2>1. QED
    BY <1>1, <1>2, GoesOnRuns DEF FlightGoesOn, FlightStep, Flight!vars
<1>3. CASE AnswerStale(r, k) /\ bgTask = NoTask
  <2>1. PICK t \in Tasks : Create(t, "background")
    BY <1>3 DEF AnswerStale
  <2>2. /\ Running("background")' = Running("background") \cup {t}
        /\ Running("coalesced")' = Running("coalesced")
    BY <2>1, CreateTracked DEF TrackInv, Kinds
  <2>3. Running("background") = {} /\ t \notin Running("coalesced")
    BY <1>3, <2>1 DEF TrackInv, FetchesTracked, OneBackgroundRefresh, Create, NoFetch,
                      Running
  <2>4. Flight!Refresh
    BY <1>1, <2>2, <2>3 DEF Flight!Refresh
  <2>5. QED
    BY <2>4 DEF FlightStep, Flight!Next
<1>4. QED
  BY <1>2, <1>3 DEF AnswerFresh, AnswerStale, RefuseTooStale, fetchVars

LEMMA FetchOpens ==
  ASSUME TypeOK, TypeOK', TrackInv, NEW r \in Requests, NEW k \in Gens, StartFetch(r, k)
  PROVE  Flight!Open(r)
<1>1. PICK t \in Tasks : Create(t, "coalesced")
  BY DEF StartFetch
<1>2. /\ Running("coalesced")' = Running("coalesced") \cup {t}
      /\ Running("background")' = Running("background")
  BY <1>1, CreateTracked DEF TrackInv, Kinds
<1>3. Running("coalesced") = {} /\ t \notin Running("background")
  BY <1>1 DEF StartFetch, TrackInv, FetchesTracked, OneCoalescedFetch, Create, NoFetch,
              Running
<1>4. Told[r] = "nothing" /\ Flight!Tell(r, "wait")
  BY ToldOne DEF StartFetch, Asks, Untold, TypeOK
<1>5. QED
  BY <1>2, <1>3, <1>4 DEF Flight!Open, StartFetch

LEMMA WaiterFlies ==
  ASSUME TypeOK, TypeOK', TrackInv, NEW r \in Requests,
         \/ \E k \in Gens : JoinFetch(r, k)
         \/ Resume(r) \/ Return(r) \/ Cancel(r) \/ CancelResumed(r)
  PROVE  FlightStep
<1> USE DEF requestVars, fetchVars, cacheVars, idpVars
<1>1. CASE \E k \in Gens : JoinFetch(r, k)
  <2>1. /\ pc[r] = "idle" /\ future # "none" /\ UNCHANGED <<future, task>>
        /\ pc'[r] = IF future = "pending" THEN "waiting" ELSE "aborted"
        /\ \A q \in Requests : q # r => pc'[q] = pc[q]
    BY <1>1 DEF JoinFetch, Asks, TypeOK
  <2>2. Running("coalesced") # {}
    BY <2>1 DEF TrackInv, FetchesTracked, OneCoalescedFetch
  <2>3. /\ Told[r] = "nothing"
        /\ Flight!Tell(r, IF future = "cancelled" THEN "aborted" ELSE "wait")
    BY <2>1, ToldOne DEF Untold, TypeOK
  <2>4. Flight!Join(r)
    BY <2>1, <2>2, <2>3, GoesOnRuns DEF FlightGoesOn, Flight!Join
  <2>5. QED
    BY <2>4 DEF FlightStep, Flight!Next
<1>2. CASE Resume(r) \/ CancelResumed(r)
  <2>1. /\ UNCHANGED <<future, task>>
        /\ \/ pc[r] \in Woken /\ pc'[r] \in Answered
           \/ pc[r] \in {"resolved", "failed"} /\ pc'[r] = "aborted"
        /\ \A q \in Requests : q # r => pc'[q] = pc[q]
    BY <1>2 DEF Resume, CancelResumed, FindKey, Woken, Answered, TypeOK
  <2>2. \/ Told[r] \in Woken /\ Flight!Tell(r, "nothing")
        \/ Told[r] \in {"resolved", "failed"} /\ Flight!Tell(r, "aborted")
    BY <2>1, ToldOne DEF Untold, Woken
  <2>3. Flight!Hear(r)
    BY <2>1, <2>2, GoesOnRuns DEF FlightGoesOn, Flight!Hear, Flight!Closings, Woken
  <2>4. QED
    BY <2>3 DEF FlightStep, Flight!Next
<1>3. CASE Return(r)
  <2>1. UNCHANGED <<future, task>> /\ Told' = Told
    BY <1>3, ToldKept DEF Return, Untold, TypeOK
  <2>2. QED
    BY <2>1, GoesOnRuns DEF FlightGoesOn, FlightStep, Flight!vars
<1>4. CASE Cancel(r)
  <2>1. /\ pc[r] = "waiting" /\ future' = "cancelled" /\ task' = task
        /\ \A q \in Requests : pc'[q] = IF pc[q] = "waiting" THEN "aborted" ELSE pc[q]
    BY <1>4 DEF Cancel, Wake
  <2>2. Told[r] = "wait" /\ Flight!TellAll("aborted")
    BY <2>1, ToldAll DEF Told, Woken
  <2>3. Flight!GiveUp(r)
    BY <2>1, <2>2 DEF Flight!GiveUp, Running
  <2>4. QED
    BY <2>3 DEF FlightStep, Flight!Next
<1>5. QED
  BY <1>1, <1>2, <1>3, <1>4

(* A fetch that ends closes the flight, or the refresh; nobody waits on    *)
(* one that is void, so telling nobody is telling all.                     *)
LEMMA EndFlies ==
  ASSUME TypeOK, TypeOK', TrackInv, NEW t \in Tasks, Arrive(t) \/ GiveUp(t)
  PROVE  FlightStep
<1>1. PICK how \in Flight!Closings : End(t, how)
  BY DEF Arrive, GiveUp, Flight!Closings
<1>2. task[t].step # "none" /\ how \in Woken
  BY <1>1 DEF Arrive, GiveUp, Flight!Closings, Woken
<1>3. CASE Running("coalesced") = {t} /\ Running("coalesced")' = {}
  <2>1. /\ Running("background")' = Running("background") /\ future' = "none"
        /\ \A r \in Requests : pc'[r] = IF pc[r] = "waiting" THEN how ELSE pc[r]
    BY <1>1, <1>2, <1>3, EndRuns
  <2>2. Flight!Close(how)
    BY <1>2, <1>3, <2>1, ToldAll DEF Flight!Close
  <2>3. QED
    BY <2>2 DEF FlightStep, Flight!Next
<1>4. CASE Running("background") = {t} /\ Running("background")' = {}
  <2>1. Running("coalesced")' = Running("coalesced") /\ future' = future /\ pc' = pc
    BY <1>1, <1>2, <1>4, EndRuns
  <2>2. Flight!Refresh
    BY <1>4, <2>1, ToldKept DEF Flight!Refresh
  <2>3. QED
    BY <2>2 DEF FlightStep, Flight!Next
<1>5. QED
  BY <1>1, <1>2, <1>3, <1>4, EndRuns

(* All else is between a fetch and the provider.                           *)
LEMMA OtherStepsFly ==
  ASSUME TypeOK, TypeOK',
         \/ \E t \in Tasks : Begin(t) \/ Discover(t) \/ Serve(t) \/ Retry(t) \/ Resend(t)
         \/ Invalidate \/ Rotate \/ Tick \/ UNCHANGED vars
  PROVE  FlightStep
<1>1. FlightGoesOn /\ pc' = pc
  BY DEF Begin, Discover, Serve, Retry, Resend, Invalidate, Rotate, Tick, vars, fetchVars,
         requestVars, FlightGoesOn, TypeOK, TaskState
<1>2. QED
  BY <1>1, GoesOnRuns, ToldKept DEF FlightStep, Flight!vars, FlightGoesOn

(* The manager is what SharedFetch promises, for any number of requests    *)
(* and of tasks (JWKSManager._coalesced_fetch, _run_fetch,                 *)
(* _trigger_background_refresh).                                           *)
THEOREM FetchesAreShared == Spec => FlightSpec
<1>1. Init => Flight!Init
  <2> SUFFICES ASSUME Init PROVE Flight!Init
    OBVIOUS
  <2>1. \A t \in Tasks : task[t].kind = "none"
    BY DEF Init, NoFetch
  <2>2. QED
    BY <2>1 DEF Init, Flight!Init, Running, Told, Woken
<1>2. ASSUME TypeOK, TypeOK', TrackInv, [Next]_vars PROVE FlightStep
  <2>1. ASSUME NEW r \in Requests, RequestStep(r) PROVE FlightStep
    <3>1. CASE \E k \in Gens : StartFetch(r, k)
      BY <1>2, <3>1, FetchOpens DEF FlightStep, Flight!Next
    <3>2. QED
      BY <1>2, <2>1, <3>1, AnswerFlies, WaiterFlies, Zenon DEF RequestStep
  <2>2. ASSUME NEW t \in Tasks, FetchStep(t) PROVE FlightStep
    BY <1>2, <2>2, EndFlies, OtherStepsFly, Zenon DEF FetchStep
  <2>3. QED
    BY <1>2, <2>1, <2>2, OtherStepsFly, Zenon DEF Next
<1>3. TypeOK /\ TypeOK' /\ TrackInv /\ [Next]_vars => [Flight!Next]_Flight!vars
  BY <1>2 DEF FlightStep
<1>4. QED
  BY <1>1, <1>3, TypeInvariant, TrackInvariant, PTL DEF Spec, FlightSpec, Flight!Spec

-----------------------------------------------------------------------------
(* Why whoever waits is answered.  That a fetch always does its next step  *)
(* is left to fairness; but it retries only so often.                      *)

(* The most steps that a fetch has left to its end.                        *)
FetchLeft(t) ==
  LET attempts == 3 * (MaxRetries - task[t].tries)
  IN  CASE task[t].step = "created" -> attempts + 4
        [] task[t].step \in {"discovering", "backoff"} -> attempts + 3
        [] task[t].step = "fetching" -> attempts + (IF task[t].reply = NoKeys THEN 2 ELSE 1)
        [] OTHER -> 0

FetchNearsItsEnd(t) ==
  /\ FetchStep(t) => FetchLeft(t)' < FetchLeft(t)
  /\ FetchLeft(t) > 0 => FetchLeft(t)' <= FetchLeft(t)

LEMMA FetchLeftNat ==
  ASSUME TypeOK, NEW t \in Tasks
  PROVE  FetchLeft(t) \in Nat /\ (FetchLeft(t) > 0 <=> task[t].step # "none")
BY TimeAssumption DEF FetchLeft, TypeOK, TaskState, Steps

LEMMA FetchNears ==
  ASSUME TypeOK, TypeOK', NEW t \in Tasks, FetchStep(t)
  PROVE  /\ FetchLeft(t)' < FetchLeft(t)
         /\ \A u \in Tasks : u # t => task'[u] = task[u]
<1>1. task \in [Tasks -> TaskState] /\ task' \in [Tasks -> TaskState]
  BY DEF TypeOK
<1>2. CASE Begin(t) \/ Discover(t) \/ Serve(t) \/ Resend(t)
  BY <1>1, <1>2, TimeAssumption, NullAssumption
     DEF Begin, Discover, Serve, Resend, FetchLeft, TaskState, TypeOK
<1>3. CASE Retry(t)
  BY <1>1, <1>3, TimeAssumption DEF Retry, FetchLeft, TaskState
<1>4. CASE Arrive(t) \/ GiveUp(t)
  BY <1>1, <1>4, TimeAssumption DEF Arrive, GiveUp, End, NoFetch, FetchLeft, TaskState
<1>5. QED
  BY <1>2, <1>3, <1>4 DEF FetchStep

(* A fetch is over after 3 * MaxRetries + 4 steps of its own at most: no   *)
(* request that joins it or is cancelled, no invalidation, rotation or     *)
(* other fetch sends it back to an earlier step                            *)
(* (JWKSManager._fetch_jwks_with_backoff).                                 *)
THEOREM FetchesNearTheirEnd == Spec => [][\A t \in Tasks : FetchNearsItsEnd(t)]_vars
<1>1. ASSUME TypeOK, TypeOK', [Next]_vars, NEW t \in Tasks PROVE FetchNearsItsEnd(t)
  <2>0. FetchLeft(t) \in Nat /\ (FetchLeft(t) > 0 => task[t] # NoFetch)
    BY <1>1, FetchLeftNat DEF NoFetch
  <2>1. FetchStep(t) => FetchLeft(t)' < FetchLeft(t)
    BY <1>1, FetchNears
  <2>2. ASSUME ~FetchStep(t), task[t] # NoFetch PROVE FetchLeft(t)' = FetchLeft(t)
    <3>1. ASSUME task'[t].step = task[t].step, task'[t].tries = task[t].tries,
                 task'[t].reply = task[t].reply
          PROVE  FetchLeft(t)' = FetchLeft(t)
      BY <3>1 DEF FetchLeft
    <3>2. CASE \E u \in Tasks : u # t /\ FetchStep(u)
      BY <1>1, <3>1, <3>2, FetchNears
    <3>3. ASSUME NEW r \in Requests, RequestStep(r) PROVE FetchLeft(t)' = FetchLeft(t)
      <4>1. CASE \E k \in Gens : AnswerStale(r, k) \/ StartFetch(r, k)
        <5>1. task \in [Tasks -> TaskState]
          BY <1>1 DEF TypeOK
        <5>2. PICK u \in Tasks, kind \in Kinds : task' = task \/ Create(u, kind)
          BY <4>1 DEF AnswerStale, StartFetch, Kinds
        <5>3. task'[t] = task[t]
          BY <2>2, <5>1, <5>2 DEF Create
        <5>4. QED
          BY <3>1, <5>3
      <4>2. CASE task' = task
        BY <3>1, <4>2
      <4>3. QED
        BY <3>3, <4>1, <4>2 DEF RequestStep, AnswerFresh, RefuseTooStale, JoinFetch, Resume,
               Return, Cancel, CancelResumed, fetchVars
    <3>4. CASE Invalidate \/ Rotate \/ Tick \/ UNCHANGED vars
      BY <1>1, <3>1, <3>4 DEF Invalidate, Rotate, Tick, fetchVars, vars, TypeOK, TaskState
    <3>5. QED
      BY <1>1, <2>2, <3>2, <3>3, <3>4, Zenon DEF Next
  <2>3. FetchLeft(t)' \in Nat
    BY <1>1, TimeAssumption DEF FetchLeft, TypeOK, TaskState, Steps
  <2>4. FetchLeft(t) > 0 => FetchLeft(t)' < FetchLeft(t) \/ FetchLeft(t)' = FetchLeft(t)
    BY <2>0, <2>1, <2>2, Zenon
  <2>5. QED
    BY <2>0, <2>1, <2>3, <2>4 DEF FetchNearsItsEnd
<1>2. TypeOK /\ TypeOK' /\ [Next]_vars => [\A t \in Tasks : FetchNearsItsEnd(t)]_vars
  BY <1>1
<1>3. QED
  BY <1>2, TypeInvariant, PTL DEF Spec

(* A request that waits has a fetch under way, which will tell it.         *)
THEOREM WaitersHaveAFetch ==
  Spec => [](\A r \in Requests : pc[r] = "waiting"
               => \E t \in Running("coalesced") : FetchLeft(t) > 0)
<1>1. TypeOK /\ TrackInv => \A r \in Requests : pc[r] = "waiting"
                              => \E t \in Running("coalesced") : FetchLeft(t) > 0
  <2> SUFFICES ASSUME TypeOK, TrackInv, NEW r \in Requests, pc[r] = "waiting"
               PROVE  \E t \in Running("coalesced") : FetchLeft(t) > 0
    OBVIOUS
  <2>1. PICK t \in Tasks : task[t].kind = "coalesced"
    BY DEF TrackInv, FetchesTracked, OneCoalescedFetch, WaitersHaveAFuture, Running
  <2>2. FetchLeft(t) > 0
    BY <2>1, FetchLeftNat DEF TrackInv, TasksConsistent
  <2>3. QED
    BY <2>1, <2>2 DEF Running
<1>2. QED
  BY <1>1, TypeInvariant, TrackInvariant, PTL

-----------------------------------------------------------------------------
(* Withdrawn keys are not used.                                            *)

LEMMA InitKeys == Init => KeysInv
<1> SUFFICES ASSUME Init PROVE KeysInv
  OBVIOUS
<1>1. PublishedInUse
  BY DEF Init, PublishedInUse
<1>2. RepliesYoung
  BY DEF Init, RepliesYoung, NoFetch
<1>3. CacheYoung /\ WokenInTime /\ RetiredKeyUnused
  BY DEF Init, CacheYoung, WokenInTime, RetiredKeyUnused
<1>4. QED
  BY <1>1, <1>2, <1>3 DEF KeysInv

(* Looking up a key in a cache that is not too old finds one in use.       *)
LEMMA FoundKeyInUse ==
  ASSUME TypeOK, CacheYoung, NEW k \in Gens, cached = k, age < Oldest
  PROVE  retired[k] < RetirementLimit
BY LimitsNat, NullAssumption, TimeAssumption DEF TypeOK, CacheYoung

(* A request's step changes neither the keys, nor their age, nor what has  *)
(* been withdrawn.                                                         *)
LEMMA RequestKeys ==
  ASSUME TypeOK, TypeOK', TrackInv, KeysInv, NEW r \in Requests, RequestStep(r)
  PROVE  KeysInv'
<1> USE DEF requestVars, fetchVars, cacheVars, idpVars
<1>1. /\ idp' = idp /\ retired' = retired /\ cached' = cached /\ age' = age
  BY DEF RequestStep, AnswerFresh, AnswerStale, RefuseTooStale, StartFetch,
         JoinFetch, Resume, Return, Cancel, CancelResumed
<1>2. \A t \in Tasks : task'[t].reply = NoKeys \/ task'[t] = task[t]
  <2>1. ASSUME NEW t \in Tasks, NEW kind, Create(t, kind)
        PROVE  \A u \in Tasks : task'[u].reply = NoKeys \/ task'[u] = task[u]
    BY <2>1 DEF Create, NoFetch, TypeOK
  <2>2. task' = task \/ \E t \in Tasks, kind \in Kinds : Create(t, kind)
    BY Zenon DEF RequestStep, AnswerFresh, AnswerStale, RefuseTooStale, StartFetch,
           JoinFetch, Resume, Return, Cancel, CancelResumed, Kinds
  <2>3. QED
    BY <2>1, <2>2, Zenon
<1>3. ASSUME NEW q \in Requests, pc'[q] = "resolved" PROVE pc[q] = "resolved"
  BY <1>3 DEF RequestStep, AnswerFresh, AnswerStale, RefuseTooStale, StartFetch,
         JoinFetch, Resume, Return, Cancel, CancelResumed, FindKey, Wake, TypeOK
<1> DEFINE Sound(q) == \/ pc[q] = "got_key" /\ kid'[q] = kid[q]
                       \/ cached = kid'[q] /\ age < Oldest
<1>4. ASSUME NEW q \in Requests, pc'[q] = "got_key" PROVE Sound(q)
  <2>1. ASSUME NEW k \in Gens, AnswerFresh(r, k) \/ AnswerStale(r, k)
        PROVE  Sound(q)
    BY <1>4, <2>1, LimitsNat, TimeAssumption
       DEF AnswerFresh, AnswerStale, FindKey, Fresh, Stale, TypeOK
  <2>2. ASSUME NEW k \in Gens,
               RefuseTooStale(r, k) \/ StartFetch(r, k) \/ JoinFetch(r, k)
        PROVE  Sound(q)
    BY <1>4, <2>2 DEF RefuseTooStale, StartFetch, JoinFetch, TypeOK
  <2>3. CASE Resume(r)
    <3>1. kid[r] \in Gens /\ kid[r] # NoKeys
      BY NullAssumption DEF TypeOK
    <3>2. CASE pc[r] = "resolved"
      BY <1>4, <2>3, <3>1, <3>2 DEF Resume, FindKey, KeysInv, WokenInTime, TypeOK
    <3>3. CASE pc[r] # "resolved"
      BY <1>4, <2>3, <3>3 DEF Resume, TypeOK
    <3>4. QED
      BY <3>2, <3>3
  <2>4. CASE Return(r) \/ Cancel(r) \/ CancelResumed(r)
    BY <1>4, <2>4 DEF Return, Cancel, CancelResumed, Wake, TypeOK
  <2>5. QED
    BY <2>1, <2>2, <2>3, <2>4, Zenon DEF RequestStep
<1>5. PublishedInUse' /\ CacheYoung'
  BY <1>1, Zenon DEF KeysInv, PublishedInUse, CacheYoung
<1>6. RepliesYoung'
  BY <1>1, <1>2, Zenon DEF KeysInv, RepliesYoung
<1>7. WokenInTime'
  BY <1>1, <1>3, Zenon DEF KeysInv, WokenInTime
<1>8. RetiredKeyUnused'
  <2>1. ASSUME NEW q \in Requests, pc'[q] = "got_key"
        PROVE  retired'[kid'[q]] < RetirementLimit
    <3>1. CASE pc[q] = "got_key" /\ kid'[q] = kid[q]
      BY <1>1, <3>1 DEF KeysInv, RetiredKeyUnused
    <3>2. CASE cached = kid'[q] /\ age < Oldest
      <4>1. kid'[q] \in Gens
        BY DEF TypeOK
      <4>2. QED
        BY <1>1, <3>2, <4>1, FoundKeyInUse DEF KeysInv
    <3>3. QED
      BY <1>4, <2>1, <3>1, <3>2
  <2>2. QED
    BY <2>1 DEF RetiredKeyUnused
<1>9. QED
  BY <1>5, <1>6, <1>7, <1>8 DEF KeysInv

(* A fetch stores what has travelled for no longer than Latency, and       *)
(* nobody has it in hand before he is resumed.                             *)
LEMMA FetchKeys ==
  ASSUME TypeOK, TypeOK', TrackInv, KeysInv, NEW t \in Tasks, FetchStep(t)
  PROVE  KeysInv'
<1> USE DEF requestVars, fetchVars, cacheVars, idpVars
<1>1. idp' = idp /\ retired' = retired /\ kid' = kid
  BY DEF FetchStep, Begin, Discover, Serve, Retry, Resend, Arrive, GiveUp
<1>2. \A r \in Requests : pc'[r] = "got_key" => pc[r] = "got_key"
  BY DEF FetchStep, Begin, Discover, Serve, Retry, Resend, Arrive, GiveUp, End, Wake,
         TypeOK
<1>3. PublishedInUse' /\ RetiredKeyUnused'
  BY <1>1, <1>2 DEF KeysInv, PublishedInUse, RetiredKeyUnused
<1>4. RepliesYoung'
  <2>1. /\ \A u \in Tasks : u # t => task'[u] = task[u]
        /\ \/ task'[t].reply = NoKeys
           \/ task'[t].reply = task[t].reply /\ task'[t].wait = task[t].wait
           \/ task'[t].reply = idp /\ task'[t].wait = 0
    BY DEF FetchStep, Begin, Discover, Serve, Retry, Resend, Arrive, GiveUp, End,
           NoFetch, TypeOK, TaskState, TrackInv, TasksConsistent
  <2>2. retired[idp] = 0
    BY DEF KeysInv, PublishedInUse, TypeOK, Gens
  <2>3. QED
    BY <1>1, <2>1, <2>2 DEF KeysInv, RepliesYoung
<1>5. CacheYoung' /\ WokenInTime'
  <2>1. CASE Arrive(t)
    <3>1. /\ task[t] \in TaskState
          /\ age' = 0 /\ cached' = task[t].reply
          /\ retired[task[t].reply] <= task[t].wait
      BY <2>1 DEF Arrive, Store, KeysInv, RepliesYoung, TypeOK
    <3>2. CacheYoung'
      <4>1. ASSUME cached' # NoKeys PROVE retired'[cached'] <= age' + Latency
        <5>1. cached' \in Gens /\ retired[cached'] \in Nat
          BY <4>1 DEF TypeOK
        <5>2. task[t].wait \in 0..Latency
          BY <3>1 DEF TaskState
        <5>3. QED
          BY <1>1, <3>1, <5>1, <5>2, TimeAssumption
      <4>2. QED
        BY <4>1 DEF CacheYoung
    <3>3. WokenInTime'
      BY <3>1, LimitsNat DEF WokenInTime
    <3>4. QED
      BY <3>2, <3>3
  <2>2. CASE ~Arrive(t)
    <3>1. /\ cached' = cached /\ age' = age
          /\ \A r \in Requests : pc'[r] = "resolved" => pc[r] = "resolved"
      BY <2>2 DEF FetchStep, Begin, Discover, Serve, Retry, Resend, GiveUp, End,
                  Wake, TypeOK
    <3>2. QED
      BY <1>1, <3>1, Zenon DEF KeysInv, CacheYoung, WokenInTime
  <2>3. QED
    BY <2>1, <2>2
<1>6. QED
  BY <1>3, <1>4, <1>5 DEF KeysInv

(* What is cached, and what travels, ages at the pace at which it is       *)
(* withdrawn.                                                              *)
LEMMA TickKeys ==
  ASSUME TypeOK, TypeOK', TrackInv, KeysInv, Tick
  PROVE  KeysInv'
<1> USE DEF requestVars
<1>1. /\ idp' = idp /\ cached' = cached /\ pc' = pc /\ kid' = kid
      /\ \A g \in Gens :
           /\ retired[g] \in 0..RetirementLimit /\ retired'[g] \in 0..RetirementLimit
           /\ retired'[g] <= retired[g] + 1
           /\ g >= idp => retired'[g] = retired[g]
  <2>1. idp \in Nat
    BY DEF TypeOK, Gens
  <2>2. ASSUME NEW g \in Gens
        PROVE  /\ retired[g] \in 0..RetirementLimit /\ retired'[g] \in 0..RetirementLimit
               /\ retired'[g] <= retired[g] + 1
               /\ g >= idp => retired'[g] = retired[g]
    <3>1. g \in Nat
      BY DEF Gens
    <3>2. /\ retired[g] \in 0..RetirementLimit /\ retired'[g] \in 0..RetirementLimit
      BY DEF TypeOK
    <3>3. retired'[g] = IF g < idp /\ retired[g] < RetirementLimit
                          THEN retired[g] + 1 ELSE retired[g]
      BY Zenon DEF Tick
    <3>4. QED
      BY <2>1, <3>1, <3>2, <3>3, LimitsNat
  <2>3. QED
    BY <2>2 DEF Tick
<1>2. PublishedInUse'
  BY <1>1 DEF KeysInv, PublishedInUse
<1>3. RepliesYoung'
  <2>1. ASSUME NEW t \in Tasks, task'[t].reply # NoKeys
        PROVE  retired'[task'[t].reply] <= task'[t].wait
    <3>1. /\ task[t].reply # NoKeys /\ task'[t].reply = task[t].reply
          /\ task'[t].wait = task[t].wait + 1
      BY <2>1 DEF Tick, TypeOK, TaskState
    <3>2. task[t].reply \in Gens /\ task[t].wait \in Nat
      BY <3>1 DEF TypeOK, TaskState
    <3>3. retired[task[t].reply] <= task[t].wait
      BY <3>1 DEF KeysInv, RepliesYoung
    <3>4. QED
      BY <1>1, <3>1, <3>2, <3>3, LimitsNat
  <2>2. QED
    BY <2>1 DEF RepliesYoung
<1>4. CacheYoung'
  <2>1. ASSUME cached # NoKeys PROVE retired'[cached] <= age' + Latency
    <3>1. cached \in Gens /\ age \in 0..Oldest
      BY <2>1 DEF TypeOK
    <3>2. retired[cached] <= age + Latency
      BY <2>1 DEF KeysInv, CacheYoung
    <3>3. CASE age < Oldest
      BY <1>1, <3>1, <3>2, <3>3, LimitsNat, TimeAssumption DEF Tick
    <3>4. CASE age = Oldest
      BY <1>1, <3>1, <3>4, LimitsNat, TimeAssumption DEF Tick
    <3>5. QED
      BY <3>1, <3>3, <3>4, LimitsNat
  <2>2. QED
    BY <1>1, <2>1 DEF CacheYoung
<1>5. WokenInTime' /\ RetiredKeyUnused'
  <2>1. \A r \in Requests : pc'[r] # "resolved" /\ pc'[r] # "got_key"
    BY <1>1 DEF Tick, Quiet
  <2>2. QED
    BY <2>1 DEF WokenInTime, RetiredKeyUnused
<1>6. QED
  BY <1>2, <1>3, <1>4, <1>5 DEF KeysInv

LEMMA NextKeys ==
  TypeOK /\ TypeOK' /\ TrackInv /\ KeysInv /\ [Next]_vars => KeysInv'
<1> SUFFICES ASSUME TypeOK, TypeOK', TrackInv, KeysInv, [Next]_vars PROVE KeysInv'
  OBVIOUS
<1>1. CASE Invalidate
  <2>1. /\ cached' = NoKeys /\ idp' = idp /\ retired' = retired /\ task' = task
        /\ pc' = pc /\ kid' = kid
    BY <1>1 DEF Invalidate, requestVars, fetchVars, idpVars
  <2>2. QED
    BY <2>1, Zenon DEF KeysInv, PublishedInUse, RepliesYoung, CacheYoung,
                       WokenInTime, RetiredKeyUnused
<1>2. CASE Rotate
  <2>1. /\ idp' = idp + 1 /\ retired' = retired /\ task' = task
        /\ pc' = pc /\ kid' = kid /\ cached' = cached /\ age' = age
    BY <1>2 DEF Rotate, requestVars, fetchVars, cacheVars
  <2>2. PublishedInUse'
    BY <2>1 DEF KeysInv, PublishedInUse, TypeOK, Gens
  <2>3. /\ RepliesYoung' /\ CacheYoung' /\ WokenInTime' /\ RetiredKeyUnused'
    BY <2>1, Zenon DEF KeysInv, RepliesYoung, CacheYoung, WokenInTime,
                       RetiredKeyUnused
  <2>4. QED
    BY <2>2, <2>3 DEF KeysInv
<1>3. CASE UNCHANGED vars
  BY <1>3, Zenon DEF vars, KeysInv, PublishedInUse, RepliesYoung, CacheYoung,
                     WokenInTime, RetiredKeyUnused
<1>4. QED
  BY <1>1, <1>2, <1>3, RequestKeys, FetchKeys, TickKeys, Zenon DEF Next

(* However fetches overtake each other, no token is verified with a key    *)
(* that has been withdrawn for as long as RetirementLimit                  *)
(* (JWKSManager.get_signing_key, _fetch_jwks_with_backoff).                *)
THEOREM RetiredKeysUnused == Spec => []RetiredKeyUnused
<1>1. Spec => []KeysInv
  BY InitKeys, NextKeys, TypeInvariant, TrackInvariant, PTL DEF Spec
<1>2. KeysInv => RetiredKeyUnused
  BY DEF KeysInv
<1>3. QED
  BY <1>1, <1>2, PTL
=============================================================================
