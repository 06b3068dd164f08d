--------------------------- MODULE CircuitBreaker ---------------------------
(***************************************************************************)
(* resilience.py: CircuitBreaker and the ResilientHttpClient whose         *)
(* requests run inside it.  A call is one execute(): the state check, the  *)
(* HTTP request, the record of its outcome.  No critical section under     *)
(* asyncio.Lock contains an await, so each one is a single step; the       *)
(* request runs outside the lock, so calls overlap.                        *)
(*                                                                         *)
(* Time is kept as ages, saturated at the only value they are compared     *)
(* with: age = min(monotonic() - _last_failure_time, cooldown_seconds).    *)
(***************************************************************************)
EXTENDS Naturals, FiniteSets

CONSTANTS
  Calls,          \* the tasks that call execute()
  Threshold,      \* failure_threshold
  Cooldown        \* cooldown_seconds, in ticks

(* config.py bounds both below by 1; the tasks of a process are finite. *)
ASSUME ThresholdAssumption == Threshold \in Nat \ {0}
ASSUME CooldownAssumption == Cooldown \in Nat \ {0}
ASSUME CallsAssumption == IsFiniteSet(Calls)

VARIABLES
  state,            \* _state: what is stored, not what the property computes
  failureCount,     \* _failure_count
  age,              \* time since _last_failure_time
  probeInProgress,  \* _probe_in_progress
  call              \* where each task is in its execute()

vars == <<state, failureCount, age, probeInProgress, call>>

CircuitState == {"CLOSED", "OPEN", "HALF_OPEN"}

(* "ordinary" and "probe" are calls whose request is out, by the state     *)
(* that admitted them; a rejected call raised ProviderError before it.     *)
CallStatus == {"idle", "ordinary", "probe", "rejected"}

(* How a request ends: a 2xx, no connection or a timeout, a 5xx, any other *)
(* status, or an exception execute() does not catch (a cancelled task).    *)
Outcome == {"success", "unreachable", "server_error", "refused", "cancelled"}

TypeOK ==
  /\ state \in CircuitState
  /\ failureCount \in Nat
  /\ age \in 0..Cooldown
  /\ probeInProgress \in BOOLEAN
  /\ call \in [Calls -> CallStatus]

-----------------------------------------------------------------------------
Init ==
  /\ state = "CLOSED"
  /\ failureCount = 0
  /\ age = Cooldown
  /\ probeInProgress = FALSE
  /\ call = [c \in Calls |-> "idle"]

(* The state property: an expired OPEN reads HALF_OPEN; nothing is stored. *)
ObservedState ==
  IF state = "OPEN" /\ age >= Cooldown THEN "HALF_OPEN" ELSE state

Out == {c \in Calls : call[c] \in {"ordinary", "probe"}}

IsFailure(o) == o \in {"unreachable", "server_error"}

(* The critical section of execute(), by its three ways out. *)
Admit(c) ==
  /\ c \notin Out
  /\ ObservedState = "CLOSED"
  /\ call' = [call EXCEPT ![c] = "ordinary"]
  /\ UNCHANGED <<state, failureCount, age, probeInProgress>>

AdmitProbe(c) ==
  /\ c \notin Out
  /\ ObservedState = "HALF_OPEN"
  /\ ~probeInProgress
  /\ probeInProgress' = TRUE
  /\ call' = [call EXCEPT ![c] = "probe"]
  /\ UNCHANGED <<state, failureCount, age>>

(* Mutant: a rejection counts as a failure does for the cooldown. *)
RejectRestartsCooldown(c) ==
  /\ c \notin Out
  /\ \/ ObservedState = "OPEN"
     \/ ObservedState = "HALF_OPEN" /\ probeInProgress
  /\ call' = [call EXCEPT ![c] = "rejected"]
  /\ age' = 0
  /\ UNCHANGED <<state, failureCount, probeInProgress>>

Reject(c) ==
  /\ c \notin Out
  /\ \/ ObservedState = "OPEN"
     \/ ObservedState = "HALF_OPEN" /\ probeInProgress
  /\ call' = [call EXCEPT ![c] = "rejected"]
  /\ UNCHANGED <<state, failureCount, age, probeInProgress>>

(* Mutant: a success makes up for one failure. *)
RecordSuccessDecrements ==
  /\ state' = IF state = "HALF_OPEN" THEN "CLOSED" ELSE state
  /\ probeInProgress' = IF state = "HALF_OPEN" THEN FALSE ELSE probeInProgress
  /\ failureCount' = failureCount - 1
  /\ UNCHANGED age

(* Mutant: the circuit opens above the threshold, not at it. *)
RecordFailureOffByOne ==
  LET probing == state = "HALF_OPEN"
      count   == IF probing THEN failureCount ELSE failureCount + 1
      opens   == probing \/ count > Threshold
  IN  /\ failureCount' = count
      /\ state' = IF opens THEN "OPEN" ELSE state
      /\ age' = IF opens THEN 0 ELSE age
      /\ probeInProgress' = IF probing THEN FALSE ELSE probeInProgress

(* _record_success and _record_failure branch on the stored state. *)
RecordSuccess ==
  /\ state' = IF state = "HALF_OPEN" THEN "CLOSED" ELSE state
  /\ probeInProgress' = IF state = "HALF_OPEN" THEN FALSE ELSE probeInProgress
  /\ failureCount' = 0
  /\ UNCHANGED age

RecordFailure ==
  LET probing == state = "HALF_OPEN"
      count   == IF probing THEN failureCount ELSE failureCount + 1
      opens   == probing \/ count >= Threshold
  IN  /\ failureCount' = count
      /\ state' = IF opens THEN "OPEN" ELSE state
      /\ age' = IF opens THEN 0 ELSE age
      /\ probeInProgress' = IF probing THEN FALSE ELSE probeInProgress

Succeed(c) ==
  /\ c \in Out
  /\ call' = [call EXCEPT ![c] = "idle"]
  /\ RecordSuccess

(* The except clause sees only httpx errors, and records only those that   *)
(* _is_failure counts; every other exception leaves the breaker as it was. *)
Fail(c, o) ==
  /\ c \in Out
  /\ call' = [call EXCEPT ![c] = "idle"]
  /\ IF IsFailure(o)
       THEN RecordFailure
       ELSE UNCHANGED <<state, failureCount, age, probeInProgress>>

(* reset(), which the code reserves for tests and operators. *)
Reset ==
  /\ state' = "CLOSED"
  /\ failureCount' = 0
  /\ age' = Cooldown
  /\ probeInProgress' = FALSE
  /\ UNCHANGED call

Older(a) == IF a < Cooldown THEN a + 1 ELSE a

Tick ==
  /\ age' = Older(age)
  /\ UNCHANGED <<state, failureCount, probeInProgress, call>>

Finish(c) == Succeed(c) \/ \E o \in Outcome \ {"success"} : Fail(c, o)

Next ==
  \/ \E c \in Calls : Admit(c) \/ AdmitProbe(c) \/ Reject(c) \/ Finish(c)
  \/ Reset
  \/ Tick

(* Time passes and every request ends: httpx is given a timeout.  Nothing  *)
(* obliges a task to make a call, or anyone to reset.                      *)
Fairness == WF_vars(Tick) /\ \A c \in Calls : WF_vars(Finish(c))

Spec == Init /\ [][Next]_vars

FairSpec == Spec /\ Fairness

-----------------------------------------------------------------------------
(* A closed circuit has counted fewer failures than would open it, however *)
(* the calls that were out when it opened, or when it was reset, end.      *)
ClosedBelowThreshold == state = "CLOSED" => failureCount < Threshold

(* _failure_count has no cap, but it is bounded: once the circuit is open  *)
(* only the calls already out, and one probe, can still count.             *)
FailureCountBounded == failureCount <= Threshold + Cardinality(Calls)

(* The breaker is a fuse.  It opens when Threshold calls have failed with  *)
(* no success between.  Its stored state never becomes HALF_OPEN, so       *)
(* neither end of the probe finds it there: the flag is never cleared, and *)
(* until reset() one call at most is let out however long the circuit has  *)
(* been open, and however those that were out when it opened may end.      *)
Fuse == INSTANCE OneShotFuse WITH
  phase <- CASE state = "CLOSED" -> "intact"
             [] state # "CLOSED" /\ ~probeInProgress -> "blown"
             [] OTHER -> "spent",
  strain <- IF state = "CLOSED" THEN failureCount ELSE Threshold,
  out <- Out,
  Strength <- Threshold

FuseSpec == Fuse!Spec

(* An open circuit reaches the end of its cooldown unless it is reset:     *)
(* late failures of calls made before it opened restart the cooldown, but  *)
(* there are only so many of them.                                         *)
CooldownEnds == (state = "OPEN") ~> (ObservedState # "OPEN")

-----------------------------------------------------------------------------
(* What the documents say, and the code does not do.                       *)

Probes == {c \in Calls : call[c] = "probe"}

(* docs/GUIDE.md: "HALF_OPEN ... Success -> CLOSED".                       *)
ProbeSuccessCloses ==
  [][\A c \in Probes : Succeed(c) => state' = "CLOSED"]_vars
=============================================================================
