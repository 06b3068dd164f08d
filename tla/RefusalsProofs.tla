-------------------------- MODULE RefusalsProofs --------------------------
(***************************************************************************)
(* Whom the server turns away: the circuit breaker, for any number of      *)
(* tasks, any threshold and any cooldown, and the rate limiter, for any    *)
(* callers, any limits and any rates, zero among them.                     *)
(***************************************************************************)
EXTENDS Refusals, FiniteSetTheorems, TLAPS

-----------------------------------------------------------------------------
(* The circuit breaker.                                                    *)

(* What is stored as _state is never HALF_OPEN: only the state property    *)
(* computes it.                                                            *)
NeverStoredHalfOpen == state # "HALF_OPEN"

(* The flag is raised on an open circuit, and nothing closes one but       *)
(* reset(), which lowers it.                                               *)
ProbeOnOpenCircuit == probeInProgress => state = "OPEN"

(* The failures still to come on an open circuit: one for each call that   *)
(* is out, and one for the probe that has not been let out yet.            *)
Budget == Cardinality(Out) + (IF probeInProgress THEN 0 ELSE 1)

FailuresWithinBudget ==
  state = "OPEN" => failureCount + Budget <= Threshold + Cardinality(Calls)

BreakerInv ==
  /\ TypeOK
  /\ NeverStoredHalfOpen
  /\ ProbeOnOpenCircuit
  /\ ClosedBelowThreshold
  /\ FailuresWithinBudget

-----------------------------------------------------------------------------
(* The calls that are out are finitely many, whatever state they are in.   *)
LEMMA OutFinite ==
  /\ IsFiniteSet(Out)
  /\ Out \subseteq Calls
  /\ Cardinality(Out) \in Nat
  /\ Cardinality(Calls) \in Nat
  /\ Cardinality(Out) <= Cardinality(Calls)
<1>1. Out \subseteq Calls
  BY DEF Out
<1>2. QED
  BY <1>1, CallsAssumption, FS_Subset, FS_CardinalityType

(* The status of a task moves it into Out or out of it.                    *)
LEMMA OutMoves ==
  ASSUME TypeOK, NEW c \in Calls, NEW s \in CallStatus,
         call' = [call EXCEPT ![c] = s]
  PROVE  Out' = IF s \in {"ordinary", "probe"} THEN Out \cup {c} ELSE Out \ {c}
BY DEF TypeOK, Out

(* One call ending takes one from the count of the calls that are out.     *)
LEMMA OutShrinks ==
  ASSUME TypeOK, NEW c \in Out, call' = [call EXCEPT ![c] = "idle"]
  PROVE  /\ Out' = Out \ {c}
         /\ Cardinality(Out') = Cardinality(Out) - 1
         /\ Cardinality(Out) \in Nat \ {0}
<1>1. c \in Calls /\ "idle" \in CallStatus
  BY DEF Out, CallStatus
<1>2. Out' = Out \ {c}
  BY <1>1, OutMoves
<1>3. Cardinality(Out') = Cardinality(Out) - 1
  BY <1>2, OutFinite, FS_RemoveElement
<1>4. Cardinality(Out) # 0
  BY OutFinite, FS_EmptySet
<1>5. QED
  BY <1>2, <1>3, <1>4, OutFinite

LEMMA InitTypeOK == Init => TypeOK
<1>1. Cooldown \in 0..Cooldown
  BY CooldownAssumption
<1>2. Init => call \in [Calls -> CallStatus]
  BY DEF Init, CallStatus
<1>3. Init => state \in CircuitState /\ probeInProgress \in BOOLEAN
  BY DEF Init, CircuitState
<1>4. Init => failureCount \in Nat
  BY DEF Init
<1>5. QED
  BY <1>1, <1>2, <1>3, <1>4, Zenon DEF Init, TypeOK

(* Count, time and probe flag of CircuitBreaker keep their types: the type *)
(* invariant is inductive by itself.                                       *)
THEOREM TypeCorrect == Spec => []TypeOK
<1>1. Init => TypeOK
  BY InitTypeOK
<1>2. TypeOK /\ [Next]_vars => TypeOK'
  <2> SUFFICES ASSUME TypeOK, [Next]_vars PROVE TypeOK'
    OBVIOUS
  <2> USE CooldownAssumption DEF TypeOK, CircuitState, CallStatus
  <2>1. ASSUME NEW c \in Calls, Admit(c) \/ AdmitProbe(c) \/ Reject(c) PROVE TypeOK'
    BY <2>1 DEF Admit, AdmitProbe, Reject
  <2>2. ASSUME NEW c \in Calls, Succeed(c) PROVE TypeOK'
    <3>1. probeInProgress' \in BOOLEAN
      BY <2>2 DEF Succeed, RecordSuccess
    <3>2. QED
      BY <2>2, <3>1 DEF Succeed, RecordSuccess
  <2>3. ASSUME NEW c \in Calls, NEW o \in Outcome, Fail(c, o) PROVE TypeOK'
    <3>1. CASE IsFailure(o)
      <4>1. RecordFailure
        BY <2>3, <3>1 DEF Fail
      <4>2. failureCount' \in Nat /\ age' \in 0..Cooldown
        BY <4>1 DEF RecordFailure
      <4>3. state' \in CircuitState /\ probeInProgress' \in BOOLEAN
        BY <4>1 DEF RecordFailure
      <4>4. QED
        BY <2>3, <4>2, <4>3 DEF Fail
    <3>2. CASE ~IsFailure(o)
      BY <2>3, <3>2 DEF Fail
    <3>3. QED
      BY <3>1, <3>2
  <2>4. CASE Reset
    <3>1. age' \in 0..Cooldown /\ failureCount' \in Nat
      BY <2>4 DEF Reset
    <3>2. probeInProgress' \in BOOLEAN /\ state' \in CircuitState
      BY <2>4 DEF Reset
    <3>3. QED
      BY <2>4, <3>1, <3>2 DEF Reset
  <2>5. CASE Tick
    BY <2>5 DEF Tick, Older
  <2>6. CASE UNCHANGED vars
    BY <2>6 DEF vars
  <2>7. QED
    BY <2>1, <2>2, <2>3, <2>4, <2>5, <2>6 DEF Next, Finish
<1>3. QED
  BY <1>1, <1>2, PTL DEF Spec

-----------------------------------------------------------------------------
LEMMA InitBreakerInv == Init => BreakerInv
<1> SUFFICES ASSUME Init PROVE BreakerInv
  OBVIOUS
<1>1. TypeOK
  BY InitTypeOK
<1>2. NeverStoredHalfOpen /\ ProbeOnOpenCircuit /\ FailuresWithinBudget
  BY DEF Init, NeverStoredHalfOpen, ProbeOnOpenCircuit, FailuresWithinBudget
<1>3. ClosedBelowThreshold
  BY ThresholdAssumption DEF Init, ClosedBelowThreshold
<1>4. QED
  BY <1>1, <1>2, <1>3 DEF BreakerInv

LEMMA NextBreakerInv == BreakerInv /\ TypeOK' /\ [Next]_vars => BreakerInv'
<1> SUFFICES ASSUME BreakerInv, TypeOK', [Next]_vars PROVE BreakerInv'
  OBVIOUS
<1> DEFINE N == Cardinality(Out)
<1>t. /\ TypeOK
      /\ failureCount \in Nat
      /\ Threshold \in Nat \ {0}
      /\ N \in Nat /\ Cardinality(Calls) \in Nat /\ N <= Cardinality(Calls)
  BY OutFinite, ThresholdAssumption DEF BreakerInv, TypeOK
<1> USE DEF BreakerInv, NeverStoredHalfOpen, ProbeOnOpenCircuit,
            ClosedBelowThreshold, FailuresWithinBudget, Budget
<1>1. ASSUME NEW c \in Calls, Admit(c) PROVE BreakerInv'
  BY <1>1 DEF Admit, ObservedState
<1>2. ASSUME NEW c \in Calls, AdmitProbe(c) PROVE BreakerInv'
  <2>1. Out' = Out \cup {c} /\ c \notin Out
    BY <1>t, <1>2, OutMoves DEF AdmitProbe, CallStatus
  <2>2. Cardinality(Out') = N + 1
    BY <2>1, OutFinite, FS_AddElement
  <2>3. QED
    BY <1>t, <1>2, <2>2 DEF AdmitProbe, ObservedState
<1>3. ASSUME NEW c \in Calls, Reject(c) PROVE BreakerInv'
  <2>1. Out' = Out \ {c} /\ c \notin Out
    BY <1>t, <1>3, OutMoves DEF Reject, CallStatus
  <2>2. QED
    BY <1>3, <2>1 DEF Reject
<1>4. ASSUME NEW c \in Calls, Succeed(c) PROVE BreakerInv'
  <2>1. Cardinality(Out') = N - 1 /\ N \in Nat \ {0}
    BY <1>t, <1>4, OutShrinks DEF Succeed
  <2>2. QED
    BY <1>t, <1>4, <2>1 DEF Succeed, RecordSuccess
<1>5. ASSUME NEW c \in Calls, NEW o \in Outcome, Fail(c, o) PROVE BreakerInv'
  <2>1. Cardinality(Out') = N - 1 /\ N \in Nat \ {0}
    BY <1>t, <1>5, OutShrinks DEF Fail
  <2>2. CASE IsFailure(o)
    <3>1. /\ failureCount' = failureCount + 1
          /\ state' = IF failureCount + 1 >= Threshold THEN "OPEN" ELSE state
          /\ probeInProgress' = probeInProgress
      BY <1>t, <1>5, <2>2 DEF Fail, RecordFailure, TypeOK
    <3>2. CASE state = "OPEN"
      BY <1>t, <2>1, <3>1, <3>2
    <3>3. CASE state = "CLOSED"
      BY <1>t, <2>1, <3>1, <3>3
    <3>4. QED
      BY <1>t, <3>2, <3>3 DEF TypeOK, CircuitState
  <2>3. CASE ~IsFailure(o)
    BY <1>t, <1>5, <2>1, <2>3 DEF Fail
  <2>4. QED
    BY <2>2, <2>3
<1>6. CASE Reset
  BY <1>6, <1>t DEF Reset
<1>7. CASE Tick
  BY <1>7 DEF Tick, Out
<1>8. CASE UNCHANGED vars
  BY <1>8 DEF vars, Out
<1>9. QED
  BY <1>1, <1>2, <1>3, <1>4, <1>5, <1>6, <1>7, <1>8 DEF Next, Finish

(* The strengthened invariant holds in every reachable state.              *)
THEOREM BreakerInvariant == Spec => []BreakerInv
BY InitBreakerInv, NextBreakerInv, TypeCorrect, PTL DEF Spec

(* A closed circuit is always below its threshold.                         *)
THEOREM ClosedStaysBelowThreshold == Spec => []ClosedBelowThreshold
<1>1. BreakerInv => ClosedBelowThreshold
  BY DEF BreakerInv
<1>2. QED
  BY <1>1, BreakerInvariant, PTL

(* The failure count of any run exceeds the threshold by at most the       *)
(* number of tasks.                                                        *)
THEOREM FailureCountIsBounded == Spec => []FailureCountBounded
<1>1. BreakerInv => FailureCountBounded
  <2> SUFFICES ASSUME BreakerInv PROVE FailureCountBounded
    OBVIOUS
  <2> USE OutFinite, ThresholdAssumption
          DEF BreakerInv, TypeOK, FailureCountBounded
  <2>1. CASE state = "CLOSED"
    BY <2>1 DEF ClosedBelowThreshold
  <2>2. CASE state = "OPEN"
    BY <2>2 DEF FailuresWithinBudget, Budget
  <2>3. QED
    BY <2>1, <2>2 DEF NeverStoredHalfOpen, CircuitState
<1>2. QED
  BY <1>1, BreakerInvariant, PTL

-----------------------------------------------------------------------------
(* The circuit keeps every request back for the time being.                *)
CoolingDown == state = "OPEN" /\ age < Cooldown

(* Unless it is reset, an open circuit stays open while it cools down, no  *)
(* call goes out, and time brings the end of the cooldown nearer.  Only a  *)
(* call that comes back can put it off, and each of these does so once:    *)
(* what is rejected, however often, does not (CircuitBreaker.execute,      *)
(* _record_failure).                                                       *)
THEOREM CooldownNearsItsEnd ==
  Spec => [][CoolingDown /\ ~Reset => /\ state' = "OPEN"
                                      /\ Out' \subseteq Out
                                      /\ Out' = Out => age' >= age
                                      /\ Tick => age' = age + 1]_vars
<1>1. ASSUME BreakerInv, [Next]_vars, CoolingDown, ~Reset
      PROVE  /\ state' = "OPEN" /\ Out' \subseteq Out
             /\ Out' = Out => age' >= age
             /\ Tick => age' = age + 1
  <2>0. /\ TypeOK /\ state = "OPEN" /\ age \in Nat /\ Cooldown \in Nat /\ age < Cooldown
        /\ ObservedState = "OPEN"
    BY <1>1, CooldownAssumption DEF BreakerInv, TypeOK, CoolingDown, ObservedState
  <2>1. ASSUME NEW c \in Calls, Admit(c) \/ AdmitProbe(c) PROVE FALSE
    BY <2>0, <2>1 DEF Admit, AdmitProbe
  <2>2. ASSUME NEW c \in Calls, Reject(c) PROVE Out' = Out /\ UNCHANGED <<state, age>>
    <3>1. Out' = Out \ {c} /\ c \notin Out
      BY <2>0, <2>2, OutMoves DEF Reject, CallStatus
    <3>2. QED
      BY <2>2, <3>1 DEF Reject
  <2>3. ASSUME NEW c \in Calls, Finish(c)
        PROVE  state' = "OPEN" /\ Out' \subseteq Out /\ Out' # Out
    <3>1. c \in Out /\ call' = [call EXCEPT ![c] = "idle"]
      BY <2>3 DEF Finish, Succeed, Fail
    <3>2. Out' = Out \ {c}
      BY <2>0, <3>1, OutShrinks
    <3>3. state' = "OPEN"
      BY <2>0, <2>3 DEF Finish, Succeed, Fail, RecordSuccess, RecordFailure
    <3>4. QED
      BY <3>1, <3>2, <3>3
  <2>4. Tick => Out' = Out /\ state' = "OPEN" /\ age' = age + 1
    BY <2>0 DEF Tick, Older, Out
  <2>5. UNCHANGED vars => Out' = Out /\ state' = "OPEN" /\ age' = age
    BY <2>0 DEF vars, Out
  <2>6. CASE Tick
    BY <2>0, <2>4, <2>6
  <2>7. CASE ~Tick
    BY <1>1, <2>0, <2>1, <2>2, <2>3, <2>5, <2>7 DEF Next
  <2>8. QED
    BY <2>6, <2>7
<1>2. BreakerInv /\ [Next]_vars
        => [CoolingDown /\ ~Reset => /\ state' = "OPEN"
                                     /\ Out' \subseteq Out
                                     /\ Out' = Out => age' >= age
                                     /\ Tick => age' = age + 1]_vars
  BY <1>1
<1>3. QED
  BY <1>2, BreakerInvariant, PTL DEF Spec

-----------------------------------------------------------------------------
(* The breaker implements the fuse: it opens when Threshold calls have     *)
(* failed with no success between, at most one call goes out from then to  *)
(* the next reset, and nothing but a reset closes it.                      *)
THEOREM BreakerIsAFuse == Spec => FuseSpec
<1>1. Init => Fuse!Init
  BY ThresholdAssumption DEF Init, Fuse!Init, Out
<1>2. BreakerInv /\ [Next]_vars => [Fuse!Next]_Fuse!vars
  <2> SUFFICES ASSUME BreakerInv, [Next]_vars PROVE [Fuse!Next]_Fuse!vars
    OBVIOUS
  <2>t. TypeOK /\ NeverStoredHalfOpen /\ ProbeOnOpenCircuit
    BY DEF BreakerInv
  <2>1. ASSUME NEW c \in Calls, Admit(c) PROVE Fuse!Launch(c)
    <3>1. Out' = Out \cup {c}
      BY <2>t, <2>1, OutMoves DEF Admit, CallStatus
    <3>2. QED
      BY <2>t, <2>1, <3>1 DEF Admit, Fuse!Launch, ObservedState
  <2>2. ASSUME NEW c \in Calls, AdmitProbe(c) PROVE Fuse!LaunchProbe(c)
    <3>1. Out' = Out \cup {c}
      BY <2>t, <2>2, OutMoves DEF AdmitProbe, CallStatus
    <3>2. QED
      BY <2>t, <2>2, <3>1 DEF AdmitProbe, Fuse!LaunchProbe, ObservedState
  <2>3. ASSUME NEW c \in Calls, Reject(c) PROVE UNCHANGED Fuse!vars
    <3>1. Out' = Out \ {c} /\ c \notin Out
      BY <2>t, <2>3, OutMoves DEF Reject, CallStatus
    <3>2. QED
      BY <2>3, <3>1 DEF Reject, Fuse!vars
  <2>4. ASSUME NEW c \in Calls, Succeed(c) PROVE Fuse!Return(c)
    <3>1. Out' = Out \ {c} /\ c \in Out
      BY <2>t, <2>4, OutShrinks DEF Succeed
    <3>2. state' = state /\ probeInProgress' = probeInProgress /\ failureCount' = 0
      BY <2>t, <2>4 DEF Succeed, RecordSuccess, NeverStoredHalfOpen, TypeOK
    <3>3. QED
      BY <3>1, <3>2 DEF Fuse!Return, Fuse!Relieve
  <2>5. ASSUME NEW c \in Calls, NEW o \in Outcome, Fail(c, o) PROVE Fuse!Return(c)
    <3>1. Out' = Out \ {c} /\ c \in Out
      BY <2>t, <2>5, OutShrinks DEF Fail
    <3>2. CASE UNCHANGED <<state, failureCount, probeInProgress>>
      BY <3>1, <3>2 DEF Fuse!Return
    <3>3. CASE RecordFailure
      <4>1. /\ state \in {"CLOSED", "OPEN"} /\ failureCount \in Nat
            /\ Threshold \in Nat \ {0}
            /\ state = "CLOSED" => failureCount < Threshold /\ ~probeInProgress
        BY <2>t, ThresholdAssumption
           DEF NeverStoredHalfOpen, ProbeOnOpenCircuit, TypeOK, CircuitState,
               BreakerInv, ClosedBelowThreshold
      <4>2. /\ failureCount' = failureCount + 1
            /\ state' = IF failureCount + 1 >= Threshold THEN "OPEN" ELSE state
            /\ probeInProgress' = probeInProgress
        BY <3>3, <4>1 DEF RecordFailure
      <4>3. CASE state = "CLOSED"
        BY <3>1, <4>1, <4>2, <4>3 DEF Fuse!Return, Fuse!Strain
      <4>4. CASE state = "OPEN"
        BY <3>1, <4>2, <4>4 DEF Fuse!Return
      <4>5. QED
        BY <4>1, <4>3, <4>4
    <3>4. QED
      BY <2>5, <3>2, <3>3 DEF Fail
  <2>6. CASE Reset
    BY <2>6 DEF Reset, Out, Fuse!Replace, Fuse!Next
  <2>7. CASE Tick
    BY <2>7 DEF Tick, Out, Fuse!vars
  <2>8. CASE UNCHANGED vars
    BY <2>8 DEF vars, Out, Fuse!vars
  <2>9. QED
    BY <2>1, <2>2, <2>3, <2>4, <2>5, <2>6, <2>7, <2>8 DEF Next, Finish, Fuse!Next
<1>3. QED
  BY <1>1, <1>2, BreakerInvariant, PTL DEF Spec, FuseSpec, Fuse!Spec

-----------------------------------------------------------------------------
(* The rate limiter.                                                       *)

-----------------------------------------------------------------------------
(* Arithmetic.                                                             *)

LEMMA ProductType == ASSUME NEW m \in Nat, NEW n \in Nat PROVE m * n \in Nat
OBVIOUS

LEMMA OneMore == ASSUME NEW m \in Nat, NEW n \in Nat PROVE (m + 1) * n = m * n + n
OBVIOUS

LEMMA FullType == Full \in Nat /\ Unit \in Nat \ {0} /\ Unit <= Full
<1>1. Unit \in Nat \ {0} /\ Burst \in Nat \ {0} /\ Burst - 1 \in Nat
  BY BucketAssumption
<1>2. (Burst - 1 + 1) * Unit = (Burst - 1) * Unit + Unit
  BY <1>1, OneMore
<1>3. (Burst - 1) * Unit \in Nat /\ Burst - 1 + 1 = Burst
  BY <1>1, ProductType
<1>4. Burst * Unit = (Burst - 1) * Unit + Unit
  BY <1>2, <1>3
<1>5. QED
  BY <1>1, <1>3, <1>4 DEF Full

LEMMA LesserType ==
  ASSUME NEW a \in Nat, NEW b \in Nat
  PROVE  Lesser(a, b) \in Nat /\ Lesser(a, b) <= a /\ Lesser(a, b) <= b
BY DEF Lesser

-----------------------------------------------------------------------------
(* Keys and rates.                                                         *)

LEMMA KeyFacts ==
  ASSUME NEW c \in Callers
  PROVE  /\ BucketKey(c) \in Keys /\ BucketKey(c).tool = c.tool /\ c.tool \in Tools
         /\ Rpm[c.tool] \in Nat
         /\ PerUser /\ c.user # Anonymous => BucketKey(c) = c
<1>1. c.tool \in Tools
  BY DEF Tools
<1>2. Rpm[c.tool] \in Nat
  BY <1>1, LimitAssumption
<1>3. BucketKey(c) \in Keys
  BY Zenon DEF Keys
<1>4. BucketKey(c).tool = c.tool
  BY DEF BucketKey
<1>5. QED
  BY <1>1, <1>2, <1>3, <1>4 DEF BucketKey

(* A bucket of one user is shared with nobody.                             *)
LEMMA OwnBucket ==
  ASSUME NEW c \in Callers, NEW d \in Callers, PerUser, c.user # Anonymous,
         BucketKey(d) = BucketKey(c)
  PROVE  d = c
<1>1. c = [tool |-> c.tool, user |-> c.user] /\ BucketKey(c) = c
  BY LimitAssumption, KeyFacts
<1>2. CASE d.user # Anonymous
  BY <1>1, <1>2 DEF BucketKey
<1>3. CASE d.user = Anonymous
  <2>1. BucketKey(d) = [tool |-> d.tool, user |-> Anonymous]
    BY <1>3 DEF BucketKey
  <2>2. BucketKey(d).user = Anonymous
    BY <2>1
  <2>3. QED
    BY <1>1, <2>2
<1>4. QED
  BY <1>2, <1>3

LEMMA RateOfKey ==
  ASSUME NEW k \in Keys
  PROVE  k.tool \in Tools /\ Rpm[k.tool] \in Nat
<1>1. k.tool \in Tools
  <2>1. CASE \E c \in Callers : k = BucketKey(c)
    BY <2>1, KeyFacts
  <2>2. CASE \E t \in Tools : k = [tool |-> t, user |-> Anonymous]
    BY <2>2
  <2>3. QED
    BY <2>1, <2>2 DEF Keys
<1>2. QED
  BY <1>1, LimitAssumption

-----------------------------------------------------------------------------
(* The level of a bucket, that is, of what it would hold if it were looked *)
(* at now.                                                                 *)

Buckets == [tokens : 0..Full, since : 0..Window]

LevelOf(k) == Level(k, Bucket(k))

LEMMA BucketType ==
  ASSUME LimiterTypeOK, NEW k \in Keys
  PROVE  /\ Bucket(k) \in Buckets
         /\ buckets[k] # Unset => Bucket(k) = buckets[k]
<1>1. buckets[k] \in Buckets \cup {Unset}
  BY DEF LimiterTypeOK, Buckets
<1>2. [tokens |-> Full, since |-> 0] \in Buckets
  BY FullType, LimitAssumption DEF Buckets
<1>3. QED
  BY <1>1, <1>2 DEF Bucket

LEMMA LevelType ==
  ASSUME NEW k \in Keys, NEW b \in Buckets
  PROVE  Level(k, b) \in 0..Full
<1>1. b.tokens \in 0..Full /\ b.since \in 0..Window
  BY DEF Buckets
<1>2. b.tokens \in Nat /\ b.since \in Nat /\ Rpm[k.tool] \in Nat /\ Full \in Nat
  BY <1>1, FullType, LimitAssumption, RateOfKey
<1>3. b.since * Rpm[k.tool] \in Nat
  BY <1>2, ProductType
<1>4. b.tokens + b.since * Rpm[k.tool] \in Nat
  BY <1>2, <1>3
<1>5. Level(k, b) = Lesser(Full, b.tokens + b.since * Rpm[k.tool])
  BY Zenon DEF Level
<1>6. QED
  BY <1>2, <1>4, <1>5, LesserType

LEMMA LevelNow ==
  ASSUME LimiterTypeOK, NEW k \in Keys
  PROVE  LevelOf(k) \in Nat /\ LevelOf(k) <= Full
<1>1. LevelOf(k) \in 0..Full
  BY BucketType, LevelType DEF LevelOf
<1>2. QED
  BY <1>1, FullType

(* A bucket that has just been looked at holds its level.                  *)
LEMMA LevelAtOnce ==
  ASSUME NEW k \in Keys, NEW n \in 0..Full
  PROVE  Level(k, [tokens |-> n, since |-> 0]) = n
<1>1. Rpm[k.tool] \in Nat /\ Full \in Nat
  BY RateOfKey, FullType
<1>2. 0 * Rpm[k.tool] = 0
  BY <1>1
<1>3. QED
  BY <1>1, <1>2 DEF Level, Lesser

(* Consuming takes a token, if there is one.                               *)
LEMMA Consumed ==
  ASSUME LimiterTypeOK, NEW k \in Keys, buckets' = [buckets EXCEPT ![k] = Consume(k)]
  PROVE  /\ buckets' \in [Keys -> Buckets \cup {Unset}]
         /\ Consume(k).tokens \in 0..Full
         /\ LevelOf(k)' = IF LevelOf(k) >= Unit THEN LevelOf(k) - Unit ELSE LevelOf(k)
         /\ LevelOf(k)' = Consume(k).tokens
         /\ \A j \in Keys \ {k} : LevelOf(j)' = LevelOf(j)
<1> DEFINE n == IF LevelOf(k) >= Unit THEN LevelOf(k) - Unit ELSE LevelOf(k)
<1>1. n \in 0..Full
  BY LevelNow, FullType
<1>2. Consume(k) = [tokens |-> n, since |-> 0]
  BY Zenon DEF Consume, LevelOf
<1>3. Consume(k) \in Buckets /\ Consume(k).tokens = n
  BY <1>1, <1>2, LimitAssumption DEF Buckets
<1>4. /\ buckets' \in [Keys -> Buckets \cup {Unset}]
      /\ buckets'[k] = Consume(k)
      /\ \A j \in Keys \ {k} : buckets'[j] = buckets[j]
  BY <1>3 DEF LimiterTypeOK, Buckets
<1>5. Bucket(k)' = [tokens |-> n, since |-> 0]
  <2>1. Unset \notin Buckets
    BY UnsetAssumption DEF Buckets
  <2>2. QED
    BY <1>2, <1>3, <1>4, <2>1 DEF Bucket
<1>6. LevelOf(k)' = n
  <2>1. LevelOf(k)' = Level(k, [tokens |-> n, since |-> 0])
    BY <1>5, Zenon DEF LevelOf, Level
  <2>2. QED
    BY <1>1, <2>1, LevelAtOnce
<1>7. \A j \in Keys \ {k} : LevelOf(j)' = LevelOf(j)
  BY <1>4, Zenon DEF LevelOf, Level, Bucket
<1>8. QED
  BY <1>1, <1>3, <1>4, <1>6, <1>7

(* Where there is none, the level stays as it is.                          *)
LEMMA Rejected ==
  ASSUME LimiterTypeOK, NEW k \in Keys, LevelOf(k) < Unit,
         buckets' = [buckets EXCEPT ![k] = Consume(k)]
  PROVE  LevelOf(k)' = LevelOf(k) /\ Consume(k).tokens = LevelOf(k)
<1>1. ~(LevelOf(k) >= Unit)
  BY LevelNow, FullType
<1>2. /\ LevelOf(k)' = IF LevelOf(k) >= Unit THEN LevelOf(k) - Unit ELSE LevelOf(k)
      /\ LevelOf(k)' = Consume(k).tokens
  BY Consumed
<1>3. QED
  BY <1>1, <1>2, Zenon

(* A tick adds the rate, up to what the bucket holds; that the time since  *)
(* the last refill is cut off at Window makes no difference.               *)
LEMMA Refilled ==
  ASSUME LimiterTypeOK, PassTime, NEW k \in Keys
  PROVE  /\ buckets'[k] \in Buckets \cup {Unset}
         /\ LevelOf(k)' = Lesser(Full, LevelOf(k) + Rpm[k.tool])
<1> DEFINE r == Rpm[k.tool]
<1>0. /\ r \in Nat /\ Full \in Nat /\ Window \in Nat
      /\ r > 0 => Window * r >= Full
  BY RateOfKey, FullType, LimitAssumption
<1>1. buckets'[k] = IF buckets[k] = Unset THEN Unset
                    ELSE [buckets[k] EXCEPT !.since = Lesser(Window, @ + 1)]
  BY Zenon DEF PassTime
<1>2. CASE buckets[k] = Unset
  <2>1. buckets'[k] = Unset
    BY <1>1, <1>2
  <2>2. /\ Bucket(k) = [tokens |-> Full, since |-> 0]
        /\ Bucket(k)' = [tokens |-> Full, since |-> 0]
    BY <1>2, <2>1, Zenon DEF Bucket
  <2>3. Full \in 0..Full
    BY <1>0
  <2>4. LevelOf(k) = Full
    BY <2>2, <2>3, LevelAtOnce DEF LevelOf
  <2>5. LevelOf(k)' = Full
    <3>1. LevelOf(k)' = Level(k, [tokens |-> Full, since |-> 0])
      BY <2>2, Zenon DEF LevelOf, Level
    <3>2. QED
      BY <2>3, <3>1, LevelAtOnce
  <2>6. Lesser(Full, Full + r) = Full
    BY <1>0 DEF Lesser
  <2>7. QED
    BY <2>1, <2>4, <2>5, <2>6, Zenon
<1>3. CASE buckets[k] # Unset
  <2> DEFINE b == buckets[k]
             n == Lesser(Window, b.since + 1)
  <2>1. b \in Buckets /\ Bucket(k) = b
    BY <1>3, BucketType DEF LimiterTypeOK, Buckets
  <2>2. /\ b.tokens \in Nat /\ b.tokens <= Full
        /\ b.since \in Nat /\ b.since <= Window
    BY <1>0, <2>1 DEF Buckets
  <2>3. n \in 0..Window /\ (b.since < Window => n = b.since + 1)
        /\ (b.since = Window => n = Window)
    BY <1>0, <2>2 DEF Lesser
  <2>4. /\ buckets'[k] = [b EXCEPT !.since = n]
        /\ [b EXCEPT !.since = n] \in Buckets
        /\ [b EXCEPT !.since = n].tokens = b.tokens
        /\ [b EXCEPT !.since = n].since = n
    BY <1>1, <1>3, <2>1, <2>3 DEF Buckets
  <2>5. Bucket(k)' = [b EXCEPT !.since = n]
    BY <2>4, UnsetAssumption DEF Bucket, Buckets
  <2>6. LevelOf(k)' = Lesser(Full, b.tokens + n * r)
    BY <2>4, <2>5, Zenon DEF LevelOf, Level
  <2>7. LevelOf(k) = Lesser(Full, b.tokens + b.since * r)
    BY <2>1, Zenon DEF LevelOf, Level
  <2> DEFINE p == b.since * r
             q == n * r
  <2>8. p \in Nat /\ q \in Nat
    BY <1>0, <2>2, <2>3, ProductType
  <2>9. b.since < Window => q = p + r
    BY <1>0, <2>2, <2>3, OneMore
  <2>10. b.since = Window => /\ q = p
                             /\ r = 0 \/ p >= Full
    BY <1>0, <2>2, <2>3
  <2>11. Lesser(Full, b.tokens + q) = Lesser(Full, Lesser(Full, b.tokens + p) + r)
    <3> HIDE DEF p, q, r, b, n
    <3>1. CASE q = p + r
      BY <1>0, <2>2, <2>8, <3>1 DEF Lesser
    <3>2. CASE q = p /\ r = 0
      BY <1>0, <2>2, <2>8, <3>2 DEF Lesser
    <3>3. CASE q = p /\ p >= Full
      BY <1>0, <2>2, <2>8, <3>3 DEF Lesser
    <3>4. b.since < Window \/ b.since = Window
      BY <1>0, <2>2
    <3>5. QED
      BY <2>9, <2>10, <3>1, <3>2, <3>3, <3>4
  <2>12. QED
    BY <2>4, <2>6, <2>7, <2>11, Zenon
<1>4. QED
  BY <1>2, <1>3

-----------------------------------------------------------------------------
(* Types.                                                                  *)

(* retry_after, where the rate is not zero: long enough for a token.       *)
LEMMA RetryLongEnough ==
  ASSUME NEW k \in Keys, Rpm[k.tool] > 0, NEW n \in Nat, n < Unit
  PROVE  /\ RetryAfter(k, n) \in 0..Unit
         /\ n + RetryAfter(k, n) * Rpm[k.tool] >= Unit
<1> DEFINE r == Rpm[k.tool]
           m == Unit - n + r - 1
           d == m \div r
<1>1. r \in Nat /\ r > 0 /\ Unit \in Nat \ {0}
  BY RateOfKey, FullType
<1>2. m \in Nat /\ m >= r
  BY <1>1
<1> HIDE DEF r, m
<1>3. d \in Int /\ d * r <= m /\ m < d * r + r
  BY <1>1, <1>2
<1>4. d >= 0
  <2>1. ASSUME d < 0 PROVE FALSE
    <3>1. 0 - d - 1 \in Nat
      BY <1>3, <2>1
    <3>2. (0 - d - 1) * r \in Nat
      BY <1>1, <3>1, ProductType
    <3>3. (0 - d - 1) * r = 0 - d * r - r
      BY <1>1, <1>3
    <3>4. d * r \in Int
      BY <1>1, <1>3
    <3>5. QED
      BY <1>1, <1>2, <1>3, <3>2, <3>3, <3>4
  <2>2. QED
    BY <1>3, <2>1
<1>5. d <= Unit
  <2>1. ASSUME d > Unit PROVE FALSE
    <3>1. d - Unit - 1 \in Nat /\ r - 1 \in Nat
      BY <1>1, <1>3, <1>4, <2>1
    <3>2. (d - Unit - 1) * r \in Nat /\ Unit * (r - 1) \in Nat
      BY <1>1, <3>1, ProductType
    <3>3. d * r = (d - Unit - 1) * r + Unit * (r - 1) + Unit + r
      BY <1>1, <1>3
    <3>4. m < Unit + r
      BY <1>1 DEF m
    <3>5. QED
      BY <1>1, <1>2, <1>3, <3>2, <3>3, <3>4
  <2>2. QED
    BY <1>1, <1>3, <2>1
<1>6. d * r >= Unit - n
  <2>1. d * r \in Nat
    BY <1>1, <1>3, <1>4, ProductType
  <2>2. QED
    BY <1>1, <1>2, <1>3, <2>1 DEF m
<1>7. RetryAfter(k, n) = d /\ Rpm[k.tool] = r
  BY Zenon DEF RetryAfter, d, m, r
<1>8. d * r \in Nat
  BY <1>1, <1>3, <1>4, ProductType
<1> HIDE DEF d
<1>9. QED
  BY <1>1, <1>3, <1>4, <1>5, <1>6, <1>7, <1>8

LEMMA LimiterTypes ==
  ASSUME LimiterTypeOK, [LimiterNext]_limiterVars
  PROVE  LimiterTypeOK'
<1>0. /\ buckets \in [Keys -> Buckets \cup {Unset}]
      /\ granted \in [Callers -> [0..Window -> Nat]]
      /\ promise \in [Callers -> 0..Unit \cup {Unset}]
      /\ Window \in Nat
  BY LimitAssumption DEF LimiterTypeOK, Buckets
<1>1. ASSUME NEW c \in Callers, Allow(c) PROVE LimiterTypeOK'
  <2>1. BucketKey(c) \in Keys
    BY KeyFacts
  <2>2. buckets' \in [Keys -> Buckets \cup {Unset}]
    BY <1>1, <2>1, Consumed DEF Allow
  <2>3. [w \in 0..Window |-> granted[c][w] + 1] \in [0..Window -> Nat]
    BY <1>0
  <2>4. granted' \in [Callers -> [0..Window -> Nat]]
    BY <1>0, <1>1, <2>3, Zenon DEF Allow
  <2>5. promise' \in [Callers -> 0..Unit \cup {Unset}]
    BY <1>0, <1>1, Zenon DEF Allow
  <2>6. QED
    BY <2>2, <2>4, <2>5, Zenon DEF LimiterTypeOK, Buckets
<1>2. ASSUME NEW c \in Callers, Deny(c) PROVE LimiterTypeOK'
  <2> DEFINE k == BucketKey(c)
  <2>1. k \in Keys
    BY KeyFacts
  <2>2. /\ LevelOf(k) < Unit /\ Rpm[k.tool] > 0
        /\ buckets' = [buckets EXCEPT ![k] = Consume(k)]
        /\ promise' = [promise EXCEPT ![c] = RetryAfter(k, Consume(k).tokens)]
        /\ granted' = granted
    BY <1>2, Zenon DEF Deny, LevelOf
  <2>3. Consume(k).tokens \in Nat /\ Consume(k).tokens < Unit
    <3>1. Consume(k).tokens = LevelOf(k)
      BY <2>1, <2>2, Rejected
    <3>2. QED
      BY <2>1, <2>2, <3>1, LevelNow, Zenon
  <2>4. RetryAfter(k, Consume(k).tokens) \in 0..Unit
    BY <2>1, <2>2, <2>3, RetryLongEnough
  <2>5. buckets' \in [Keys -> Buckets \cup {Unset}]
    BY <2>1, <2>2, Consumed
  <2>6. promise' \in [Callers -> 0..Unit \cup {Unset}]
    BY <1>0, <2>2, <2>4, Zenon
  <2>7. QED
    BY <1>0, <2>2, <2>5, <2>6, Zenon DEF LimiterTypeOK, Buckets
<1>3. ASSUME NEW c \in Callers, DivideByZero(c) PROVE LimiterTypeOK'
  <2>1. BucketKey(c) \in Keys
    BY KeyFacts
  <2>2. buckets' \in [Keys -> Buckets \cup {Unset}]
    BY <1>3, <2>1, Consumed DEF DivideByZero
  <2>3. QED
    BY <1>0, <1>3, <2>2, Zenon DEF DivideByZero, LimiterTypeOK, Buckets
<1>4. ASSUME PassTime PROVE LimiterTypeOK'
  <2>1. buckets' \in [Keys -> Buckets \cup {Unset}]
    <3>1. \A k \in Keys : buckets'[k] \in Buckets \cup {Unset}
      BY <1>4, Refilled
    <3>2. DOMAIN buckets' = Keys /\ buckets' = [k \in Keys |-> buckets'[k]]
      BY <1>4 DEF PassTime
    <3>3. QED
      BY <3>1, <3>2, Zenon
  <2>2. granted' \in [Callers -> [0..Window -> Nat]]
    <3>1. ASSUME NEW c \in Callers
          PROVE  [w \in 0..Window |-> IF w = 0 THEN 0 ELSE granted[c][w - 1]]
                   \in [0..Window -> Nat]
      <4>1. \A w \in 0..Window : w # 0 => w - 1 \in 0..Window
        BY <1>0
      <4>2. granted[c] \in [0..Window -> Nat]
        BY <1>0
      <4>3. QED
        BY <4>1, <4>2
    <3>2. QED
      BY <1>4, <3>1, Zenon DEF PassTime
  <2>3. promise' \in [Callers -> 0..Unit \cup {Unset}]
    <3>1. ASSUME NEW c \in Callers
          PROVE  (IF promise[c] \in {Unset, 0} THEN promise[c] ELSE promise[c] - 1)
                   \in 0..Unit \cup {Unset}
      <4>1. promise[c] \in 0..Unit \cup {Unset}
        BY <1>0
      <4>2. QED
        BY <4>1, FullType
    <3>2. QED
      BY <1>4, <3>1, Zenon DEF PassTime
  <2>4. QED
    BY <2>1, <2>2, <2>3, Zenon DEF LimiterTypeOK, Buckets
<1>5. ASSUME UNCHANGED limiterVars PROVE LimiterTypeOK'
  BY <1>0, <1>5, Zenon DEF limiterVars, LimiterTypeOK, Buckets
<1>6. QED
  BY <1>1, <1>2, <1>3, <1>4, <1>5, Zenon DEF LimiterNext

(* No bucket holds more than the burst, and nobody is told to come back    *)
(* after more ticks than a token has fractions (TokenBucket).              *)
THEOREM LimiterTypeInvariant == LimiterSpec => []LimiterTypeOK
<1>1. LimiterInit => LimiterTypeOK
  <2>1. LimiterInit => granted \in [Callers -> [0..Window -> Nat]]
    BY DEF LimiterInit
  <2>2. QED
    BY <2>1, Zenon DEF LimiterInit, LimiterTypeOK
<1>2. QED
  BY <1>1, LimiterTypes, PTL DEF LimiterSpec

(* Both refusals keep their types, whatever either of them does.           *)
THEOREM RefusalsTypes == RefusalsSpec => []RefusalsTypeOK
BY TypeCorrect, LimiterTypeInvariant, PTL DEF RefusalsSpec, RefusalsTypeOK

-----------------------------------------------------------------------------
(* The invariant has three parts.  What a caller was granted in a window,  *)
(* and what its bucket has left, are no more than burst and rate allow; a  *)
(* bucket of one user has as much as the ticks since the last grant have   *)
(* brought; and who waits as long as it was told will find a token.        *)

BudgetKept ==
  \A c \in Callers, w \in 0..Window :
    granted[c][w] * Unit + LevelOf(BucketKey(c)) <= Full + w * Rpm[c.tool]

RefilledSince ==
  \A c \in Callers, w \in 0..Window :
    PerUser /\ c.user # Anonymous /\ Rpm[c.tool] > 0 /\ granted[c][w] = 0 =>
      LevelOf(BucketKey(c)) >= Lesser(Full, w * Rpm[c.tool])

PromiseKept ==
  \A c \in Callers : promise[c] # Unset =>
    /\ Rpm[c.tool] > 0
    /\ LevelOf(BucketKey(c)) + promise[c] * Rpm[c.tool] >= Unit

LimiterInv == BudgetKept /\ RefilledSince /\ PromiseKept

(* What a step does to the level of a caller's bucket, and to what is      *)
(* remembered of the caller.                                               *)
Shift(c, level, new) ==
  /\ new = Lesser(Full, level + Rpm[c.tool])
  /\ granted'[c] = [w \in 0..Window |-> IF w = 0 THEN 0 ELSE granted[c][w - 1]]
  /\ promise'[c] = IF promise[c] \in {Unset, 0} THEN promise[c] ELSE promise[c] - 1

LEMMA LevelStep ==
  ASSUME LimiterTypeOK, [LimiterNext]_limiterVars, NEW c \in Callers
  PROVE  LET k == BucketKey(c)
             level == LevelOf(k)
             new == LevelOf(k)'
         IN  \/ /\ new = level /\ granted'[c] = granted[c]
                /\ promise'[c] = promise[c]
             \/ /\ new = level - Unit /\ level >= Unit
                /\ granted'[c] = [w \in 0..Window |-> granted[c][w] + 1]
                /\ promise'[c] = Unset
             \/ /\ new = level - Unit /\ level >= Unit /\ granted'[c] = granted[c]
                /\ ~(PerUser /\ c.user # Anonymous) \/ Rpm[c.tool] = 0
                /\ promise'[c] = Unset \/ (Rpm[c.tool] = 0 /\ promise'[c] = promise[c])
             \/ /\ new = level /\ granted'[c] = granted[c]
                /\ Rpm[c.tool] > 0 /\ level < Unit
                /\ promise'[c] = RetryAfter(k, level)
             \/ Shift(c, level, new)
<1> DEFINE k == BucketKey(c)
           level == LevelOf(k)
           new == LevelOf(k)'
<1>0. /\ k \in Keys /\ k.tool = c.tool
      /\ granted \in [Callers -> [0..Window -> Nat]]
      /\ promise \in [Callers -> 0..Unit \cup {Unset}]
  BY KeyFacts DEF LimiterTypeOK
<1>1. ASSUME NEW d \in Callers, Allow(d), BucketKey(d) = k
      PROVE  /\ new = level - Unit /\ level >= Unit
             /\ promise'[c] = Unset
             /\ d = c => granted'[c] = [w \in 0..Window |-> granted[c][w] + 1]
             /\ d # c => granted'[c] = granted[c]
  <2>1. LevelOf(k) >= Unit /\ buckets' = [buckets EXCEPT ![k] = Consume(k)]
    BY <1>1, Zenon DEF Allow, LevelOf
  <2>2. new = level - Unit /\ level >= Unit
    BY <1>0, <2>1, Consumed
  <2>3. promise'[c] = Unset
    BY <1>1, Zenon DEF Allow
  <2>4. granted' = [granted EXCEPT ![d] = [w \in 0..Window |-> granted[d][w] + 1]]
    BY <1>1, Zenon DEF Allow
  <2>5. QED
    BY <1>0, <2>2, <2>3, <2>4, Zenon
<1>2. ASSUME NEW d \in Callers, Deny(d), BucketKey(d) = k
      PROVE  /\ new = level /\ granted'[c] = granted[c]
             /\ Rpm[c.tool] > 0 /\ level < Unit
             /\ d = c => promise'[c] = RetryAfter(k, level)
             /\ d # c => promise'[c] = promise[c]
  <2>1. /\ LevelOf(k) < Unit /\ buckets' = [buckets EXCEPT ![k] = Consume(k)]
        /\ Rpm[k.tool] > 0 /\ granted' = granted
        /\ promise' = [promise EXCEPT ![d] = RetryAfter(k, Consume(k).tokens)]
    BY <1>2, Zenon DEF Deny, LevelOf
  <2>2. new = level /\ Consume(k).tokens = level
    BY <1>0, <2>1, Rejected
  <2>3. QED
    BY <1>0, <2>1, <2>2, Zenon
<1>3. ASSUME NEW d \in Callers, DivideByZero(d), BucketKey(d) = k
      PROVE  /\ new = level \/ (new = level - Unit /\ level >= Unit)
             /\ granted'[c] = granted[c] /\ promise'[c] = promise[c]
             /\ Rpm[c.tool] = 0
  <2>1. /\ buckets' = [buckets EXCEPT ![k] = Consume(k)]
        /\ Rpm[k.tool] = 0 /\ granted' = granted /\ promise' = promise
    BY <1>3, Zenon DEF DivideByZero
  <2>2. new = level \/ (new = level - Unit /\ level >= Unit)
    BY <1>0, <2>1, Consumed
  <2>3. QED
    BY <1>0, <2>1, <2>2, Zenon
<1>4. ASSUME NEW d \in Callers, Allow(d) \/ Deny(d) \/ DivideByZero(d), BucketKey(d) # k
      PROVE  new = level /\ granted'[c] = granted[c] /\ promise'[c] = promise[c]
  <2>1. BucketKey(d) \in Keys /\ d # c
    BY <1>4, KeyFacts
  <2>2. buckets' = [buckets EXCEPT ![BucketKey(d)] = Consume(BucketKey(d))]
    BY <1>4, Zenon DEF Allow, Deny, DivideByZero
  <2>3. new = level
    BY <1>0, <1>4, <2>1, <2>2, Consumed
  <2>4. granted'[c] = granted[c]
    BY <1>0, <1>4, <2>1, Zenon DEF Allow, Deny, DivideByZero
  <2>5. promise'[c] = promise[c]
    BY <1>0, <1>4, <2>1, Zenon DEF Allow, Deny, DivideByZero
  <2>6. QED
    BY <2>3, <2>4, <2>5
<1>5. ASSUME PassTime PROVE Shift(c, level, new)
  <2>1. new = Lesser(Full, level + Rpm[c.tool])
    BY <1>0, <1>5, Refilled
  <2>2. QED
    BY <1>5, <2>1, Zenon DEF PassTime, Shift
<1>6. ASSUME UNCHANGED limiterVars
      PROVE  new = level /\ granted'[c] = granted[c] /\ promise'[c] = promise[c]
  BY <1>6, Zenon DEF limiterVars, LevelOf, Level, Bucket
<1>7. ASSUME NEW d \in Callers, d # c, BucketKey(d) = k
      PROVE  ~(PerUser /\ c.user # Anonymous)
  BY <1>7, OwnBucket
<1>8. ASSUME NEW d \in Callers, Allow(d) \/ Deny(d) \/ DivideByZero(d)
      PROVE  \/ /\ new = level /\ granted'[c] = granted[c]
                /\ promise'[c] = promise[c]
             \/ /\ new = level - Unit /\ level >= Unit
                /\ granted'[c] = [w \in 0..Window |-> granted[c][w] + 1]
                /\ promise'[c] = Unset
             \/ /\ new = level - Unit /\ level >= Unit /\ granted'[c] = granted[c]
                /\ ~(PerUser /\ c.user # Anonymous) \/ Rpm[c.tool] = 0
                /\ promise'[c] = Unset \/ (Rpm[c.tool] = 0 /\ promise'[c] = promise[c])
             \/ /\ new = level /\ granted'[c] = granted[c]
                /\ Rpm[c.tool] > 0 /\ level < Unit
                /\ promise'[c] = RetryAfter(k, level)
  BY <1>1, <1>2, <1>3, <1>4, <1>7, <1>8, Zenon
<1>9. QED
  BY <1>5, <1>6, <1>8, Zenon DEF LimiterNext

LEMMA LevelNat ==
  ASSUME LimiterTypeOK, NEW c \in Callers
  PROVE  /\ LevelOf(BucketKey(c)) \in Nat /\ LevelOf(BucketKey(c)) <= Full
         /\ Rpm[c.tool] \in Nat
         /\ granted[c] \in [0..Window -> Nat]
         /\ promise[c] \in 0..Unit \cup {Unset}
BY KeyFacts, LevelNow DEF LimiterTypeOK

LEMMA BudgetStep ==
  ASSUME LimiterTypeOK, BudgetKept, [LimiterNext]_limiterVars
  PROVE  BudgetKept'
<1>0. SUFFICES ASSUME NEW c \in Callers, NEW w \in 0..Window
               PROVE  granted'[c][w] * Unit + LevelOf(BucketKey(c))'
                        <= Full + w * Rpm[c.tool]
  BY Zenon DEF BudgetKept, BucketKey
<1> DEFINE k == BucketKey(c)
           level == LevelOf(k)
           new == LevelOf(k)'
           g == granted[c][w]
           rate == Rpm[c.tool]
           most == w * rate
<1>1. /\ level \in Nat /\ level <= Full /\ rate \in Nat /\ g \in Nat /\ w \in Nat
      /\ Full \in Nat /\ Unit \in Nat /\ Window \in Nat
  BY LevelNat, FullType, LimitAssumption
<1>2. g * Unit \in Nat /\ most \in Nat
  BY <1>1, ProductType
<1>3. g * Unit + level <= Full + most
  BY DEF BudgetKept
<1>4. CASE new = level /\ granted'[c] = granted[c]
  BY <1>3, <1>4
<1>5. CASE new = level - Unit /\ granted'[c] = granted[c]
  BY <1>1, <1>2, <1>3, <1>5
<1>6. CASE new = level - Unit /\ granted'[c] = [v \in 0..Window |-> granted[c][v] + 1]
  <2>1. granted'[c][w] = g + 1
    BY <1>6
  <2>2. (g + 1) * Unit = g * Unit + Unit
    BY <1>1, OneMore
  <2>3. granted'[c][w] * Unit = g * Unit + Unit
    BY <2>1, <2>2
  <2>4. QED
    BY <1>1, <1>2, <1>3, <1>6, <2>3
<1>7. CASE Shift(c, level, new)
  <2>1. new = Lesser(Full, level + rate)
        /\ granted'[c] = [v \in 0..Window |-> IF v = 0 THEN 0 ELSE granted[c][v - 1]]
    BY <1>7 DEF Shift
  <2>2. new \in Nat /\ new <= Full /\ new <= level + rate
    <3>1. level + rate \in Nat
      BY <1>1
    <3>2. /\ Lesser(Full, level + rate) \in Nat /\ Lesser(Full, level + rate) <= Full
          /\ Lesser(Full, level + rate) <= level + rate
      BY <1>1, <3>1, LesserType
    <3>3. QED
      BY <2>1, <3>2
  <2>3. CASE w = 0
    <3>1. granted'[c][w] = 0 /\ most = 0 /\ 0 * Unit = 0
      BY <1>1, <2>1, <2>3
    <3>2. granted'[c][w] * Unit = 0
      BY <3>1
    <3>3. QED
      BY <1>1, <2>2, <3>1, <3>2
  <2>4. CASE w # 0
    <3>1. w - 1 \in 0..Window /\ w - 1 \in Nat
      BY <1>1, <2>4
    <3> DEFINE h == granted[c][w - 1]
               less == (w - 1) * rate
    <3>2. h \in Nat /\ granted'[c][w] = h
      BY <2>1, <2>4, <3>1, LevelNat
    <3>3. h * Unit + level <= Full + less
      BY <3>1 DEF BudgetKept
    <3>4. h * Unit \in Nat /\ less \in Nat
      BY <1>1, <3>1, <3>2, ProductType
    <3>5. most = less + rate
      <4>1. (w - 1 + 1) * rate = less + rate
        BY <1>1, <3>1, OneMore
      <4>2. w - 1 + 1 = w
        BY <1>1
      <4>3. QED
        BY <4>1, <4>2
    <3>6. granted'[c][w] * Unit = h * Unit
      BY <3>2
    <3> HIDE DEF less, most, level, rate, new, h
    <3>7. h * Unit + new <= Full + most
      BY <1>1, <2>2, <3>3, <3>4, <3>5
    <3>8. QED
      BY <3>6, <3>7 DEF most, rate, new
  <2>5. QED
    BY <2>3, <2>4
<1>8. QED
  BY <1>4, <1>5, <1>6, <1>7, LevelStep, Zenon

LEMMA RefillStep ==
  ASSUME LimiterTypeOK, RefilledSince, [LimiterNext]_limiterVars
  PROVE  RefilledSince'
<1>0. SUFFICES ASSUME NEW c \in Callers, NEW w \in 0..Window,
                      PerUser, c.user # Anonymous, Rpm[c.tool] > 0, granted'[c][w] = 0
               PROVE  LevelOf(BucketKey(c))' >= Lesser(Full, w * Rpm[c.tool])
  BY Zenon DEF RefilledSince, BucketKey
<1> DEFINE k == BucketKey(c)
           level == LevelOf(k)
           new == LevelOf(k)'
           g == granted[c][w]
           rate == Rpm[c.tool]
           most == w * rate
<1>1. /\ level \in Nat /\ level <= Full /\ rate \in Nat /\ g \in Nat /\ w \in Nat
      /\ Full \in Nat /\ Unit \in Nat /\ Window \in Nat
  BY LevelNat, FullType, LimitAssumption
<1>2. most \in Nat
  BY <1>1, ProductType
<1>3. g = 0 => level >= Lesser(Full, most)
  BY <1>0, Zenon DEF RefilledSince
<1>4. CASE new = level /\ granted'[c] = granted[c]
  BY <1>0, <1>3, <1>4
<1>5. CASE rate = 0 \/ ~(PerUser /\ c.user # Anonymous)
  BY <1>0, <1>1, <1>5
<1>6. CASE granted'[c] = [v \in 0..Window |-> granted[c][v] + 1]
  BY <1>0, <1>1, <1>6
<1>7. CASE Shift(c, level, new)
  <2>1. new = Lesser(Full, level + rate)
        /\ granted'[c] = [v \in 0..Window |-> IF v = 0 THEN 0 ELSE granted[c][v - 1]]
    BY <1>7 DEF Shift
  <2>2. CASE w = 0
    <3>1. most = 0
      BY <1>1, <2>2
    <3>2. QED
      BY <1>1, <2>1, <3>1 DEF Lesser
  <2>3. CASE w # 0
    <3>1. w - 1 \in 0..Window /\ w - 1 \in Nat
      BY <1>1, <2>3
    <3> DEFINE less == (w - 1) * rate
    <3>2. granted[c][w - 1] = 0
      BY <1>0, <2>1, <2>3
    <3>3. level >= Lesser(Full, less)
      BY <1>0, <3>1, <3>2, Zenon DEF RefilledSince
    <3>4. less \in Nat
      BY <1>1, <3>1, ProductType
    <3>5. most = less + rate
      <4>1. (w - 1 + 1) * rate = less + rate
        BY <1>1, <3>1, OneMore
      <4>2. w - 1 + 1 = w
        BY <1>1
      <4>3. QED
        BY <4>1, <4>2
    <3> HIDE DEF less, most, level, rate, new
    <3>6. new >= Lesser(Full, most)
      BY <1>1, <2>1, <3>3, <3>4, <3>5 DEF Lesser
    <3>7. QED
      BY <3>6 DEF most, rate, new
  <2>4. QED
    BY <2>2, <2>3
<1>8. QED
  BY <1>4, <1>5, <1>6, <1>7, LevelStep, Zenon

LEMMA PromiseStep ==
  ASSUME LimiterTypeOK, PromiseKept, [LimiterNext]_limiterVars
  PROVE  PromiseKept'
<1>0. SUFFICES ASSUME NEW c \in Callers, promise'[c] # Unset
               PROVE  /\ Rpm[c.tool] > 0
                      /\ LevelOf(BucketKey(c))' + promise'[c] * Rpm[c.tool] >= Unit
  BY Zenon DEF PromiseKept, BucketKey
<1> DEFINE k == BucketKey(c)
           level == LevelOf(k)
           new == LevelOf(k)'
           p == promise[c]
           rate == Rpm[c.tool]
<1>1. /\ level \in Nat /\ level <= Full /\ rate \in Nat
      /\ Full \in Nat /\ Unit \in Nat /\ Unit <= Full
      /\ p \in Nat \cup {Unset}
  BY LevelNat, FullType
<1>2. p # Unset => rate > 0 /\ level + p * rate >= Unit
  BY Zenon DEF PromiseKept
<1>3. CASE new = level /\ promise'[c] = promise[c]
  BY <1>0, <1>2, <1>3
<1>4. CASE rate = 0 /\ promise'[c] = promise[c]
  BY <1>0, <1>1, <1>2, <1>4
<1>5. CASE new = level /\ rate > 0 /\ level < Unit /\ promise'[c] = RetryAfter(k, level)
  <2>1. k \in Keys /\ k.tool = c.tool
    BY KeyFacts
  <2>2. level + RetryAfter(k, level) * Rpm[k.tool] >= Unit
    BY <1>1, <1>5, <2>1, RetryLongEnough
  <2>3. QED
    BY <1>5, <2>1, <2>2
<1>6. CASE Shift(c, level, new)
  <2>1. /\ new = Lesser(Full, level + rate)
        /\ promise'[c] = IF p \in {Unset, 0} THEN p ELSE p - 1
    BY <1>6 DEF Shift
  <2>2. p # Unset /\ p \in Nat
    BY <1>0, <1>1, <2>1
  <2>3. CASE p = 0
    <3>1. p * rate = 0 /\ promise'[c] = 0
      BY <1>1, <2>1, <2>3
    <3>2. level >= Unit
      BY <1>1, <1>2, <2>2, <3>1
    <3>3. promise'[c] * rate = 0
      BY <1>1, <3>1
    <3>4. new >= Unit /\ new \in Nat
      <4> HIDE DEF level, rate, new
      <4>1. QED
        BY <1>1, <2>1, <3>2 DEF Lesser
    <3>5. QED
      BY <1>1, <1>2, <2>2, <3>3, <3>4
  <2>4. CASE p # 0
    <3>1. p - 1 \in Nat /\ promise'[c] = p - 1
      BY <2>1, <2>2, <2>4
    <3> DEFINE less == (p - 1) * rate
               more == p * rate
    <3>2. less \in Nat
      BY <1>1, <3>1, ProductType
    <3>3. more = less + rate
      <4>1. (p - 1 + 1) * rate = less + rate
        BY <1>1, <3>1, OneMore
      <4>2. p - 1 + 1 = p
        BY <2>2
      <4>3. QED
        BY <4>1, <4>2
    <3>4. level + more >= Unit /\ rate > 0
      BY <1>2, <2>2
    <3>5. promise'[c] * rate = less
      BY <3>1
    <3> HIDE DEF less, more, level, rate, new
    <3>6. new + less >= Unit
      BY <1>1, <2>1, <3>2, <3>3, <3>4 DEF Lesser
    <3>7. QED
      BY <3>4, <3>5, <3>6 DEF rate, new
  <2>5. QED
    BY <2>3, <2>4
<1>7. QED
  BY <1>0, <1>3, <1>4, <1>5, <1>6, LevelStep, Zenon

LEMMA LimiterInvariance == LimiterSpec => [](LimiterTypeOK /\ LimiterInv)
<1>1. LimiterInit => LimiterInv
  <2> SUFFICES ASSUME LimiterInit PROVE LimiterInv
    OBVIOUS
  <2>1. ASSUME NEW c \in Callers
        PROVE  /\ LevelOf(BucketKey(c)) = Full /\ Full \in Nat
               /\ Rpm[c.tool] \in Nat
               /\ \A w \in 0..Window : granted[c][w] = 0
               /\ promise[c] = Unset
    <3>1. BucketKey(c) \in Keys /\ Rpm[c.tool] \in Nat
      BY KeyFacts
    <3>2. Bucket(BucketKey(c)) = [tokens |-> Full, since |-> 0]
      BY <3>1 DEF LimiterInit, Bucket
    <3>3. Full \in 0..Full /\ Full \in Nat
      BY FullType
    <3>4. LevelOf(BucketKey(c)) = Full
      BY <3>1, <3>2, <3>3, LevelAtOnce DEF LevelOf
    <3>5. promise[c] = Unset /\ \A w \in 0..Window : granted[c][w] = 0
      BY DEF LimiterInit
    <3>6. QED
      BY <3>1, <3>3, <3>4, <3>5
  <2>2. BudgetKept
    <3>1. SUFFICES ASSUME NEW c \in Callers, NEW w \in 0..Window
                   PROVE  granted[c][w] * Unit + LevelOf(BucketKey(c))
                            <= Full + w * Rpm[c.tool]
      BY Zenon DEF BudgetKept
    <3>2. w \in Nat
      BY LimitAssumption
    <3>3. w * Rpm[c.tool] \in Nat /\ 0 * Unit = 0
      BY <2>1, <3>2, ProductType, FullType
    <3>4. granted[c][w] * Unit = 0
      BY <2>1, <3>3
    <3>5. QED
      BY <2>1, <3>3, <3>4
  <2>3. RefilledSince
    <3>1. SUFFICES ASSUME NEW c \in Callers, NEW w \in 0..Window
                   PROVE  LevelOf(BucketKey(c)) >= Lesser(Full, w * Rpm[c.tool])
      BY Zenon DEF RefilledSince
    <3>2. w \in Nat
      BY LimitAssumption
    <3>3. w * Rpm[c.tool] \in Nat
      BY <2>1, <3>2, ProductType
    <3>4. QED
      BY <2>1, <3>3, LesserType
  <2>4. PromiseKept
    BY <2>1, Zenon DEF PromiseKept
  <2>5. QED
    BY <2>2, <2>3, <2>4 DEF LimiterInv
<1>2. LimiterTypeOK /\ LimiterInv /\ [LimiterNext]_limiterVars => LimiterInv'
  BY BudgetStep, RefillStep, PromiseStep, Zenon DEF LimiterInv
<1>3. QED
  BY <1>1, <1>2, LimiterTypeInvariant, PTL DEF LimiterSpec

(* However calls, rejections, pauses and other callers follow each other,  *)
(* no window sees more calls of one caller than the burst and what the     *)
(* rate adds in it (TokenBucket.consume, RateLimiter.check).               *)
THEOREM NoWindowExceedsTheLimit == LimiterSpec => []LimitHolds
<1>1. LimiterTypeOK /\ LimiterInv => LimitHolds
  <2>1. SUFFICES ASSUME LimiterTypeOK, BudgetKept, NEW c \in Callers, NEW w \in 0..Window
                 PROVE  granted[c][w] * Unit <= Full + w * Rpm[c.tool]
    BY Zenon DEF LimiterInv, LimitHolds
  <2>2. /\ w \in Nat /\ granted[c][w] \in Nat /\ Rpm[c.tool] \in Nat
        /\ LevelOf(BucketKey(c)) \in Nat /\ Full \in Nat /\ Unit \in Nat
    BY <2>1, LevelNat, FullType, LimitAssumption
  <2>3. w * Rpm[c.tool] \in Nat /\ granted[c][w] * Unit \in Nat
    BY <2>2, ProductType
  <2>4. granted[c][w] * Unit + LevelOf(BucketKey(c)) <= Full + w * Rpm[c.tool]
    BY <2>1 DEF BudgetKept
  <2>5. QED
    BY <2>2, <2>3, <2>4
<1>2. QED
  BY <1>1, LimiterInvariance, PTL

(* Who has waited for as long as it was told is not rejected, and with a   *)
(* bucket per user nobody is turned away because of others                 *)
(* (TokenBucket.retry_after, RateLimiter._bucket_key).                     *)
THEOREM RejectionsAreFair == LimiterSpec => DeniedFairly
<1>1. LimiterTypeOK /\ LimiterInv =>
        \A c \in Callers :
          Deny(c) => /\ promise[c] # 0
                     /\ PerUser /\ c.user # Anonymous => granted[c][Window] > 0
  <2>1. SUFFICES ASSUME LimiterTypeOK, LimiterInv, NEW c \in Callers, Deny(c)
                 PROVE  /\ promise[c] # 0
                        /\ PerUser /\ c.user # Anonymous => granted[c][Window] > 0
    BY Zenon
  <2>2. /\ LevelOf(BucketKey(c)) < Unit /\ Rpm[c.tool] > 0
        /\ LevelOf(BucketKey(c)) \in Nat /\ Rpm[c.tool] \in Nat
        /\ Full \in Nat /\ Unit \in Nat /\ Unit <= Full
        /\ Window \in Nat /\ granted[c] \in [0..Window -> Nat]
    <3>1. LevelOf(BucketKey(c)) < Unit /\ Rpm[BucketKey(c).tool] > 0
      BY <2>1, Zenon DEF Deny, LevelOf
    <3>2. BucketKey(c).tool = c.tool
      BY KeyFacts
    <3>3. QED
      BY <2>1, <3>1, <3>2, LevelNat, FullType, LimitAssumption
  <2>3. ASSUME promise[c] = 0 PROVE FALSE
    <3>1. promise[c] # Unset
      BY <2>3, UnsetAssumption
    <3>2. LevelOf(BucketKey(c)) + promise[c] * Rpm[c.tool] >= Unit
      BY <2>1, <3>1 DEF LimiterInv, PromiseKept
    <3>3. promise[c] * Rpm[c.tool] = 0
      BY <2>2, <2>3
    <3>4. QED
      BY <2>2, <3>2, <3>3
  <2>4. ASSUME PerUser, c.user # Anonymous, granted[c][Window] = 0 PROVE FALSE
    <3>1. Window \in 0..Window
      BY <2>2
    <3>2. LevelOf(BucketKey(c)) >= Lesser(Full, Window * Rpm[c.tool])
      BY <2>1, <2>2, <2>4, <3>1, Zenon DEF LimiterInv, RefilledSince
    <3>3. Window * Rpm[c.tool] >= Full /\ Window * Rpm[c.tool] \in Nat
      BY <2>2, KeyFacts, ProductType, LimitAssumption
    <3>4. Lesser(Full, Window * Rpm[c.tool]) = Full
      BY <2>2, <3>3 DEF Lesser
    <3>5. QED
      BY <2>2, <3>2, <3>4
  <2>5. QED
    BY <2>2, <2>3, <2>4
<1>2. QED
  BY <1>1, LimiterInvariance, PTL DEF DeniedFairly
=============================================================================
