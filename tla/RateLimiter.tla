---------------------------- MODULE RateLimiter ----------------------------
(***************************************************************************)
(* rate_limiting.py: a token bucket per tool and user, filled when it is   *)
(* looked at, and the middleware that asks it.  A check does not await, so *)
(* that it is one step.  Time passes in ticks; levels are counted in       *)
(* fractions of a token, of which a call takes Unit.                       *)
(***************************************************************************)
EXTENDS Integers

CONSTANTS
  Callers,   \* pairs of a tool and a user that call it
  Anonymous, \* no user
  PerUser,   \* the setting per_user
  Unit,      \* a token, in fractions
  Burst,     \* default_burst, in tokens
  Rpm,       \* per_tool, or default_rpm, of each tool: fractions a tick adds
  Window,    \* bound: the history goes back this far, in ticks
  Unset       \* no bucket, or no promise

Tools == {c.tool : c \in Callers}
Full == Burst * Unit

ASSUME BucketAssumption == Unit \in Nat \ {0} /\ Burst \in Nat \ {0}
ASSUME UnsetAssumption ==
  Unset \notin Nat \cup [tokens : 0..Full, since : 0..Window]
ASSUME LimitAssumption ==
  /\ \A c \in Callers : c = [tool |-> c.tool, user |-> c.user]
  /\ PerUser \in BOOLEAN
  /\ Rpm \in [Tools -> Nat]
  /\ Window \in Nat
  /\ \A t \in Tools : Rpm[t] > 0 => Window * Rpm[t] >= Full \* time to fill a bucket

VARIABLES
  buckets, \* _buckets
  granted, \* history: the calls granted to each caller in the last w ticks
  promise  \* history: the time after which a rejected caller was told to retry

limiterVars == <<buckets, granted, promise>>

(* Mutant: the user is left out of the key. *)
ToolKey(c) == [tool |-> c.tool, user |-> Anonymous]

BucketKey(c) ==
  IF PerUser /\ c.user # Anonymous THEN c ELSE [tool |-> c.tool, user |-> Anonymous]

Keys == {BucketKey(c) : c \in Callers} \cup {[tool |-> t, user |-> Anonymous] : t \in Tools}

LimiterTypeOK ==
  /\ buckets \in [Keys -> [tokens : 0..Full, since : 0..Window] \cup {Unset}]
  /\ granted \in [Callers -> [0..Window -> Nat]]
  /\ promise \in [Callers -> 0..Unit \cup {Unset}]

LimiterInit ==
  /\ buckets = [k \in Keys |-> Unset]
  /\ granted = [c \in Callers |-> [w \in 0..Window |-> 0]]
  /\ promise = [c \in Callers |-> Unset]

-----------------------------------------------------------------------------
(* The bucket.                                                             *)

Lesser(a, b) == IF a < b THEN a ELSE b

(* The level once _refill has run.                                         *)
Level(k, b) == Lesser(Full, b.tokens + b.since * Rpm[k.tool])

Bucket(k) == IF buckets[k] = Unset THEN [tokens |-> Full, since |-> 0] ELSE buckets[k]

(* Mutant: a rejected call leaves the time of the last refill. *)
RefillOnGrant(k) ==
  LET level == Level(k, Bucket(k))
  IN IF level >= Unit THEN [tokens |-> level - Unit, since |-> 0]
     ELSE [tokens |-> level, since |-> Bucket(k).since]

(* The bucket after consume.                                               *)
Consume(k) ==
  LET level == Level(k, Bucket(k))
  IN [tokens |-> IF level >= Unit THEN level - Unit ELSE level, since |-> 0]

(* retry_after, in whole ticks, of an empty bucket.                        *)
RetryAfter(k, tokens) == (Unit - tokens + Rpm[k.tool] - 1) \div Rpm[k.tool]

-----------------------------------------------------------------------------
(* A call: consume, then retry_after, which is looked at also if the call  *)
(* is allowed, and divides by the rate if there is no token left.          *)

Divides(k) == Consume(k).tokens < Unit

Allow(c) ==
  LET k == BucketKey(c)
  IN /\ Level(k, Bucket(k)) >= Unit
     /\ Divides(k) => Rpm[k.tool] > 0
     /\ buckets' = [buckets EXCEPT ![k] = Consume(k)]
     /\ granted' = [granted EXCEPT ![c] = [w \in 0..Window |-> granted[c][w] + 1]]
     /\ promise' = [d \in Callers |-> IF BucketKey(d) = k THEN Unset ELSE promise[d]]

Deny(c) ==
  LET k == BucketKey(c)
  IN /\ Level(k, Bucket(k)) < Unit
     /\ Rpm[k.tool] > 0
     /\ buckets' = [buckets EXCEPT ![k] = Consume(k)]
     /\ promise' = [promise EXCEPT ![c] = RetryAfter(k, Consume(k).tokens)]
     /\ UNCHANGED granted

(* A tool whose rate is zero: the division fails, the call is not made,    *)
(* and its token is gone.                                                  *)
DivideByZero(c) ==
  LET k == BucketKey(c)
  IN /\ Divides(k) /\ Rpm[k.tool] = 0
     /\ buckets' = [buckets EXCEPT ![k] = Consume(k)]
     /\ UNCHANGED <<granted, promise>>

PassTime ==
  /\ buckets' = [k \in Keys |->
                   IF buckets[k] = Unset THEN Unset
                   ELSE [buckets[k] EXCEPT !.since = Lesser(Window, @ + 1)]]
  /\ granted' = [c \in Callers |->
                   [w \in 0..Window |-> IF w = 0 THEN 0 ELSE granted[c][w - 1]]]
  /\ promise' = [c \in Callers |->
                   IF promise[c] \in {Unset, 0} THEN promise[c] ELSE promise[c] - 1]

LimiterNext ==
  \/ \E c \in Callers : Allow(c) \/ Deny(c) \/ DivideByZero(c)
  \/ PassTime

LimiterSpec == LimiterInit /\ [][LimiterNext]_limiterVars

-----------------------------------------------------------------------------
(* Properties.                                                             *)

(* Over every window, a caller gets no more than the burst and what the    *)
(* rate adds, however calls, rejections and pauses follow each other.      *)
LimitHolds ==
  \A c \in Callers, w \in 0..Window :
    granted[c][w] * Unit <= Full + w * Rpm[c.tool]

(* A rejection means what it says.  Who waits as long as the last one told *)
(* is served, unless others who share the bucket have been served since;   *)
(* and with a bucket per user, who has not been served for as long as a    *)
(* bucket takes to fill is not turned away because of others.              *)
DeniedFairly ==
  [][\A c \in Callers :
       Deny(c) => /\ promise[c] # 0
                  /\ PerUser /\ c.user # Anonymous => granted[c][Window] > 0]_limiterVars
=============================================================================
