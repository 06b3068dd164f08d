-------------------------- MODULE DownstreamProofs --------------------------
(***************************************************************************)
(* Proofs about Downstream, with RequestScope and CredentialCache, of      *)
(* which it is made, for any number of tasks, users, APIs and entries, and *)
(* any depth to which calls nest: whom a tool runs for, whose request      *)
(* context it reads, and whose token it calls an API with.                 *)
(***************************************************************************)
EXTENDS Downstream, TLAPS, SequenceTheorems, FiniteSetTheorems

-----------------------------------------------------------------------------
(* Stacks of calls.                                                        *)

(* A user belongs to the token: to the one of the tests any, to another    *)
(* the one it is named after, to none nobody.                              *)
Paired(u, k) == IF k = TestToken THEN u # None ELSE u = k

FrameOk(f) ==
  /\ Paired(f.user, f.token)
  /\ Paired(f.saved[1], f.saved[2])
  /\ f.by = "test" => ~f.own

(* f was pushed on g.                                                      *)
Follows(g, f) ==
  /\ f.by = "test" => g.by = "test"
  /\ ~g.crossed =>
       /\ f.by = "test" => f.saved = <<g.user, g.token>>
       /\ f.by # "test" /\ f.token = TestToken => f.user = g.user

StackOk(q) ==
  \A n \in 1..Len(q) :
    FrameOk(q[n]) /\ (n > 1 => Follows(q[n - 1], q[n]))

(* The call around is told what became of the one that is left.            *)
Told(g, crossed) == [g EXCEPT !.crossed = @ \/ crossed]

Popped(q, crossed) ==
  LET around == Front(q)
  IN  IF around = <<>> THEN <<>>
      ELSE [around EXCEPT ![Len(around)] = Told(Last(around), crossed)]

LEMMA StackHas ==
  ASSUME NEW q \in Seq(Frames)
  PROVE  /\ Len(q) \in Nat /\ DOMAIN q = 1..Len(q)
         /\ \A n \in 1..Len(q) : q[n] \in Frames
         /\ q # <<>> <=> Len(q) >= 1
<1>1. Len(q) \in Nat /\ DOMAIN q = 1..Len(q)
  BY LenProperties
<1>2. \A n \in 1..Len(q) : q[n] \in Frames
  BY ElementOfSeq
<1>3. q # <<>> <=> Len(q) >= 1
  BY EmptySeq, <1>1
<1>4. QED
  BY <1>1, <1>2, <1>3

LEMMA FrameHas ==
  ASSUME NEW f \in Frames
  PROVE  /\ f.by \in {"bridge", "test", "task"}
         /\ f.user \in Users \cup {None} /\ f.token \in AccessTokens \cup {None}
         /\ f.saved \in (Users \cup {None}) \X (AccessTokens \cup {None})
         /\ f.own \in BOOLEAN /\ f.crossed \in BOOLEAN
BY Zenon DEF Frames

LEMMA ToldIs ==
  ASSUME NEW g \in Frames, NEW crossed \in BOOLEAN
  PROVE  LET h == Told(g, crossed)
         IN  /\ h \in Frames
             /\ h.by = g.by /\ h.user = g.user /\ h.token = g.token
             /\ h.saved = g.saved /\ h.own = g.own
             /\ ~h.crossed => ~g.crossed /\ ~crossed
<1>1. g.crossed \in BOOLEAN
  BY FrameHas
<1> DEFINE x == g.crossed \/ crossed
<1>2. x \in BOOLEAN
  OBVIOUS
<1>3. Told(g, crossed) = [g EXCEPT !.crossed = x]
  BY Zenon DEF Told
<1> HIDE DEF x
<1>4. [g EXCEPT !.crossed = x] \in Frames
  BY <1>2 DEF Frames
<1>5. g \in [by : {"bridge", "test", "task"},
             user : Users \cup {None}, token : AccessTokens \cup {None},
             saved : (Users \cup {None}) \X (AccessTokens \cup {None}),
             own : BOOLEAN, crossed : BOOLEAN]
  BY Zenon DEF Frames
<1> DEFINE h == [g EXCEPT !.crossed = x]
<1>6. /\ h.by = g.by /\ h.user = g.user /\ h.token = g.token
      /\ h.saved = g.saved /\ h.own = g.own /\ h.crossed = x
  BY <1>5
<1> HIDE DEF h
<1>7. QED
  BY <1>3, <1>4, <1>6, Zenon DEF x, h

LEMMA AppendIs ==
  ASSUME NEW q \in Seq(Frames), NEW f \in Frames
  PROVE  LET p == Append(q, f)
         IN  /\ p \in Seq(Frames) /\ p # <<>>
             /\ Len(p) = Len(q) + 1 /\ Last(p) = f
             /\ \A n \in 1..Len(q) : p[n] = q[n]
BY AppendProperties DEF Last

LEMMA PushedOk ==
  ASSUME NEW q \in Seq(Frames), NEW f \in Frames,
         StackOk(q), FrameOk(f), q # <<>> => Follows(Last(q), f)
  PROVE  StackOk(Append(q, f))
<1> DEFINE p == Append(q, f)
           m == Len(q)
<1>1. /\ Len(p) = m + 1 /\ p[m + 1] = f
      /\ \A n \in 1..m : p[n] = q[n]
  BY AppendProperties
<1>2. m \in Nat /\ (q # <<>> <=> m >= 1)
  BY StackHas
<1> HIDE DEF p
<1>3. ASSUME NEW n \in 1..(m + 1)
      PROVE  FrameOk(p[n]) /\ (n > 1 => Follows(p[n - 1], p[n]))
  <2>1. CASE n = m + 1
    <3>1. FrameOk(p[n])
      BY <1>1, <2>1
    <3>2. ASSUME n > 1 PROVE Follows(p[n - 1], p[n])
      <4>1. m \in 1..m /\ n - 1 = m /\ q # <<>>
        BY <1>2, <2>1, <3>2
      <4>2. p[n - 1] = Last(q) /\ p[n] = f
        BY <1>1, <2>1, <4>1 DEF Last, m
      <4>3. QED
        BY <4>1, <4>2
    <3>3. QED
      BY <3>1, <3>2
  <2>2. CASE n # m + 1
    <3>1. n \in 1..m /\ (n > 1 => n - 1 \in 1..m)
      BY <1>2, <2>2
    <3>2. FrameOk(q[n]) /\ (n > 1 => Follows(q[n - 1], q[n]))
      BY <3>1 DEF StackOk, m
    <3>3. p[n] = q[n] /\ (n > 1 => p[n - 1] = q[n - 1])
      BY <1>1, <3>1
    <3>4. QED
      BY <3>2, <3>3
  <2>3. QED
    BY <2>1, <2>2
<1> HIDE DEF m
<1>4. QED
  BY <1>1, <1>3, Zenon DEF StackOk, p

LEMMA PoppedIs ==
  ASSUME NEW q \in Seq(Frames), q # <<>>, NEW crossed \in BOOLEAN
  PROVE  LET p == Popped(q, crossed)
             n == Len(q) - 1
         IN  /\ p \in Seq(Frames) /\ Len(p) = n /\ n \in Nat
             /\ n = 0 => p = <<>>
             /\ \A i \in 1..n : i # n => p[i] = q[i]
             /\ n # 0 => p[n] = Told(q[n], crossed) /\ Last(p) = p[n]
<1> DEFINE n == Len(q) - 1
           a == Front(q)
           p == Popped(q, crossed)
<1>1. /\ Len(q) \in Nat /\ n \in Nat
      /\ \A i \in 1..n : i \in 1..Len(q) /\ q[i] \in Frames
  BY StackHas
<1>2. /\ a \in Seq(Frames) /\ Len(a) = n
      /\ \A i \in 1..n : a[i] = q[i]
  <2>1. Len(q) - 1 \in Int /\ \A i \in 1..(Len(q) - 1) : q[i] \in Frames
    BY <1>1
  <2>2. 1 \in Int
    OBVIOUS
  <2> DEFINE b == SubSeq(q, 1, Len(q) - 1)
  <2>3. /\ b \in Seq(Frames)
        /\ Len(b) = IF 1 <= Len(q) - 1 THEN Len(q) - 1 - 1 + 1 ELSE 0
        /\ \A i \in 1..(Len(q) - 1 - 1 + 1) : b[i] = q[1 + i - 1]
    BY <2>1, <2>2, SubSeqProperties
  <2>4. a = b
    BY DEF Front
  <2> HIDE DEF b, a
  <2>5. Len(b) = n
    <3>1. Len(b) = IF 1 <= n THEN n - 1 + 1 ELSE 0
      BY <2>3
    <3> HIDE DEF n
    <3>2. QED
      BY <1>1, <3>1
  <2>6. \A i \in 1..n : b[i] = q[i]
    BY <1>1, <2>3
  <2>7. QED
    BY <2>3, <2>4, <2>5, <2>6
<1>3. p = IF a = <<>> THEN <<>>
          ELSE [a EXCEPT ![Len(a)] = Told(Last(a), crossed)]
  BY Zenon DEF Popped
<1> HIDE DEF n, a, p
<1>4. a = <<>> <=> n = 0
  BY <1>1, <1>2, EmptySeq
<1>5. CASE n = 0
  <2>1. p = <<>> /\ <<>> \in Seq(Frames) /\ Len(<<>>) = 0
    BY <1>3, <1>4, <1>5, EmptySeq
  <2>2. \A i \in 1..n : FALSE
    BY <1>5
  <2>3. p \in Seq(Frames) /\ Len(p) = n /\ n \in Nat /\ (n = 0 => p = <<>>)
    BY <1>1, <1>5, <2>1, Zenon
  <2>4. QED
    BY <1>5, <2>2, <2>3, Zenon DEF n, p
<1>6. CASE n # 0
  <2>1. n \in 1..n
    BY <1>1, <1>6
  <2> DEFINE h == Told(q[n], crossed)
  <2>2. h \in Frames
    BY <1>1, <2>1, ToldIs
  <2>3. Last(a) = q[n]
    BY <1>2, <2>1, Zenon DEF Last
  <2>4. p = [a EXCEPT ![n] = h]
    BY <1>2, <1>3, <1>4, <1>6, <2>3, Zenon
  <2> HIDE DEF h
  <2>5. /\ p \in Seq(Frames) /\ Len(p) = n
        /\ \A i \in 1..n : p[i] = IF i = n THEN h ELSE a[i]
    BY <1>2, <2>1, <2>2, <2>4, ExceptSeq
  <2>6. Last(p) = p[n]
    BY <2>5, Zenon DEF Last
  <2>7. p[n] = h /\ \A i \in 1..n : i # n => p[i] = q[i]
    BY <1>2, <2>1, <2>5
  <2>8. QED
    BY <1>1, <1>6, <2>5, <2>6, <2>7, Zenon DEF n, p, h
<1>7. QED
  BY <1>5, <1>6

LEMMA PoppedOk ==
  ASSUME NEW q \in Seq(Frames), q # <<>>, NEW crossed \in BOOLEAN, StackOk(q)
  PROVE  StackOk(Popped(q, crossed))
<1> DEFINE n == Len(q) - 1
           p == Popped(q, crossed)
<1>1. /\ p \in Seq(Frames) /\ Len(p) = n /\ n \in Nat
      /\ \A i \in 1..n : i # n => p[i] = q[i]
      /\ n # 0 => p[n] = Told(q[n], crossed)
  BY PoppedIs
<1>2. \A i \in 1..n : i \in 1..Len(q) /\ q[i] \in Frames
  BY StackHas
<1> HIDE DEF n, p
<1>3. ASSUME NEW i \in 1..n
      PROVE  /\ p[i].by = q[i].by /\ p[i].user = q[i].user
             /\ p[i].token = q[i].token /\ p[i].saved = q[i].saved
             /\ p[i].own = q[i].own
             /\ i # n => p[i] = q[i]
  <2>1. CASE i = n
    <3>1. p[i] = Told(q[i], crossed)
      BY <1>1, <2>1
    <3>2. QED
      BY <1>2, <2>1, <3>1, ToldIs
  <2>2. CASE i # n
    BY <1>1, <2>2
  <2>3. QED
    BY <2>1, <2>2
<1>4. ASSUME NEW i \in 1..n
      PROVE  FrameOk(p[i]) /\ (i > 1 => Follows(p[i - 1], p[i]))
  <2>1. FrameOk(q[i]) /\ (i > 1 => Follows(q[i - 1], q[i]))
    BY <1>2 DEF StackOk
  <2>2. FrameOk(p[i])
    BY <1>3, <2>1, Zenon DEF FrameOk
  <2>3. ASSUME i > 1 PROVE Follows(p[i - 1], p[i])
    <3>1. i - 1 \in 1..n /\ i - 1 # n
      BY <1>1, <2>3
    <3>2. p[i - 1] = q[i - 1]
      BY <1>3, <3>1
    <3>3. QED
      BY <1>3, <2>1, <2>3, <3>2, Zenon DEF Follows
  <2>4. QED
    BY <2>2, <2>3
<1>5. QED
  BY <1>1, <1>4, Zenon DEF StackOk, p

-----------------------------------------------------------------------------
(* Request contexts: fr, rv and wr are the frames, the references and the  *)
(* writers, so that the lemmas serve both states of a step.                *)

Owned(q) == q # <<>> /\ Last(q).own

(* Tasks that refer to one dict run for one user, if for a call of their   *)
(* own.                                                                    *)
SharedOk(fr, rv) ==
  \A t, o \in Tasks : rv[t] = rv[o] /\ rv[t] # None =>
    /\ Owned(fr[t]) => Owned(fr[o])
    /\ Owned(fr[t]) => Last(fr[t]).user = Last(fr[o]).user

ApartOk(fr, rv, wr) ==
  \A t \in Tasks : Owned(fr[t]) /\ rv[t] # None => wr[rv[t]] \subseteq {Last(fr[t]).user}

(* A dict that nobody refers to is gone.                                   *)
GoneOk(rv, wr) ==
  \A d \in Dicts : (\A t \in Tasks : rv[t] # d) => wr[d] = {}

(* What is left to run runs no test, and takes its dict along.             *)
LeftOk(fr, rv) ==
  \A t \in Tasks : t \in Spawned =>
    /\ \A n \in 1..Len(fr[t]) : fr[t][n].by # "test"
    /\ fr[t] = <<>> => rv[t] = None

ContextOk(fr, rv, wr) ==
  SharedOk(fr, rv) /\ ApartOk(fr, rv, wr) /\ GoneOk(rv, wr) /\ LeftOk(fr, rv)

(* One task t goes on, with no dict or with one that nobody else has.      *)
Alone(t, fr, rv, wr, fr2, rv2, wr2) ==
  /\ \A o \in Tasks : o # t => fr2[o] = fr[o] /\ rv2[o] = rv[o]
  /\ \A o \in Tasks : o # t /\ rv2[t] # None => rv[o] # rv2[t]
  /\ \A o \in Tasks : o # t /\ rv[o] # None => wr2[rv[o]] = wr[rv[o]]
  /\ Owned(fr2[t]) /\ rv2[t] # None => wr2[rv2[t]] \subseteq {Last(fr2[t]).user}
  /\ GoneOk(rv2, wr2)
  /\ t \in Spawned =>
       /\ \A n \in 1..Len(fr2[t]) : fr2[t][n].by # "test"
       /\ fr2[t] = <<>> => rv2[t] = None

LEMMA AloneOk ==
  ASSUME NEW fr, NEW rv, NEW wr, NEW fr2, NEW rv2, NEW wr2, NEW t \in Tasks,
         ContextOk(fr, rv, wr), Alone(t, fr, rv, wr, fr2, rv2, wr2)
  PROVE  ContextOk(fr2, rv2, wr2)
<1> USE DEF Alone
<1>1. SharedOk(fr2, rv2)
  <2>1. ASSUME NEW a \in Tasks, NEW b \in Tasks, rv2[a] = rv2[b], rv2[a] # None
        PROVE  /\ Owned(fr2[a]) => Owned(fr2[b])
               /\ Owned(fr2[a]) => Last(fr2[a]).user = Last(fr2[b]).user
    <3>1. CASE a = b
      BY <3>1
    <3>2. CASE a # b
      <4>1. a # t /\ b # t
        BY <2>1, <3>2
      <4>2. fr2[a] = fr[a] /\ rv2[a] = rv[a] /\ fr2[b] = fr[b] /\ rv2[b] = rv[b]
        BY <4>1
      <4>3. rv[a] = rv[b] /\ rv[a] # None
        BY <2>1, <4>2
      <4>4. /\ Owned(fr[a]) => Owned(fr[b])
            /\ Owned(fr[a]) => Last(fr[a]).user = Last(fr[b]).user
        BY <4>3, Zenon DEF ContextOk, SharedOk
      <4>5. QED
        BY <4>2, <4>4, Zenon
    <3>3. QED
      BY <3>1, <3>2
  <2>2. QED
    BY <2>1, Zenon DEF SharedOk
<1>2. ApartOk(fr2, rv2, wr2)
  <2>1. ASSUME NEW o \in Tasks, Owned(fr2[o]), rv2[o] # None
        PROVE  wr2[rv2[o]] \subseteq {Last(fr2[o]).user}
    <3>1. CASE o = t
      BY <2>1, <3>1
    <3>2. CASE o # t
      <4>1. fr2[o] = fr[o] /\ rv2[o] = rv[o]
        BY <3>2
      <4>2. wr[rv[o]] \subseteq {Last(fr[o]).user}
        BY <2>1, <4>1, Zenon DEF ContextOk, ApartOk
      <4>3. wr2[rv[o]] = wr[rv[o]]
        BY <2>1, <3>2, <4>1
      <4>4. QED
        BY <4>1, <4>2, <4>3, Zenon
    <3>3. QED
      BY <3>1, <3>2
  <2>2. QED
    BY <2>1, Zenon DEF ApartOk
<1>3. LeftOk(fr2, rv2)
  <2>1. ASSUME NEW o \in Tasks, o \in Spawned
        PROVE  /\ \A n \in 1..Len(fr2[o]) : fr2[o][n].by # "test"
               /\ fr2[o] = <<>> => rv2[o] = None
    <3>1. CASE o = t
      BY <2>1, <3>1, Zenon
    <3>2. CASE o # t
      <4>1. fr2[o] = fr[o] /\ rv2[o] = rv[o]
        BY <3>2
      <4>2. /\ \A n \in 1..Len(fr[o]) : fr[o][n].by # "test"
            /\ fr[o] = <<>> => rv[o] = None
        BY <2>1, Zenon DEF ContextOk, LeftOk
      <4>3. QED
        BY <4>1, <4>2, Zenon
    <3>3. QED
      BY <3>1, <3>2
  <2>2. QED
    BY <2>1, Zenon DEF LeftOk
<1>4. QED
  BY <1>1, <1>2, <1>3, Zenon DEF ContextOk

(* A test begins or ends: neither it nor what it is in has a dict of its   *)
(* own.                                                                    *)
LEMMA TestOk ==
  ASSUME NEW fr, NEW rv, NEW wr, NEW fr2, NEW t \in Tasks,
         ContextOk(fr, rv, wr), t \notin Spawned,
         \A o \in Tasks : o # t => fr2[o] = fr[o],
         ~Owned(fr[t]), ~Owned(fr2[t])
  PROVE  ContextOk(fr2, rv, wr)
<1>1. SharedOk(fr2, rv)
  <2>1. ASSUME NEW a \in Tasks, NEW b \in Tasks, rv[a] = rv[b], rv[a] # None
        PROVE  /\ Owned(fr2[a]) => Owned(fr2[b])
               /\ Owned(fr2[a]) => Last(fr2[a]).user = Last(fr2[b]).user
    <3>1. /\ Owned(fr[a]) => Owned(fr[b])
          /\ Owned(fr[a]) => Last(fr[a]).user = Last(fr[b]).user
      BY <2>1, Zenon DEF ContextOk, SharedOk
    <3>2. CASE a = t
      BY <3>2, Zenon
    <3>3. CASE a # t
      <4>1. fr2[a] = fr[a]
        BY <3>3
      <4>2. ASSUME b = t PROVE ~Owned(fr[a])
        BY <3>1, <4>2, Zenon
      <4>3. CASE b = t
        BY <4>1, <4>2, <4>3, Zenon
      <4>4. CASE b # t
        <5>1. fr2[b] = fr[b]
          BY <4>4
        <5>2. QED
          BY <3>1, <4>1, <5>1, Zenon
      <4>5. QED
        BY <4>3, <4>4, Zenon
    <3>4. QED
      BY <3>2, <3>3, Zenon
  <2>2. QED
    BY <2>1, Zenon DEF SharedOk
<1>2. ApartOk(fr2, rv, wr)
  <2>1. ASSUME NEW o \in Tasks, Owned(fr2[o]), rv[o] # None
        PROVE  wr[rv[o]] \subseteq {Last(fr2[o]).user}
    <3>1. o # t
      BY <2>1
    <3>2. fr2[o] = fr[o]
      BY <3>1
    <3>3. wr[rv[o]] \subseteq {Last(fr[o]).user}
      BY <2>1, <3>2, Zenon DEF ContextOk, ApartOk
    <3>4. QED
      BY <3>2, <3>3, Zenon
  <2>2. QED
    BY <2>1, Zenon DEF ApartOk
<1>3. LeftOk(fr2, rv)
  <2>1. ASSUME NEW o \in Tasks, o \in Spawned PROVE fr2[o] = fr[o]
    BY <2>1
  <2>2. QED
    BY <2>1, Zenon DEF ContextOk, LeftOk
<1>4. QED
  BY <1>1, <1>2, <1>3, Zenon DEF ContextOk

(* What t runs for now writes a key of the dict that t has.                *)
LEMMA WrittenOk ==
  ASSUME NEW fr, NEW rv, NEW wr, NEW wr2, NEW t \in Tasks,
         ContextOk(fr, rv, wr), rv[t] # None, fr[t] # <<>>,
         \A d \in Dicts : d # rv[t] => wr2[d] = wr[d],
         wr2[rv[t]] \subseteq wr[rv[t]] \cup {Last(fr[t]).user},
         rv \in [Tasks -> Dicts \cup {None}]
  PROVE  ContextOk(fr, rv, wr2)
<1>1. ApartOk(fr, rv, wr2)
  <2>1. ASSUME NEW o \in Tasks, Owned(fr[o]), rv[o] # None
        PROVE  wr2[rv[o]] \subseteq {Last(fr[o]).user}
    <3>1. wr[rv[o]] \subseteq {Last(fr[o]).user} /\ rv[o] \in Dicts
      BY <2>1, Zenon DEF ContextOk, ApartOk
    <3>2. CASE rv[o] = rv[t]
      <4>1. Last(fr[o]).user = Last(fr[t]).user
        BY <2>1, <3>2, Zenon DEF ContextOk, SharedOk
      <4>2. QED
        BY <3>1, <3>2, <4>1
    <3>3. CASE rv[o] # rv[t]
      BY <3>1, <3>3
    <3>4. QED
      BY <3>2, <3>3
  <2>2. QED
    BY <2>1, Zenon DEF ApartOk
<1>2. GoneOk(rv, wr2)
  <2>1. ASSUME NEW d \in Dicts, \A o \in Tasks : rv[o] # d
        PROVE  wr2[d] = {}
    <3>1. wr[d] = {}
      BY <2>1, Zenon DEF ContextOk, GoneOk
    <3>2. QED
      BY <2>1, <3>1
  <2>2. QED
    BY <2>1, Zenon DEF GoneOk
<1>3. QED
  BY <1>1, <1>2, Zenon DEF ContextOk

(* t leaves something to run in b, which takes a reference to its dict.    *)
LeavesIn(t, b, fr, rv, fr2, rv2) ==
  /\ \A o \in Tasks : o # b => fr2[o] = fr[o] /\ rv2[o] = rv[o]
  /\ b # t /\ b \in Spawned /\ fr[b] = <<>> /\ fr[t] # <<>> /\ fr2[b] # <<>>
  /\ Owned(fr2[b]) <=> Owned(fr[t])
  /\ Last(fr2[b]).user = Last(fr[t]).user
  /\ \A n \in 1..Len(fr2[b]) : fr2[b][n].by # "test"
  /\ rv2[b] = rv[t]

LEMMA SpawnedOk ==
  ASSUME NEW fr, NEW rv, NEW wr, NEW fr2, NEW rv2,
         NEW t \in Tasks, NEW b \in Tasks,
         ContextOk(fr, rv, wr), LeavesIn(t, b, fr, rv, fr2, rv2)
  PROVE  ContextOk(fr2, rv2, wr)
<1> USE DEF LeavesIn
<1> DEFINE src(o) == IF o = b THEN t ELSE o
<1>1. ASSUME NEW o \in Tasks
      PROVE  /\ src(o) \in Tasks /\ rv2[o] = rv[src(o)]
             /\ Owned(fr2[o]) <=> Owned(fr[src(o)])
             /\ Owned(fr2[o]) => Last(fr2[o]).user = Last(fr[src(o)]).user
  <2>1. CASE o = b
    BY <2>1, Zenon
  <2>2. CASE o # b
    <3>1. fr2[o] = fr[o] /\ rv2[o] = rv[o] /\ src(o) = o
      BY <2>2
    <3>2. QED
      BY <3>1, Zenon
  <2>3. QED
    BY <2>1, <2>2
<1> HIDE DEF src
<1>2. SharedOk(fr2, rv2)
  <2>1. ASSUME NEW a \in Tasks, NEW c \in Tasks, rv2[a] = rv2[c], rv2[a] # None
        PROVE  /\ Owned(fr2[a]) => Owned(fr2[c])
               /\ Owned(fr2[a]) => Last(fr2[a]).user = Last(fr2[c]).user
    <3>1. src(a) \in Tasks /\ src(c) \in Tasks /\ rv[src(a)] = rv[src(c)] /\ rv[src(a)] # None
      BY <1>1, <2>1, Zenon
    <3>2. /\ Owned(fr[src(a)]) => Owned(fr[src(c)])
          /\ Owned(fr[src(a)]) => Last(fr[src(a)]).user = Last(fr[src(c)]).user
      BY <3>1, Zenon DEF ContextOk, SharedOk
    <3>3. QED
      BY <1>1, <3>2, Zenon
  <2>2. QED
    BY <2>1, Zenon DEF SharedOk
<1>3. ApartOk(fr2, rv2, wr)
  <2>1. ASSUME NEW o \in Tasks, Owned(fr2[o]), rv2[o] # None
        PROVE  wr[rv2[o]] \subseteq {Last(fr2[o]).user}
    <3>1. /\ src(o) \in Tasks /\ rv2[o] = rv[src(o)] /\ Owned(fr[src(o)])
          /\ Last(fr2[o]).user = Last(fr[src(o)]).user
      BY <1>1, <2>1, Zenon
    <3>2. wr[rv[src(o)]] \subseteq {Last(fr[src(o)]).user}
      BY <2>1, <3>1, Zenon DEF ContextOk, ApartOk
    <3>3. QED
      BY <3>1, <3>2, Zenon
  <2>2. QED
    BY <2>1, Zenon DEF ApartOk
<1>4. rv[b] = None
  BY Zenon DEF ContextOk, LeftOk
<1>5. GoneOk(rv2, wr)
  <2>1. ASSUME NEW d \in Dicts, \A o \in Tasks : rv2[o] # d
        PROVE  wr[d] = {}
    <3>1. \A o \in Tasks : rv[o] # d
      BY <1>4, <2>1, DistinctAssumption
    <3>2. QED
      BY <3>1, Zenon DEF ContextOk, GoneOk
  <2>2. QED
    BY <2>1, Zenon DEF GoneOk
<1>6. LeftOk(fr2, rv2)
  <2>1. ASSUME NEW o \in Tasks, o \in Spawned
        PROVE  /\ \A n \in 1..Len(fr2[o]) : fr2[o][n].by # "test"
               /\ fr2[o] = <<>> => rv2[o] = None
    <3>1. CASE o = b
      BY <3>1, Zenon
    <3>2. CASE o # b
      <4>1. fr2[o] = fr[o] /\ rv2[o] = rv[o]
        BY <3>2
      <4>2. QED
        BY <2>1, <4>1, Zenon DEF ContextOk, LeftOk
    <3>3. QED
      BY <3>1, <3>2
  <2>2. QED
    BY <2>1, Zenon DEF LeftOk
<1>7. QED
  BY <1>2, <1>3, <1>5, <1>6, Zenon DEF ContextOk

-----------------------------------------------------------------------------
(* What a step of RequestScope keeps.                                      *)

ScopeTypes ==
  /\ identityVar \in [Tasks -> Users \cup {None}]
  /\ tokenVar \in [Tasks -> AccessTokens \cup {None}]
  /\ requestVar \in [Tasks -> Dicts \cup {None}]
  /\ wrote \in [Dicts -> SUBSET (Users \cup {None})]
  /\ frames \in [Tasks -> Seq(Frames)]
  /\ \A t \in Tasks : Len(frames[t]) <= Depth[t]

(* The variables of a task with the calls q have what belongs to the       *)
(* innermost call.                                                         *)
TaskOk(q, u, k) ==
  /\ StackOk(q) /\ Paired(u, k)
  /\ q # <<>> /\ ~Last(q).crossed => u = Last(q).user /\ k = Last(q).token

OwnInv == \A t \in Tasks : TaskOk(frames[t], identityVar[t], tokenVar[t])

ScopeInv == ScopeTypes /\ OwnInv /\ ContextOk(frames, requestVar, wrote)

LEMMA TaskHas ==
  ASSUME ScopeTypes, NEW t \in Tasks
  PROVE  /\ frames[t] \in Seq(Frames) /\ Len(frames[t]) <= Depth[t]
         /\ identityVar[t] \in Users \cup {None}
         /\ tokenVar[t] \in AccessTokens \cup {None}
         /\ requestVar[t] \in Dicts \cup {None}
BY Zenon DEF ScopeTypes

LEMMA TopHas ==
  ASSUME ScopeTypes, NEW t \in Tasks, Busy(t)
  PROVE  /\ Top(t) \in Frames /\ Top(t) = frames[t][Len(frames[t])]
         /\ Len(frames[t]) \in 1..Len(frames[t])
<1>1. frames[t] \in Seq(Frames) /\ frames[t] # <<>>
  BY TaskHas DEF Busy
<1>2. Len(frames[t]) \in 1..Len(frames[t])
  BY <1>1, StackHas
<1>3. frames[t][Len(frames[t])] \in Frames
  BY <1>1, <1>2, StackHas
<1>4. QED
  BY <1>2, <1>3 DEF Top, Last

LEMMA TaskMoves ==
  ASSUME ScopeTypes, OwnInv, NEW t \in Tasks,
         NEW q \in Seq(Frames), Len(q) <= Depth[t],
         NEW u \in Users \cup {None}, NEW k \in AccessTokens \cup {None},
         TaskOk(q, u, k),
         frames' = [frames EXCEPT ![t] = q],
         identityVar' = [identityVar EXCEPT ![t] = u],
         tokenVar' = [tokenVar EXCEPT ![t] = k],
         requestVar' \in [Tasks -> Dicts \cup {None}],
         wrote' \in [Dicts -> SUBSET (Users \cup {None})]
  PROVE  ScopeTypes' /\ OwnInv'
<1>1. /\ frames' \in [Tasks -> Seq(Frames)]
      /\ identityVar' \in [Tasks -> Users \cup {None}]
      /\ tokenVar' \in [Tasks -> AccessTokens \cup {None}]
  BY Zenon DEF ScopeTypes
<1>2. ASSUME NEW o \in Tasks
      PROVE  /\ o = t => frames'[o] = q /\ identityVar'[o] = u /\ tokenVar'[o] = k
             /\ o # t => /\ frames'[o] = frames[o]
                         /\ identityVar'[o] = identityVar[o]
                         /\ tokenVar'[o] = tokenVar[o]
  BY Zenon DEF ScopeTypes
<1>3. \A o \in Tasks : Len(frames'[o]) <= Depth[o]
  BY <1>2, Zenon DEF ScopeTypes
<1>4. \A o \in Tasks : TaskOk(frames'[o], identityVar'[o], tokenVar'[o])
  BY <1>2, Zenon DEF OwnInv
<1>5. ScopeTypes'
  BY <1>1, <1>3, Zenon DEF ScopeTypes
<1>6. OwnInv'
  BY <1>4, Zenon DEF OwnInv, TaskOk, StackOk, FrameOk, Follows, Paired
<1>7. QED
  BY <1>5, <1>6

LEMMA SameAt ==
  ASSUME NEW f, NEW S, f \in [Tasks -> S], NEW t \in Tasks
  PROVE  f = [f EXCEPT ![t] = f[t]]
OBVIOUS

LEMMA FreeDict ==
  ASSUME ScopeTypes, NEW t \in Tasks
  PROVE  /\ NewDict(t) \in Dicts
         /\ \A o \in Tasks : o # t => requestVar[o] # NewDict(t)
<1>1. \E d \in Dicts : \A o \in Tasks \ {t} : requestVar[o] # d
  <2> SUFFICES ASSUME \A d \in Dicts : \E o \in Tasks \ {t} : requestVar[o] = d
               PROVE  FALSE
    OBVIOUS
  <2> DEFINE T == Tasks \ {t}
             f == [d \in Dicts |-> CHOOSE o \in T : requestVar[o] = d]
  <2>1. \A d \in Dicts : f[d] \in T /\ requestVar[f[d]] = d
    BY Zenon
  <2>2. f \in [Dicts -> T]
    BY <2>1, Zenon
  <2>3. /\ IsFiniteSet(Dicts) /\ IsFiniteSet(Tasks)
        /\ Cardinality(Dicts) >= Cardinality(Tasks)
    BY DictsAssumption
  <2>4. IsFiniteSet(T) /\ Cardinality(T) = Cardinality(Tasks) - 1
    BY <2>3, FS_RemoveElement
  <2>5. Cardinality(Tasks) \in Nat /\ Cardinality(Dicts) \in Nat
    BY <2>3, FS_CardinalityType
  <2>6. Cardinality(T) < Cardinality(Dicts)
    BY <2>3, <2>4, <2>5
  <2> HIDE DEF f, T
  <2>7. \E x, y \in Dicts : x # y /\ f[x] = f[y]
    BY <2>2, <2>3, <2>4, <2>6, FS_PigeonHole
  <2>8. QED
    BY <2>1, <2>7, Zenon
<1>2. NewDict(t) \in Dicts /\ \A o \in Tasks \ {t} : requestVar[o] # NewDict(t)
  BY <1>1, Zenon DEF NewDict
<1>3. QED
  BY <1>2

LEMMA KeptIs ==
  ASSUME NEW wr, NEW rv, NEW d \in Dicts
  PROVE  /\ (\E o \in Tasks : rv[o] = d) => Kept(wr, rv)[d] = wr[d]
         /\ (\A o \in Tasks : rv[o] # d) => Kept(wr, rv)[d] = {}
BY DEF Kept

LEMMA KeptHas ==
  ASSUME NEW wr \in [Dicts -> SUBSET (Users \cup {None})], NEW rv
  PROVE  Kept(wr, rv) \in [Dicts -> SUBSET (Users \cup {None})]
BY DEF Kept

(* A task gets a new dict, and gives up the one that it had.               *)
LEMMA InitContextIs ==
  ASSUME ScopeTypes, NEW t \in Tasks, InitRequestContext(t)
  PROVE  /\ requestVar' \in [Tasks -> Dicts \cup {None}]
         /\ wrote' \in [Dicts -> SUBSET (Users \cup {None})]
         /\ requestVar'[t] = NewDict(t) /\ wrote'[NewDict(t)] = {}
         /\ \A o \in Tasks : o # t => requestVar'[o] = requestVar[o]
         /\ \A o \in Tasks : o # t /\ requestVar[o] # None =>
              wrote'[requestVar[o]] = wrote[requestVar[o]]
         /\ GoneOk(requestVar', wrote')
<1> DEFINE d == NewDict(t)
           rv == requestVar'
           w == Kept(wrote, rv)
<1>1. d \in Dicts /\ \A o \in Tasks : o # t => requestVar[o] # d
  BY FreeDict
<1>2. rv = [requestVar EXCEPT ![t] = d] /\ wrote' = [w EXCEPT ![d] = {}]
  BY Zenon DEF InitRequestContext
<1>3. w \in [Dicts -> SUBSET (Users \cup {None})]
  BY KeptHas, Zenon DEF ScopeTypes
<1> HIDE DEF d
<1>4. /\ rv \in [Tasks -> Dicts \cup {None}] /\ rv[t] = d
      /\ \A o \in Tasks : o # t => rv[o] = requestVar[o]
  BY <1>1, <1>2, Zenon DEF ScopeTypes
<1>5. \A e \in Dicts : e # d => wrote'[e] = w[e]
  BY <1>1, <1>2, <1>3, Zenon
<1>6. wrote'[d] = {}
  BY <1>1, <1>2, <1>3, Zenon
<1>7. wrote' \in [Dicts -> SUBSET (Users \cup {None})]
  BY <1>2, <1>3
<1> HIDE DEF rv
<1>8. ASSUME NEW o \in Tasks, o # t, requestVar[o] # None
      PROVE  wrote'[requestVar[o]] = wrote[requestVar[o]]
  <2>1. requestVar[o] \in Dicts /\ requestVar[o] # d /\ rv[o] = requestVar[o]
    BY <1>1, <1>4, <1>8, TaskHas
  <2>2. w[requestVar[o]] = wrote[requestVar[o]]
    BY <2>1, KeptIs
  <2>3. QED
    BY <1>5, <2>1, <2>2
<1>9. ASSUME NEW e \in Dicts, \A o \in Tasks : rv[o] # e
      PROVE  wrote'[e] = {}
  <2>1. e # d /\ w[e] = {}
    BY <1>4, <1>9, KeptIs
  <2>2. QED
    BY <1>5, <2>1
<1>10. GoneOk(rv, wrote')
  BY <1>9, Zenon DEF GoneOk
<1>11. QED
  BY <1>4, <1>6, <1>7, <1>8, <1>10, Zenon DEF d, rv

(* A task gives up the dict that it had.                                   *)
LEMMA ClearContextIs ==
  ASSUME ScopeTypes, NEW t \in Tasks, ClearRequestContext(t)
  PROVE  /\ requestVar' \in [Tasks -> Dicts \cup {None}]
         /\ wrote' \in [Dicts -> SUBSET (Users \cup {None})]
         /\ requestVar'[t] = None
         /\ \A o \in Tasks : o # t => requestVar'[o] = requestVar[o]
         /\ \A o \in Tasks : o # t /\ requestVar[o] # None =>
              wrote'[requestVar[o]] = wrote[requestVar[o]]
         /\ GoneOk(requestVar', wrote')
<1> DEFINE rv == requestVar'
<1>1. rv = [requestVar EXCEPT ![t] = None] /\ wrote' = Kept(wrote, rv)
  BY Zenon DEF ClearRequestContext, Refer
<1>2. /\ rv \in [Tasks -> Dicts \cup {None}] /\ rv[t] = None
      /\ \A o \in Tasks : o # t => rv[o] = requestVar[o]
  BY <1>1, Zenon DEF ScopeTypes
<1>3. wrote' \in [Dicts -> SUBSET (Users \cup {None})]
  BY <1>1, KeptHas, Zenon DEF ScopeTypes
<1> HIDE DEF rv
<1>4. ASSUME NEW o \in Tasks, o # t, requestVar[o] # None
      PROVE  wrote'[requestVar[o]] = wrote[requestVar[o]]
  <2>1. requestVar[o] \in Dicts /\ rv[o] = requestVar[o]
    BY <1>2, <1>4, TaskHas
  <2>2. Kept(wrote, rv)[requestVar[o]] = wrote[requestVar[o]]
    BY <2>1, KeptIs
  <2>3. QED
    BY <1>1, <2>2
<1>5. ASSUME NEW e \in Dicts, \A o \in Tasks : rv[o] # e
      PROVE  wrote'[e] = {}
  BY <1>1, <1>5, KeptIs
<1>6. GoneOk(rv, wrote')
  BY <1>5, Zenon DEF GoneOk
<1>7. QED
  BY <1>2, <1>3, <1>4, <1>6, Zenon DEF rv

-----------------------------------------------------------------------------
(* The steps of RequestScope.                                              *)

LEMMA PushIs ==
  ASSUME ScopeTypes, NEW t \in Tasks, NEW f \in Frames, Push(t, f)
  PROVE  LET q == Append(frames[t], f)
         IN  /\ frames' = [frames EXCEPT ![t] = q]
             /\ q \in Seq(Frames) /\ Len(q) <= Depth[t] /\ q # <<>> /\ Last(q) = f
             /\ StackOk(frames[t]) /\ FrameOk(f)
                  /\ (Busy(t) => Follows(Top(t), f)) => StackOk(q)
<1>1. frames[t] \in Seq(Frames)
  BY TaskHas
<1> DEFINE q == Append(frames[t], f)
<1>2. /\ q \in Seq(Frames) /\ q # <<>>
      /\ Len(q) = Len(frames[t]) + 1 /\ Last(q) = f
  BY <1>1, AppendIs
<1>3. Len(q) <= Depth[t]
  <2>1. Len(frames[t]) \in Nat /\ Len(frames[t]) < Depth[t] /\ Depth[t] \in Nat
    BY <1>1, StackHas, DepthAssumption DEF Push
  <2> HIDE DEF q
  <2>2. QED
    BY <1>2, <2>1
<1>4. ASSUME StackOk(frames[t]), FrameOk(f), Busy(t) => Follows(Top(t), f)
      PROVE  StackOk(q)
  <2>1. frames[t] # <<>> => Follows(Last(frames[t]), f)
    BY <1>4 DEF Busy, Top
  <2>2. QED
    BY <1>1, <1>4, <2>1, PushedOk
<1>5. frames' = [frames EXCEPT ![t] = q]
  BY Zenon DEF Push
<1> HIDE DEF q
<1>6. QED
  BY <1>2, <1>3, <1>4, <1>5, Zenon DEF q

LEMMA PopIs ==
  ASSUME ScopeTypes, NEW t \in Tasks, Busy(t), NEW crossed, Pop(t, crossed)
  PROVE  frames' = [frames EXCEPT ![t] = Popped(frames[t], crossed)]
BY Zenon DEF Pop, Popped, Told

LEMMA CallIs ==
  ASSUME ScopeInv, NEW t \in Tasks, t \notin Spawned,
         NEW u \in Users \cup {None}, NEW k \in AccessTokens \cup {None},
         Push(t, [by |-> "bridge", user |-> u, token |-> k,
                  saved |-> <<None, None>>, own |-> TRUE, crossed |-> FALSE]),
         InitRequestContext(t), Paired(u, k),
         k = TestToken /\ Busy(t) /\ ~Top(t).crossed => u = Top(t).user,
         identityVar' = [identityVar EXCEPT ![t] = u],
         tokenVar' = [tokenVar EXCEPT ![t] = k]
  PROVE  ScopeInv'
<1> DEFINE f == [by |-> "bridge", user |-> u, token |-> k,
                 saved |-> <<None, None>>, own |-> TRUE, crossed |-> FALSE]
           q == Append(frames[t], f)
<1>1. ScopeTypes /\ OwnInv /\ ContextOk(frames, requestVar, wrote)
  BY Zenon DEF ScopeInv
<1>2. f \in Frames
  BY DEF Frames
<1>3. /\ f.by = "bridge" /\ f.user = u /\ f.token = k
      /\ f.saved = <<None, None>> /\ f.own /\ ~f.crossed
  OBVIOUS
<1>4. Push(t, f)
  BY Zenon
<1> HIDE DEF f
<1>5. FrameOk(f)
  <2>1. Paired(f.saved[1], f.saved[2])
    BY <1>3, DistinctAssumption DEF Paired
  <2>2. QED
    BY <1>3, <2>1 DEF FrameOk
<1>6. Busy(t) => Follows(Top(t), f)
  BY <1>3 DEF Follows
<1>7. /\ frames' = [frames EXCEPT ![t] = q]
      /\ q \in Seq(Frames) /\ Len(q) <= Depth[t] /\ q # <<>> /\ Last(q) = f
      /\ StackOk(frames[t]) /\ FrameOk(f)
           /\ (Busy(t) => Follows(Top(t), f)) => StackOk(q)
  BY <1>1, <1>2, <1>4, PushIs
<1> HIDE DEF q
<1>8. TaskOk(q, u, k)
  <2>1. StackOk(frames[t])
    BY <1>1, Zenon DEF OwnInv, TaskOk
  <2>2. QED
    BY <1>3, <1>5, <1>6, <1>7, <2>1, Zenon DEF TaskOk
<1>9. /\ requestVar' \in [Tasks -> Dicts \cup {None}]
      /\ wrote' \in [Dicts -> SUBSET (Users \cup {None})]
      /\ requestVar'[t] = NewDict(t) /\ wrote'[NewDict(t)] = {}
      /\ \A o \in Tasks : o # t => requestVar'[o] = requestVar[o]
      /\ \A o \in Tasks : o # t /\ requestVar[o] # None =>
           wrote'[requestVar[o]] = wrote[requestVar[o]]
      /\ GoneOk(requestVar', wrote')
  BY <1>1, InitContextIs, Zenon
<1>10. ScopeTypes' /\ OwnInv'
  BY <1>1, <1>7, <1>8, <1>9, TaskMoves
<1>11. ContextOk(frames', requestVar', wrote')
  <2>1. \A o \in Tasks : o # t => frames'[o] = frames[o] /\ requestVar'[o] = requestVar[o]
    BY <1>1, <1>7, <1>9, Zenon DEF ScopeTypes
  <2>2. \A o \in Tasks : o # t => requestVar[o] # requestVar'[t]
    BY <1>1, <1>9, FreeDict
  <2>3. wrote'[requestVar'[t]] = {}
    BY <1>9
  <2>4. wrote'[requestVar'[t]] \subseteq {Last(frames'[t]).user}
    BY <2>3
  <2>5. Alone(t, frames, requestVar, wrote, frames', requestVar', wrote')
    BY <1>9, <2>1, <2>2, <2>4, Zenon DEF Alone
  <2>6. QED
    BY <1>1, <2>5, AloneOk
<1>12. QED
  BY <1>10, <1>11, Zenon DEF ScopeInv, ContextOk, SharedOk, ApartOk, GoneOk, LeftOk, Owned

(* Everything that ScopeInv speaks of, so that a step's conclusion can be  *)
(* put together.                                                           *)
LEMMA ScopeNext ==
  ASSUME ScopeTypes', OwnInv', ContextOk(frames', requestVar', wrote')
  PROVE  ScopeInv'
BY Zenon DEF ScopeInv, ContextOk, SharedOk, ApartOk, GoneOk, LeftOk, Owned

LEMMA ScopeHas ==
  ASSUME ScopeInv
  PROVE  /\ ScopeTypes /\ OwnInv /\ ContextOk(frames, requestVar, wrote)
         /\ \A t \in Tasks : TaskOk(frames[t], identityVar[t], tokenVar[t])
BY Zenon DEF ScopeInv, OwnInv

(* The innermost call of a busy task.                                      *)
LEMMA TopOk ==
  ASSUME ScopeInv, NEW t \in Tasks, Busy(t)
  PROVE  /\ Top(t) \in Frames /\ FrameOk(Top(t)) /\ StackOk(frames[t])
         /\ Top(t) = frames[t][Len(frames[t])] /\ Top(t) = Last(frames[t])
         /\ Len(frames[t]) \in 1..Len(frames[t])
         /\ ~Top(t).crossed => identityVar[t] = Top(t).user /\ tokenVar[t] = Top(t).token
<1>1. ScopeTypes /\ TaskOk(frames[t], identityVar[t], tokenVar[t])
  BY ScopeHas
<1>2. /\ Top(t) \in Frames /\ Top(t) = frames[t][Len(frames[t])]
      /\ Len(frames[t]) \in 1..Len(frames[t])
  BY <1>1, TopHas
<1>3. Top(t) = Last(frames[t])
  BY Zenon DEF Top
<1>4. FrameOk(Top(t)) /\ StackOk(frames[t])
  BY <1>1, <1>2, Zenon DEF TaskOk, StackOk
<1>5. ~Top(t).crossed => identityVar[t] = Top(t).user /\ tokenVar[t] = Top(t).token
  BY <1>1, <1>3, Zenon DEF TaskOk, Busy
<1>6. QED
  BY <1>2, <1>3, <1>4, <1>5

LEMMA OwnStays ==
  ASSUME OwnInv, UNCHANGED <<identityVar, tokenVar, frames>>
  PROVE  OwnInv'
<1>1. \A t \in Tasks : TaskOk(frames'[t], identityVar'[t], tokenVar'[t])
  BY Zenon DEF OwnInv
<1>2. QED
  BY <1>1, Zenon DEF OwnInv, TaskOk, StackOk, FrameOk, Follows, Paired

LEMMA CallStep ==
  ASSUME ScopeInv, NEW t \in Tasks, t \notin Spawned,
         NEW u \in Users, Call(t, u)
  PROVE  ScopeInv'
<1>1. u \in Users \cup {None} /\ u \in AccessTokens \cup {None} /\ u # TestToken
  BY DistinctAssumption DEF AccessTokens
<1>2. Paired(u, u)
  BY <1>1 DEF Paired
<1>3. /\ Push(t, [by |-> "bridge", user |-> u, token |-> u,
                  saved |-> <<None, None>>, own |-> TRUE, crossed |-> FALSE])
      /\ InitRequestContext(t)
      /\ identityVar' = [identityVar EXCEPT ![t] = u]
      /\ tokenVar' = [tokenVar EXCEPT ![t] = u]
  BY Zenon DEF Call, SetIdentity
<1>4. QED
  BY <1>1, <1>2, <1>3, CallIs

LEMMA CallPlainStep ==
  ASSUME ScopeInv, NEW t \in Tasks, t \notin Spawned, CallPlain(t)
  PROVE  ScopeInv'
<1> DEFINE u == identityVar[t]
           k == tokenVar[t]
<1>1. ScopeTypes /\ TaskOk(frames[t], identityVar[t], tokenVar[t])
  BY ScopeHas
<1>2. u \in Users \cup {None} /\ k \in AccessTokens \cup {None}
  BY <1>1, TaskHas
<1>3. Paired(u, k)
  BY <1>1, Zenon DEF TaskOk
<1>4. k = TestToken /\ Busy(t) /\ ~Top(t).crossed => u = Top(t).user
  BY TopOk
<1>5. /\ Push(t, [by |-> "bridge", user |-> u, token |-> k,
                  saved |-> <<None, None>>, own |-> TRUE, crossed |-> FALSE])
      /\ InitRequestContext(t)
      /\ identityVar' = identityVar
      /\ tokenVar' = tokenVar
  BY Zenon DEF CallPlain
<1>6. /\ identityVar' = [identityVar EXCEPT ![t] = u]
      /\ tokenVar' = [tokenVar EXCEPT ![t] = k]
  BY <1>1, <1>5, SameAt DEF ScopeTypes
<1> HIDE DEF u, k
<1>7. QED
  BY <1>2, <1>3, <1>4, <1>5, <1>6, CallIs

LEMMA CallRefusedStep ==
  ASSUME ScopeInv, NEW t \in Tasks, t \notin Spawned, CallRefused(t)
  PROVE  ScopeInv'
<1>1. ScopeTypes /\ OwnInv /\ ContextOk(frames, requestVar, wrote)
  BY ScopeHas
<1>2. ClearRequestContext(t) /\ UNCHANGED <<identityVar, tokenVar, frames>>
  BY Zenon DEF CallRefused
<1>3. /\ requestVar' \in [Tasks -> Dicts \cup {None}]
      /\ wrote' \in [Dicts -> SUBSET (Users \cup {None})]
      /\ requestVar'[t] = None
      /\ \A o \in Tasks : o # t => requestVar'[o] = requestVar[o]
      /\ \A o \in Tasks : o # t /\ requestVar[o] # None =>
           wrote'[requestVar[o]] = wrote[requestVar[o]]
      /\ GoneOk(requestVar', wrote')
  BY <1>1, <1>2, ClearContextIs, Zenon
<1>4. ScopeTypes'
  BY <1>1, <1>2, <1>3, Zenon DEF ScopeTypes
<1>5. OwnInv'
  BY <1>1, <1>2, OwnStays
<1>6. Alone(t, frames, requestVar, wrote, frames', requestVar', wrote')
  BY <1>2, <1>3, Zenon DEF Alone
<1>7. ContextOk(frames', requestVar', wrote')
  BY <1>1, <1>6, AloneOk
<1>8. QED
  BY <1>4, <1>5, <1>7, ScopeNext

LEMMA TestStep ==
  ASSUME ScopeInv, NEW t \in Tasks, t \notin Spawned, NEW u \in Users, Test(t, u)
  PROVE  ScopeInv'
<1> DEFINE f == [by |-> "test", user |-> u, token |-> TestToken,
                 saved |-> <<identityVar[t], tokenVar[t]>>,
                 own |-> FALSE, crossed |-> FALSE]
           q == Append(frames[t], f)
<1>1. /\ ScopeTypes /\ OwnInv /\ ContextOk(frames, requestVar, wrote)
      /\ TaskOk(frames[t], identityVar[t], tokenVar[t])
  BY ScopeHas
<1>2. u # None /\ u \in Users \cup {None} /\ TestToken \in AccessTokens \cup {None}
  BY DistinctAssumption DEF AccessTokens
<1>3. <<identityVar[t], tokenVar[t]>> \in (Users \cup {None}) \X (AccessTokens \cup {None})
  BY <1>1, TaskHas
<1>4. f \in Frames
  BY <1>2, <1>3 DEF Frames
<1>5. /\ f.by = "test" /\ f.user = u /\ f.token = TestToken
      /\ f.saved = <<identityVar[t], tokenVar[t]>> /\ ~f.own /\ ~f.crossed
  OBVIOUS
<1>6. Push(t, f) /\ (Busy(t) => Top(t).by = "test")
  BY Zenon DEF Test
<1>7. /\ identityVar' = [identityVar EXCEPT ![t] = u]
      /\ tokenVar' = [tokenVar EXCEPT ![t] = TestToken]
      /\ requestVar' = requestVar /\ wrote' = wrote
  BY Zenon DEF Test
<1> HIDE DEF f
<1>8. Paired(identityVar[t], tokenVar[t]) /\ Paired(u, TestToken)
  BY <1>1, <1>2, Zenon DEF TaskOk, Paired
<1>9. FrameOk(f)
  <2>1. f.saved[1] = identityVar[t] /\ f.saved[2] = tokenVar[t]
    BY <1>5
  <2>2. QED
    BY <1>5, <1>8, <2>1, Zenon DEF FrameOk
<1>10. ASSUME Busy(t) PROVE Follows(Top(t), f)
  <2>1. ~Top(t).crossed => f.saved = <<Top(t).user, Top(t).token>>
    BY <1>5, <1>10, TopOk
  <2>2. QED
    BY <1>5, <1>6, <1>10, <2>1, Zenon DEF Follows
<1>11. /\ frames' = [frames EXCEPT ![t] = q]
       /\ q \in Seq(Frames) /\ Len(q) <= Depth[t] /\ q # <<>> /\ Last(q) = f
       /\ StackOk(frames[t]) /\ FrameOk(f)
            /\ (Busy(t) => Follows(Top(t), f)) => StackOk(q)
  BY <1>1, <1>4, <1>6, PushIs
<1> HIDE DEF q
<1>12. TaskOk(q, u, TestToken)
  <2>1. StackOk(frames[t])
    BY <1>1, Zenon DEF TaskOk
  <2>2. QED
    BY <1>5, <1>8, <1>9, <1>10, <1>11, <2>1, Zenon DEF TaskOk
<1>13. ScopeTypes' /\ OwnInv'
  <2>1. /\ requestVar' \in [Tasks -> Dicts \cup {None}]
        /\ wrote' \in [Dicts -> SUBSET (Users \cup {None})]
    BY <1>1, <1>7, Zenon DEF ScopeTypes
  <2>2. QED
    BY <1>1, <1>2, <1>7, <1>11, <1>12, <2>1, TaskMoves
<1>14. ContextOk(frames', requestVar', wrote')
  <2>1. /\ frames'[t] = q /\ \A o \in Tasks : o # t => frames'[o] = frames[o]
    BY <1>1, <1>11, Zenon DEF ScopeTypes
  <2>2. ~Owned(frames'[t])
    BY <1>5, <1>11, <2>1, Zenon DEF Owned
  <2>3. ~Owned(frames[t])
    BY <1>6, TopOk, Zenon DEF Owned, Busy, FrameOk
  <2>4. ContextOk(frames', requestVar, wrote)
    BY <1>1, <2>1, <2>2, <2>3, TestOk
  <2>5. QED
    BY <1>7, <2>4
<1>15. QED
  BY <1>13, <1>14, ScopeNext

(* What is left of a task's calls when the innermost one is over.          *)
LEMMA PopHas ==
  ASSUME ScopeInv, NEW t \in Tasks, Busy(t), NEW crossed \in BOOLEAN, Pop(t, crossed)
  PROVE  LET q == Popped(frames[t], crossed)
             n == Len(frames[t]) - 1
         IN  /\ frames' = [frames EXCEPT ![t] = q]
             /\ q \in Seq(Frames) /\ Len(q) <= Depth[t] /\ StackOk(q)
             /\ n \in Nat /\ (n = 0 <=> q = <<>>) /\ (n = 0 <=> Len(frames[t]) = 1)
             /\ \A i \in 1..Len(q) : i \in 1..Len(frames[t]) /\ q[i].by = frames[t][i].by
             /\ n # 0 =>
                  LET g == frames[t][n]
                  IN  /\ g \in Frames /\ FrameOk(g) /\ Follows(g, Top(t))
                      /\ Last(q).user = g.user /\ Last(q).token = g.token
                      /\ Last(q).own = g.own
                      /\ ~Last(q).crossed => ~g.crossed /\ ~crossed
<1> DEFINE s == frames[t]
           q == Popped(s, crossed)
           n == Len(s) - 1
           g == s[n]
<1>1. ScopeTypes /\ s \in Seq(Frames) /\ s # <<>> /\ Len(s) <= Depth[t] /\ StackOk(s)
  BY ScopeHas, TaskHas, TopOk DEF Busy
<1>2. frames' = [frames EXCEPT ![t] = q]
  BY <1>1, PopIs
<1>3. /\ q \in Seq(Frames) /\ Len(q) = n /\ n \in Nat
      /\ n = 0 => q = <<>>
      /\ \A i \in 1..n : i # n => q[i] = s[i]
      /\ n # 0 => q[n] = Told(s[n], crossed) /\ Last(q) = q[n]
  BY <1>1, PoppedIs
<1>4. StackOk(q)
  BY <1>1, PoppedOk
<1>5. /\ Len(s) \in Nat /\ Depth[t] \in Nat
      /\ \A i \in 1..Len(s) : s[i] \in Frames
  BY <1>1, StackHas, DepthAssumption
<1>6. Top(t) = s[Len(s)]
  BY TopOk
<1> HIDE DEF q, s
<1>7. Len(q) <= Depth[t] /\ (n = 0 <=> Len(s) = 1)
  BY <1>1, <1>3, <1>5
<1>8. n = 0 <=> q = <<>>
  BY <1>3, EmptySeq
<1>9. \A i \in 1..n : i \in 1..Len(s)
  BY <1>5
<1>10. ASSUME NEW i \in 1..Len(q) PROVE i \in 1..Len(s) /\ q[i].by = s[i].by
  <2>1. i \in 1..n /\ i \in 1..Len(s)
    BY <1>3, <1>9
  <2>2. CASE i # n
    BY <1>3, <2>1, <2>2
  <2>3. CASE i = n
    <3>1. n # 0 /\ s[i] \in Frames
      BY <1>5, <2>1, <2>3
    <3>2. q[i] = Told(s[i], crossed)
      BY <1>3, <2>3, <3>1
    <3>3. QED
      BY <2>1, <3>1, <3>2, ToldIs
  <2>4. QED
    BY <2>2, <2>3
<1>11. ASSUME n # 0
       PROVE  /\ g \in Frames /\ FrameOk(g) /\ Follows(g, Top(t))
              /\ Last(q).user = g.user /\ Last(q).token = g.token
              /\ Last(q).own = g.own
              /\ ~Last(q).crossed => ~g.crossed /\ ~crossed
  <2>1. n \in 1..Len(s) /\ Len(s) \in 1..Len(s) /\ Len(s) > 1
    BY <1>3, <1>5, <1>11
  <2>2. g \in Frames /\ FrameOk(g)
    BY <1>1, <1>5, <2>1 DEF StackOk
  <2>3. Follows(g, Top(t))
    BY <1>1, <1>6, <2>1 DEF StackOk
  <2>4. Last(q) = Told(g, crossed)
    BY <1>3, <1>11
  <2> HIDE DEF g
  <2>5. QED
    BY <2>2, <2>3, <2>4, ToldIs
<1> HIDE DEF n
<1>12. QED
  BY <1>2, <1>3, <1>4, <1>7, <1>8, <1>10, <1>11, Zenon DEF q, s, n

LEMMA TestReturnsStep ==
  ASSUME ScopeInv, NEW t \in Tasks, TestReturns(t)
  PROVE  ScopeInv'
<1> DEFINE q == Popped(frames[t], FALSE)
           n == Len(frames[t]) - 1
           g == frames[t][n]
           u == Top(t).saved[1]
           k == Top(t).saved[2]
<1>1. Busy(t) /\ Top(t).by = "test" /\ Pop(t, FALSE)
  BY Zenon DEF TestReturns
<1>2. /\ identityVar' = [identityVar EXCEPT ![t] = u]
      /\ tokenVar' = [tokenVar EXCEPT ![t] = k]
      /\ requestVar' = requestVar /\ wrote' = wrote
  BY Zenon DEF TestReturns
<1>3. /\ frames' = [frames EXCEPT ![t] = q]
      /\ q \in Seq(Frames) /\ Len(q) <= Depth[t] /\ StackOk(q)
      /\ n = 0 <=> q = <<>>
      /\ n # 0 =>
           /\ Follows(g, Top(t))
           /\ Last(q).user = g.user /\ Last(q).token = g.token /\ Last(q).own = g.own
           /\ ~Last(q).crossed => ~g.crossed
           /\ FrameOk(g)
  BY <1>1, PopHas
<1>4. /\ ScopeTypes /\ OwnInv /\ ContextOk(frames, requestVar, wrote)
      /\ Top(t) \in Frames /\ FrameOk(Top(t)) /\ Top(t) = frames[t][Len(frames[t])]
      /\ Len(frames[t]) \in 1..Len(frames[t]) /\ Top(t) = Last(frames[t])
  BY <1>1, ScopeHas, TopOk
<1>5. Top(t).saved \in (Users \cup {None}) \X (AccessTokens \cup {None})
  BY <1>4, FrameHas
<1>6. u \in Users \cup {None} /\ k \in AccessTokens \cup {None}
  BY <1>5
<1>7. Paired(u, k) /\ ~Top(t).own
  BY <1>1, <1>4, Zenon DEF FrameOk
<1>8. ASSUME q # <<>>, ~Last(q).crossed PROVE u = Last(q).user /\ k = Last(q).token
  <2>1. Top(t).saved = <<g.user, g.token>>
    BY <1>1, <1>3, <1>8, Zenon DEF Follows
  <2>2. u = g.user /\ k = g.token
    BY <2>1
  <2>3. QED
    BY <1>3, <1>8, <2>2, Zenon
<1> HIDE DEF u, k, q, g, n
<1>9. TaskOk(q, u, k)
  BY <1>3, <1>7, <1>8, Zenon DEF TaskOk
<1>10. ScopeTypes' /\ OwnInv'
  <2>1. /\ requestVar' \in [Tasks -> Dicts \cup {None}]
        /\ wrote' \in [Dicts -> SUBSET (Users \cup {None})]
    BY <1>2, <1>4, Zenon DEF ScopeTypes
  <2>2. QED
    BY <1>2, <1>3, <1>4, <1>6, <1>9, <2>1, TaskMoves
<1>11. ContextOk(frames', requestVar', wrote')
  <2>1. /\ frames'[t] = q /\ \A o \in Tasks : o # t => frames'[o] = frames[o]
    BY <1>3, <1>4, Zenon DEF ScopeTypes
  <2>2. ~Owned(q)
    BY <1>1, <1>3, <1>7, Zenon DEF Owned, Follows, FrameOk
  <2>3. ~Owned(frames[t])
    BY <1>4, <1>7, Zenon DEF Owned
  <2>4. t \notin Spawned
    BY <1>1, <1>4, Zenon DEF ContextOk, LeftOk
  <2>5. ContextOk(frames', requestVar, wrote)
    BY <1>4, <2>1, <2>2, <2>3, <2>4, TestOk
  <2>6. QED
    BY <1>2, <2>5
<1>12. QED
  BY <1>10, <1>11, ScopeNext

LEMMA ReturnStep ==
  ASSUME ScopeInv, NEW t \in Tasks, Return(t)
  PROVE  ScopeInv'
<1> DEFINE n == Len(frames[t]) - 1
           g == frames[t][n]
           c == Top(t).crossed \/ Top(t).token # frames[t][Len(frames[t]) - 1].token
           q == Popped(frames[t], c)
           u == identityVar'[t]
           k == tokenVar'[t]
<1>1. Busy(t) /\ Top(t).by # "test" /\ Pop(t, c) /\ ClearRequestContext(t) /\ Leave(t)
  BY Zenon DEF Return
<1>2. c \in BOOLEAN
  OBVIOUS
<1>3. c <=> Top(t).crossed \/ Top(t).token # g.token
  OBVIOUS
<1> HIDE DEF c
<1>4. /\ frames' = [frames EXCEPT ![t] = q]
      /\ q \in Seq(Frames) /\ Len(q) <= Depth[t] /\ StackOk(q)
      /\ n = 0 <=> q = <<>>
      /\ n = 0 <=> Len(frames[t]) = 1
      /\ \A i \in 1..Len(q) : i \in 1..Len(frames[t]) /\ q[i].by = frames[t][i].by
      /\ n # 0 =>
           /\ Follows(g, Top(t)) /\ FrameOk(g)
           /\ Last(q).user = g.user /\ Last(q).token = g.token
           /\ ~Last(q).crossed => ~g.crossed /\ ~c
  BY <1>1, <1>2, PopHas
<1>5. /\ ScopeTypes /\ OwnInv /\ ContextOk(frames, requestVar, wrote)
      /\ Top(t) \in Frames /\ FrameOk(Top(t))
      /\ ~Top(t).crossed => identityVar[t] = Top(t).user /\ tokenVar[t] = Top(t).token
      /\ TaskOk(frames[t], identityVar[t], tokenVar[t])
  BY <1>1, ScopeHas, TopOk
<1>6. /\ requestVar' \in [Tasks -> Dicts \cup {None}]
      /\ wrote' \in [Dicts -> SUBSET (Users \cup {None})]
      /\ requestVar'[t] = None
      /\ \A o \in Tasks : o # t => requestVar'[o] = requestVar[o]
      /\ \A o \in Tasks : o # t /\ requestVar[o] # None =>
           wrote'[requestVar[o]] = wrote[requestVar[o]]
      /\ GoneOk(requestVar', wrote')
  BY <1>1, <1>5, ClearContextIs, Zenon
<1> HIDE DEF n, g, q
<1>7. \E v \in Users \cup {None}, l \in AccessTokens \cup {None} :
        /\ identityVar' = [identityVar EXCEPT ![t] = v]
        /\ tokenVar' = [tokenVar EXCEPT ![t] = l]
        /\ TaskOk(q, v, l)
  <2>1. CASE n = 0
    <3>1. /\ identityVar' = [identityVar EXCEPT ![t] = None]
          /\ tokenVar' = [tokenVar EXCEPT ![t] = None]
      BY <1>1, <1>4, <2>1, Zenon DEF Leave
    <3>2. Paired(None, None)
      BY DistinctAssumption DEF Paired
    <3>3. TaskOk(q, None, None)
      BY <1>4, <2>1, <3>2, Zenon DEF TaskOk
    <3>4. QED
      BY <3>1, <3>3, Zenon
  <2>2. CASE n # 0
    <3>1. identityVar' = identityVar /\ tokenVar' = tokenVar
      BY <1>1, <1>4, <2>2, Zenon DEF Leave
    <3>2. /\ identityVar' = [identityVar EXCEPT ![t] = identityVar[t]]
          /\ tokenVar' = [tokenVar EXCEPT ![t] = tokenVar[t]]
      BY <1>5, <3>1, SameAt DEF ScopeTypes
    <3>3. /\ identityVar[t] \in Users \cup {None}
          /\ tokenVar[t] \in AccessTokens \cup {None}
      BY <1>5, TaskHas
    <3>4. ASSUME ~Last(q).crossed
          PROVE  identityVar[t] = Last(q).user /\ tokenVar[t] = Last(q).token
      <4>1. ~g.crossed /\ ~Top(t).crossed /\ Top(t).token = g.token
        BY <1>3, <1>4, <2>2, <3>4, Zenon
      <4>2. identityVar[t] = Top(t).user /\ tokenVar[t] = Top(t).token
        BY <1>5, <4>1
      <4>3. CASE g.token = TestToken
        <5>1. Top(t).user = g.user
          BY <1>1, <1>4, <2>2, <4>1, <4>3, Zenon DEF Follows
        <5>2. QED
          BY <1>4, <2>2, <4>1, <4>2, <5>1, Zenon
      <4>4. CASE g.token # TestToken
        <5>1. g.user = g.token
          BY <1>4, <2>2, <4>4, Zenon DEF FrameOk, Paired
        <5>2. Top(t).user = Top(t).token
          BY <1>5, <4>1, <4>4, Zenon DEF FrameOk, Paired
        <5>3. QED
          BY <1>4, <2>2, <4>1, <4>2, <5>1, <5>2, Zenon
      <4>5. QED
        BY <4>3, <4>4
    <3>5. TaskOk(q, identityVar[t], tokenVar[t])
      BY <1>4, <1>5, <3>4, Zenon DEF TaskOk
    <3>6. QED
      BY <3>2, <3>3, <3>5, Zenon
  <2>3. QED
    BY <2>1, <2>2
<1>8. ScopeTypes' /\ OwnInv'
  <2>1. PICK v \in Users \cup {None}, l \in AccessTokens \cup {None} :
          /\ identityVar' = [identityVar EXCEPT ![t] = v]
          /\ tokenVar' = [tokenVar EXCEPT ![t] = l]
          /\ TaskOk(q, v, l)
    BY <1>7
  <2>2. QED
    BY <1>4, <1>5, <1>6, <2>1, TaskMoves
<1>9. ContextOk(frames', requestVar', wrote')
  <2>1. /\ frames'[t] = q /\ \A o \in Tasks : o # t => frames'[o] = frames[o]
    BY <1>4, <1>5, Zenon DEF ScopeTypes
  <2>2. t \in Spawned => \A i \in 1..Len(q) : q[i].by # "test"
    <3>1. t \in Spawned => \A i \in 1..Len(frames[t]) : frames[t][i].by # "test"
      BY <1>5, Zenon DEF ContextOk, LeftOk
    <3>2. QED
      BY <1>4, <3>1
  <2>3. Alone(t, frames, requestVar, wrote, frames', requestVar', wrote')
    BY <1>6, <2>1, <2>2, Zenon DEF Alone
  <2>4. QED
    BY <1>5, <2>3, AloneOk
<1>10. QED
  BY <1>8, <1>9, ScopeNext

LEMMA SetContextStep ==
  ASSUME ScopeInv, NEW t \in Tasks, SetContext(t)
  PROVE  ScopeInv'
<1> DEFINE d == IF requestVar[t] # None THEN requestVar[t] ELSE NewDict(t)
           u == Top(t).user
<1>1. /\ Busy(t) /\ UNCHANGED <<identityVar, tokenVar, frames>>
      /\ requestVar' = [requestVar EXCEPT ![t] = d]
      /\ wrote' = [wrote EXCEPT ![d] = wrote[d] \cup {u}]
  BY Zenon DEF SetContext
<1>2. /\ ScopeTypes /\ OwnInv /\ ContextOk(frames, requestVar, wrote)
      /\ Top(t) \in Frames /\ Top(t) = Last(frames[t]) /\ frames[t] # <<>>
  BY <1>1, ScopeHas, TopOk DEF Busy
<1>3. u \in Users \cup {None}
  BY <1>2, FrameHas
<1>4. /\ NewDict(t) \in Dicts /\ None \notin Dicts
      /\ \A o \in Tasks : o # t => requestVar[o] # NewDict(t)
  BY <1>2, FreeDict, DistinctAssumption
<1>5. d \in Dicts
  BY <1>2, <1>4, TaskHas
<1> HIDE DEF u
<1>6. /\ requestVar' \in [Tasks -> Dicts \cup {None}] /\ requestVar'[t] = d
      /\ \A o \in Tasks : o # t => requestVar'[o] = requestVar[o]
  <2> HIDE DEF d
  <2>1. QED
    BY <1>1, <1>2, <1>5, Zenon DEF ScopeTypes
<1>7. /\ wrote' \in [Dicts -> SUBSET (Users \cup {None})]
      /\ wrote'[d] = wrote[d] \cup {u}
      /\ \A e \in Dicts : e # d => wrote'[e] = wrote[e]
  <2> HIDE DEF d
  <2>1. wrote \in [Dicts -> SUBSET (Users \cup {None})]
    BY <1>2, Zenon DEF ScopeTypes
  <2>2. wrote[d] \cup {u} \in SUBSET (Users \cup {None})
    BY <1>3, <1>5, <2>1
  <2>3. QED
    BY <1>1, <1>5, <2>1, <2>2, Zenon
<1>8. ScopeTypes'
  BY <1>1, <1>2, <1>6, <1>7, Zenon DEF ScopeTypes
<1>9. OwnInv'
  BY <1>1, <1>2, OwnStays
<1>10. ContextOk(frames', requestVar', wrote')
  <2>1. CASE requestVar[t] # None
    <3>1. d = requestVar[t]
      BY <2>1
    <3>2. requestVar' = requestVar
      BY <1>1, <1>2, <3>1, SameAt DEF ScopeTypes
    <3>3. wrote'[requestVar[t]] \subseteq wrote[requestVar[t]] \cup {Last(frames[t]).user}
      BY <1>2, <1>7, <3>1 DEF u
    <3>4. requestVar \in [Tasks -> Dicts \cup {None}]
      BY <1>2, Zenon DEF ScopeTypes
    <3> HIDE DEF d
    <3>5. ContextOk(frames, requestVar, wrote')
      BY <1>2, <1>7, <2>1, <3>1, <3>3, <3>4, WrittenOk
    <3>6. QED
      BY <1>1, <3>2, <3>5
  <2>2. CASE requestVar[t] = None
    <3>1. d = NewDict(t)
      BY <2>2
    <3> HIDE DEF d
    <3>2. \A o \in Tasks : requestVar[o] # d
      BY <1>4, <1>5, <2>2, <3>1
    <3>3. wrote[d] = {}
      BY <1>2, <1>5, <3>2, Zenon DEF ContextOk, GoneOk
    <3>4. wrote'[requestVar'[t]] \subseteq {Last(frames'[t]).user}
      BY <1>1, <1>2, <1>6, <1>7, <3>3 DEF u
    <3>5. \A o \in Tasks : o # t /\ requestVar[o] # None =>
            wrote'[requestVar[o]] = wrote[requestVar[o]]
      BY <1>2, <1>7, <3>2, TaskHas
    <3>6. GoneOk(requestVar', wrote')
      <4>1. ASSUME NEW e \in Dicts, \A o \in Tasks : requestVar'[o] # e
            PROVE  wrote'[e] = {}
        <5>1. e # d
          BY <1>6, <4>1
        <5>2. \A o \in Tasks : requestVar[o] # e
          BY <1>4, <1>6, <2>2, <4>1
        <5>3. wrote[e] = {}
          BY <1>2, <5>2, Zenon DEF ContextOk, GoneOk
        <5>4. QED
          BY <1>7, <5>1, <5>3
      <4>2. QED
        BY <4>1, Zenon DEF GoneOk
    <3>7. t \in Spawned => \A n \in 1..Len(frames[t]) : frames[t][n].by # "test"
      BY <1>2, Zenon DEF ContextOk, LeftOk
    <3>8. Alone(t, frames, requestVar, wrote, frames', requestVar', wrote')
      BY <1>1, <1>2, <1>6, <3>2, <3>4, <3>5, <3>6, <3>7, Zenon DEF Alone
    <3>9. QED
      BY <1>2, <3>8, AloneOk
  <2>3. QED
    BY <2>1, <2>2
<1>11. QED
  BY <1>8, <1>9, <1>10, ScopeNext

LEMMA SpawnStep ==
  ASSUME ScopeInv, NEW t \in Tasks, NEW b \in Tasks \ {t}, Spawn(t, b)
  PROVE  ScopeInv'
<1> DEFINE f == [Top(t) EXCEPT !.by = "task", !.saved = <<None, None>>]
           q == Append(frames[b], f)
           u == identityVar[t]
           k == tokenVar[t]
<1>1. /\ Busy(t) /\ b \in Spawned /\ ~Busy(b) /\ Push(b, f)
      /\ identityVar' = [identityVar EXCEPT ![b] = u]
      /\ tokenVar' = [tokenVar EXCEPT ![b] = k]
      /\ requestVar' = [requestVar EXCEPT ![b] = requestVar[t]]
      /\ wrote' = wrote
  BY Zenon DEF Spawn
<1>2. /\ ScopeTypes /\ OwnInv /\ ContextOk(frames, requestVar, wrote)
      /\ Top(t) \in Frames /\ FrameOk(Top(t)) /\ Top(t) = Last(frames[t])
      /\ ~Top(t).crossed => u = Top(t).user /\ k = Top(t).token
      /\ TaskOk(frames[t], u, k)
      /\ u \in Users \cup {None} /\ k \in AccessTokens \cup {None}
      /\ requestVar[t] \in Dicts \cup {None}
  BY <1>1, ScopeHas, TopOk, TaskHas
<1>3. /\ f.by = "task" /\ f.user = Top(t).user /\ f.token = Top(t).token
      /\ f.saved = <<None, None>> /\ f.own = Top(t).own /\ f.crossed = Top(t).crossed
      /\ f \in Frames
  BY <1>2 DEF Frames
<1>4. frames[b] = <<>> /\ frames[t] # <<>> /\ b # t /\ b \in Tasks
  BY <1>1 DEF Busy
<1> HIDE DEF f
<1>5. FrameOk(f)
  <2>1. Paired(f.saved[1], f.saved[2])
    BY <1>3, DistinctAssumption DEF Paired
  <2>2. QED
    BY <1>2, <1>3, <2>1, Zenon DEF FrameOk
<1>6. /\ frames' = [frames EXCEPT ![b] = q]
      /\ q \in Seq(Frames) /\ Len(q) <= Depth[b] /\ q # <<>> /\ Last(q) = f
      /\ StackOk(frames[b]) /\ FrameOk(f)
           /\ (Busy(b) => Follows(Top(b), f)) => StackOk(q)
  BY <1>1, <1>2, <1>3, PushIs
<1>7. \A n \in 1..Len(q) : q[n].by # "test"
  <2>1. q = <<f>> /\ Len(<<f>>) = 1 /\ <<f>>[1] = f
    BY <1>4
  <2> HIDE DEF q
  <2>2. QED
    BY <1>3, <2>1
<1> HIDE DEF q, u, k
<1>8. TaskOk(q, u, k)
  <2>1. StackOk(frames[b]) /\ Paired(u, k)
    BY <1>2, Zenon DEF OwnInv, TaskOk
  <2>2. QED
    BY <1>1, <1>2, <1>3, <1>5, <1>6, <2>1, Zenon DEF TaskOk
<1>9. requestVar' \in [Tasks -> Dicts \cup {None}]
  BY <1>1, <1>2, Zenon DEF ScopeTypes
<1>10. ScopeTypes' /\ OwnInv'
  <2>1. wrote' \in [Dicts -> SUBSET (Users \cup {None})]
    BY <1>1, <1>2, Zenon DEF ScopeTypes
  <2>2. QED
    BY <1>1, <1>2, <1>4, <1>6, <1>8, <1>9, <2>1, TaskMoves
<1>11. ContextOk(frames', requestVar', wrote')
  <2>1. /\ frames'[b] = q /\ requestVar'[b] = requestVar[t]
        /\ \A o \in Tasks : o # b => frames'[o] = frames[o] /\ requestVar'[o] = requestVar[o]
    BY <1>1, <1>2, <1>4, <1>6, Zenon DEF ScopeTypes
  <2>2. Owned(q) <=> Owned(frames[t])
    BY <1>2, <1>3, <1>4, <1>6, Zenon DEF Owned
  <2>3. Last(q).user = Last(frames[t]).user
    BY <1>2, <1>3, <1>6, Zenon
  <2>4. ContextOk(frames', requestVar', wrote)
    <3>1. /\ b \in Spawned /\ frames[b] = <<>> /\ frames[t] # <<>> /\ frames'[b] # <<>>
          /\ b # t /\ b \in Tasks
      BY <1>1, <1>4, <1>6, <2>1, Zenon
    <3>2. /\ Owned(frames'[b]) <=> Owned(frames[t])
          /\ Last(frames'[b]).user = Last(frames[t]).user
      BY <2>1, <2>2, <2>3, Zenon
    <3>3. \A n \in 1..Len(frames'[b]) : frames'[b][n].by # "test"
      BY <1>7, <2>1, Zenon
    <3>4. ContextOk(frames, requestVar, wrote)
      BY <1>2
    <3>5. LeavesIn(t, b, frames, requestVar, frames', requestVar')
      BY <2>1, <3>1, <3>2, <3>3, Zenon DEF LeavesIn
    <3>6. QED
      BY <3>1, <3>4, <3>5, SpawnedOk
  <2>5. wrote' = wrote
    BY <1>1
  <2>6. QED
    BY <2>4, <2>5, Zenon
<1>12. QED
  BY <1>10, <1>11, ScopeNext

LEMMA ScopeStarts == ScopeInit => ScopeInv
<1> SUFFICES ASSUME ScopeInit PROVE ScopeInv
  OBVIOUS
<1> USE DEF ScopeInit
<1>1. <<>> \in Seq(Frames) /\ Len(<<>>) = 0 /\ \A t \in Tasks : Depth[t] \in Nat
  BY DepthAssumption, EmptySeq
<1>2. ScopeTypes
  BY <1>1 DEF ScopeTypes
<1>3. ASSUME NEW t \in Tasks
      PROVE  frames[t] = <<>> /\ identityVar[t] = None /\ tokenVar[t] = None /\ requestVar[t] = None
  OBVIOUS
<1>4. StackOk(<<>>)
  BY <1>1 DEF StackOk
<1>5. OwnInv
  BY <1>3, <1>4, DistinctAssumption DEF OwnInv, TaskOk, Paired
<1>6. /\ SharedOk(frames, requestVar) /\ ApartOk(frames, requestVar, wrote)
      /\ GoneOk(requestVar, wrote)
  BY <1>3 DEF SharedOk, ApartOk, GoneOk
<1>7. LeftOk(frames, requestVar)
  BY <1>1, <1>3 DEF LeftOk
<1>8. QED
  BY <1>2, <1>5, <1>6, <1>7, Zenon DEF ScopeInv, ContextOk

LEMMA ScopeStays ==
  ASSUME ScopeInv, UNCHANGED scopeVars
  PROVE  ScopeInv'
<1>1. UNCHANGED <<identityVar, tokenVar, requestVar, wrote, frames>>
  BY Zenon DEF scopeVars, contextVars
<1>2. ScopeTypes' /\ OwnInv'
  BY <1>1, ScopeHas, OwnStays, Zenon DEF ScopeTypes
<1>3. ContextOk(frames', requestVar', wrote')
  BY <1>1, ScopeHas, Zenon
<1>4. QED
  BY <1>2, <1>3, ScopeNext

-----------------------------------------------------------------------------
(* Whatever Downstream does, its calls do one of these.                    *)
LEMMA ScopeInvariant == Spec => []ScopeInv
<1>1. Init => ScopeInv
  BY ScopeStarts DEF Init
<1>2. ScopeInv /\ [Next]_vars => ScopeInv'
  <2> SUFFICES ASSUME ScopeInv, [Next]_vars PROVE ScopeInv'
    OBVIOUS
  <2>1. CASE UNCHANGED scopeVars
    BY <2>1, ScopeStays
  <2>2. ASSUME NEW t \in Tasks, Begin(t) PROVE ScopeInv'
    BY <2>2, CallStep, TestStep, CallPlainStep, CallRefusedStep DEF Begin
  <2>3. ASSUME NEW t \in Tasks, End(t) \/ Propagate(t) PROVE ScopeInv'
    BY <2>3, ReturnStep, TestReturnsStep, SetContextStep DEF End, Propagate
  <2>4. ASSUME NEW t \in Tasks, Detach(t) PROVE ScopeInv'
    BY <2>4, SpawnStep DEF Detach
  <2>5. ASSUME NEW t \in Tasks,
               MakeClient(t) \/ Ask(t) \/ Exchanged(t) \/ ExchangeFails(t)
        PROVE  UNCHANGED scopeVars
    BY <2>5, Zenon DEF MakeClient, Ask, Exchanged, ExchangeFails
  <2>6. Manage \/ Tick \/ UNCHANGED vars => UNCHANGED scopeVars
    BY Zenon DEF Manage, Tick, vars
  <2>7. QED
    BY <2>1, <2>2, <2>3, <2>4, <2>5, <2>6, Zenon DEF Next
<1>3. QED
  BY <1>1, <1>2, PTL DEF Spec

(* However calls nest, spawn tasks and return, what identity() and         *)
(* access_token() answer (identity.py) is the user and the token of the    *)
(* innermost call, unless a call nested in it has authenticated another    *)
(* user: _populate_identity of authentication.py sets both and nobody      *)
(* takes them back, FastAuthMCPTestClient.call_tool puts both back.        *)
THEOREM ContextIsTheCalls == Spec => []OwnUser
<1>1. ScopeInv => OwnUser
  BY TopOk, Zenon DEF OwnUser
<1>2. QED
  BY <1>1, ScopeInvariant, PTL

(* A call that the bridge of server.py has given its request context       *)
(* (init_request_context) finds in it what itself has set, or nothing, for *)
(* a dict is shared only with what the call has left to run for its user.  *)
THEOREM ContextsStayApart == Spec => []ContextApart
<1>1. ScopeInv => ContextApart
  <2> SUFFICES ASSUME ScopeInv, NEW t \in Tasks,
                      Busy(t), Top(t).own, requestVar[t] # None
               PROVE  wrote[requestVar[t]] \subseteq {Top(t).user}
    BY Zenon DEF ContextApart
  <2>1. Owned(frames[t]) /\ Top(t) = Last(frames[t])
    BY Zenon DEF Owned, Busy, Top
  <2>2. QED
    BY <2>1, ScopeHas, Zenon DEF ContextOk, ApartOk
<1>2. QED
  BY <1>1, ScopeInvariant, PTL

-----------------------------------------------------------------------------
(* The cache.                                                              *)

(* An entry is a token that was got with what its key says.                *)
Fitting(k) ==
  {x \in Delegated : /\ x.of = k[1] /\ x.scopes = Effective(k[3])
                     /\ x.audience \in {k[2], Unnamed}}

EntryOk(k, e) == e \in [token : Fitting(k), left : Int]

CacheOk(c) ==
  /\ DOMAIN c \subseteq CacheKeys
  /\ IsFiniteSet(DOMAIN c) /\ Cardinality(DOMAIN c) <= MaxSize
  /\ \A k \in DOMAIN c : EntryOk(k, c[k])

LEMMA LessIsOk ==
  ASSUME NEW c, CacheOk(c), NEW D \in SUBSET (DOMAIN c),
         NEW e, DOMAIN e = D, \A k \in D : EntryOk(k, e[k])
  PROVE  CacheOk(e)
<1>1. IsFiniteSet(DOMAIN c) /\ Cardinality(DOMAIN c) <= MaxSize /\ DOMAIN c \subseteq CacheKeys
  BY Zenon DEF CacheOk
<1>2. IsFiniteSet(D) /\ Cardinality(D) <= Cardinality(DOMAIN c)
  BY <1>1, FS_Subset
<1>3. Cardinality(D) \in Nat /\ Cardinality(DOMAIN c) \in Nat /\ MaxSize \in Nat
  BY <1>1, <1>2, FS_CardinalityType, SizeAssumption
<1>4. Cardinality(D) <= MaxSize
  BY <1>1, <1>2, <1>3
<1>5. D \subseteq CacheKeys
  BY <1>1
<1>6. QED
  BY <1>2, <1>4, <1>5, Zenon DEF CacheOk

LEMMA EmptyIsOk == CacheOk(<< >>)
<1>1. DOMAIN << >> = {}
  OBVIOUS
<1>2. IsFiniteSet({}) /\ Cardinality({}) = 0
  BY FS_EmptySet
<1>3. 0 <= MaxSize
  BY SizeAssumption
<1>4. DOMAIN << >> \subseteq CacheKeys /\ \A k \in DOMAIN << >> : FALSE
  BY <1>1
<1>5. QED
  BY <1>1, <1>2, <1>3, <1>4, Zenon DEF CacheOk

LEMMA SweptIsOk ==
  ASSUME CacheOk(cache), NEW k
  PROVE  CacheOk(SweptCache(k))
<1>1. CASE SweptCache(k) = cache
  BY <1>1
<1>2. CASE SweptCache(k) # cache
  <2>1. SweptCache(k) = [j \in DOMAIN cache \ {k} |-> cache[j]]
    BY <1>2, Zenon DEF SweptCache, Without
  <2>2. \A j \in DOMAIN cache \ {k} : EntryOk(j, cache[j])
    BY Zenon DEF CacheOk
  <2> DEFINE D == DOMAIN cache \ {k}
             e == [j \in D |-> cache[j]]
  <2>3. D \in SUBSET (DOMAIN cache) /\ DOMAIN e = D /\ \A j \in D : EntryOk(j, e[j])
    BY <2>2
  <2> HIDE DEF D, e
  <2>4. CacheOk(e)
    BY <2>3, LessIsOk
  <2>5. QED
    BY <2>1, <2>4 DEF e, D
<1>3. QED
  BY <1>1, <1>2

(* put makes room for the new entry where there is none.                   *)
LEMMA PutIsOk ==
  ASSUME CacheOk(cache), NEW k \in CacheKeys, NEW token \in Fitting(k), NEW ttl \in Nat,
         Put(k, token, ttl)
  PROVE  CacheOk(cache')
<1> DEFINE lasts == IF ttl = 0 THEN DefaultTtl ELSE ttl
           x == [token |-> token, left |-> lasts]
           D == DOMAIN cache \cup {k}
           grown == [j \in D |-> IF j = k THEN x ELSE cache[j]]
           first == {j \in DOMAIN grown : \A i \in DOMAIN grown : grown[j].left <= grown[i].left}
<1>1. IF Cardinality(DOMAIN grown) > MaxSize
      THEN \E j \in first : cache' = [i \in DOMAIN grown \ {j} |-> grown[i]]
      ELSE cache' = grown
  BY Zenon DEF Put
<1>3. lasts \in Int
  BY TtlAssumption
<1>4. EntryOk(k, x)
  BY <1>3 DEF EntryOk
<1>5. DOMAIN grown = D /\ \A j \in D : grown[j] = IF j = k THEN x ELSE cache[j]
  OBVIOUS
<1>6. first \subseteq D
  OBVIOUS
<1>7. /\ DOMAIN cache \subseteq CacheKeys
      /\ IsFiniteSet(DOMAIN cache) /\ Cardinality(DOMAIN cache) <= MaxSize
      /\ \A j \in DOMAIN cache : EntryOk(j, cache[j])
  BY Zenon DEF CacheOk
<1>8. Cardinality(DOMAIN cache) \in Nat /\ MaxSize \in Nat
  BY <1>7, FS_CardinalityType, SizeAssumption
<1>9. /\ IsFiniteSet(D) /\ Cardinality(D) \in Nat
      /\ Cardinality(D) <= Cardinality(DOMAIN cache) + 1
  <2>1. /\ IsFiniteSet(D)
        /\ Cardinality(D) = IF k \in DOMAIN cache THEN Cardinality(DOMAIN cache)
                            ELSE Cardinality(DOMAIN cache) + 1
    BY <1>7, FS_AddElement
  <2>2. QED
    BY <1>8, <2>1
<1> HIDE DEF lasts, x, first, grown
<1>10. \A j \in D : EntryOk(j, grown[j])
  BY <1>4, <1>5, <1>7
<1>11. D \subseteq CacheKeys
  BY <1>7
<1> HIDE DEF D
<1>12. CASE Cardinality(DOMAIN grown) > MaxSize
  <2>1. PICK j \in D : cache' = [i \in D \ {j} |-> grown[i]]
    BY <1>1, <1>5, <1>6, <1>12
  <2>2. DOMAIN cache' = D \ {j} /\ \A i \in D \ {j} : cache'[i] = grown[i]
    BY <2>1
  <2>3. IsFiniteSet(D \ {j}) /\ Cardinality(D \ {j}) = Cardinality(D) - 1
    BY <1>9, FS_RemoveElement
  <2>4. Cardinality(D \ {j}) <= MaxSize
    BY <1>7, <1>8, <1>9, <2>3
  <2>5. \A i \in DOMAIN cache' : EntryOk(i, cache'[i])
    BY <1>10, <2>2
  <2>6. DOMAIN cache' \subseteq CacheKeys
    BY <1>11, <2>2
  <2>7. QED
    BY <2>2, <2>3, <2>4, <2>5, <2>6, Zenon DEF CacheOk
<1>13. CASE ~(Cardinality(DOMAIN grown) > MaxSize)
  <2>1. cache' = grown /\ Cardinality(D) <= MaxSize
    BY <1>1, <1>5, <1>8, <1>9, <1>13
  <2>2. QED
    BY <1>5, <1>9, <1>10, <1>11, <2>1, Zenon DEF CacheOk
<1>14. QED
  BY <1>12, <1>13

LEMMA ForgottenIsOk ==
  ASSUME CacheOk(cache), NEW of, Invalidate(of)
  PROVE  CacheOk(cache')
<1> DEFINE D == {j \in DOMAIN cache : j[1] # of}
<1>1. cache' = [k \in D |-> cache[k]]
  BY Zenon DEF Invalidate
<1>2. \A k \in D : EntryOk(k, cache[k])
  BY DEF CacheOk
<1>3. D \in SUBSET (DOMAIN cache)
  OBVIOUS
<1> HIDE DEF D
<1>4. DOMAIN cache' = D /\ \A k \in D : EntryOk(k, cache'[k])
  BY <1>1, <1>2
<1>5. QED
  BY <1>3, <1>4, LessIsOk

LEMMA ElapsedIsOk ==
  ASSUME CacheOk(cache), Elapse
  PROVE  CacheOk(cache')
<1> DEFINE D == DOMAIN cache
           aged(e) == [e EXCEPT !.left = IF e.left < 0 THEN e.left ELSE e.left - 1]
<1>1. cache' = [k \in D |-> aged(cache[k])]
  BY Zenon DEF Elapse
<1>2. ASSUME NEW k \in D PROVE EntryOk(k, aged(cache[k]))
  <2>1. EntryOk(k, cache[k])
    BY DEF CacheOk
  <2> DEFINE e == cache[k]
             left == IF e.left < 0 THEN e.left ELSE e.left - 1
  <2>2. e \in [token : Fitting(k), left : Int]
    BY <2>1 DEF EntryOk
  <2>3. left \in Int
    BY <2>2
  <2> HIDE DEF e, left
  <2>4. [e EXCEPT !.left = left] \in [token : Fitting(k), left : Int]
    BY <2>2, <2>3
  <2>5. QED
    BY <2>4, Zenon DEF EntryOk, e, left
<1> HIDE DEF aged
<1>3. DOMAIN cache' = D /\ \A k \in D : cache'[k] = aged(cache[k])
  BY <1>1
<1>4. D \in SUBSET (DOMAIN cache)
  OBVIOUS
<1> HIDE DEF D
<1>5. QED
  BY <1>2, <1>3, <1>4, LessIsOk

-----------------------------------------------------------------------------
(* The steps of Downstream.                                                *)

Askings == [of : Upstream, mapping : Mappings]

Gots == [task : Tasks, token : Credentials, asked : Mappings \cup {None}]

(* A task that awaits an exchange is in a call, whose token it exchanges.  *)
AskOk(t) ==
  asking[t] # None =>
    /\ Busy(t)
    /\ ~Top(t).crossed => asking[t].of = Top(t).token

ToolInv ==
  /\ toolIndex \in [ToolNames -> Mappings \cup {NoMapping}]
  /\ CacheOk(cache)
  /\ asking \in [Tasks -> Askings \cup {None}]
  /\ \A t \in Tasks : AskOk(t)
  /\ got = None \/ got \in Gots
  /\ OwnCredentials

(* Calls come, nest and return in a task that awaits nothing afterwards.   *)
LEMMA OthersAsk ==
  ASSUME ToolInv, NEW t \in Tasks,
         \A o \in Tasks : o # t => frames'[o] = frames[o] \/ asking[o] = None,
         \/ asking' = [asking EXCEPT ![t] = None]
         \/ asking' = asking /\ asking[t] = None,
         got' = None, UNCHANGED credentialVars
  PROVE  ToolInv'
<1>1. /\ toolIndex \in [ToolNames -> Mappings \cup {NoMapping}]
      /\ CacheOk(cache) /\ asking \in [Tasks -> Askings \cup {None}]
      /\ \A o \in Tasks : AskOk(o)
  BY Zenon DEF ToolInv
<1>2. toolIndex' = toolIndex /\ cache' = cache
  BY Zenon DEF credentialVars
<1>3. CacheOk(cache')
  BY <1>1, <1>2
<1>4. /\ asking' \in [Tasks -> Askings \cup {None}] /\ asking'[t] = None
      /\ \A o \in Tasks : o # t => asking'[o] = asking[o]
  BY <1>1, Zenon
<1>5. ASSUME NEW o \in Tasks PROVE AskOk(o)'
  <2>1. CASE asking'[o] = None
    BY <2>1, Zenon DEF AskOk
  <2>2. CASE asking'[o] # None
    <3>1. frames'[o] = frames[o] /\ asking'[o] = asking[o]
      BY <1>4, <2>2
    <3>2. AskOk(o)
      BY <1>1
    <3>3. QED
      BY <3>1, <3>2, Zenon DEF AskOk, Busy, Top
  <2>3. QED
    BY <2>1, <2>2
<1>6. OwnCredentials'
  BY Zenon DEF OwnCredentials
<1>7. QED
  BY <1>1, <1>2, <1>3, <1>4, <1>5, <1>6, Zenon DEF ToolInv, CacheOk

LEMMA BeginTool ==
  ASSUME ToolInv, ScopeInv, NEW t \in Tasks, Begin(t) \/ End(t)
  PROVE  ToolInv'
<1>1. NoMore(t)
  BY Zenon DEF Begin, End
<1>2. /\ asking' = [asking EXCEPT ![t] = None]
      /\ got' = None /\ UNCHANGED credentialVars
  BY <1>1, Zenon DEF NoMore
<1>3. frames \in [Tasks -> Seq(Frames)]
  BY ScopeHas, Zenon DEF ScopeTypes
<1>4. \A o \in Tasks : o # t => frames'[o] = frames[o]
  <2>1. ASSUME NEW f, Push(t, f) PROVE \A o \in Tasks : o # t => frames'[o] = frames[o]
    BY <1>3, <2>1, Zenon DEF Push
  <2>2. ASSUME NEW c, Pop(t, c) PROVE \A o \in Tasks : o # t => frames'[o] = frames[o]
    BY <1>3, <2>2, Zenon DEF Pop
  <2>3. CASE CallRefused(t)
    BY <2>3, Zenon DEF CallRefused
  <2>4. CASE CallPlain(t)
    BY <2>1, <2>4, Zenon DEF CallPlain
  <2>5. ASSUME NEW u \in Users, Call(t, u) \/ Test(t, u)
        PROVE  \A o \in Tasks : o # t => frames'[o] = frames[o]
    BY <2>1, <2>5, Zenon DEF Call, Test
  <2>6. CASE Return(t) \/ TestReturns(t)
    BY <2>2, <2>6, Zenon DEF Return, TestReturns
  <2>7. QED
    BY <2>3, <2>4, <2>5, <2>6, Zenon DEF Begin, End
<1>5. \A o \in Tasks : o # t => frames'[o] = frames[o] \/ asking[o] = None
  BY <1>4
<1>6. QED
  BY <1>2, <1>5, OthersAsk, Zenon

LEMMA DetachTool ==
  ASSUME ToolInv, ScopeInv, NEW t \in Tasks, Propagate(t) \/ Detach(t)
  PROVE  ToolInv'
<1>1. asking[t] = None /\ asking' = asking /\ got' = None /\ UNCHANGED credentialVars
  BY Zenon DEF Propagate, Detach, Running
<1>2. \A o \in Tasks : o # t => frames'[o] = frames[o] \/ asking[o] = None
  <2>1. CASE Propagate(t)
    BY <2>1, Zenon DEF Propagate, SetContext
  <2>2. CASE Detach(t)
    <3>1. PICK b \in Tasks \ {t} : Spawn(t, b)
      BY <2>2, Zenon DEF Detach
    <3>2. ~Busy(b) /\ \E q : frames' = [frames EXCEPT ![b] = q]
      BY <3>1, Zenon DEF Spawn, Push
    <3>3. asking[b] = None
      BY <3>2, Zenon DEF ToolInv, AskOk
    <3>4. \A o \in Tasks : o # b => frames'[o] = frames[o]
      BY <3>2, ScopeHas, Zenon DEF ScopeTypes
    <3>5. QED
      BY <3>3, <3>4
  <2>3. QED
    BY <2>1, <2>2
<1>3. QED
  BY <1>1, <1>2, OthersAsk

LEMMA ToolHas ==
  ASSUME ToolInv
  PROVE  /\ toolIndex \in [ToolNames -> Mappings \cup {NoMapping}]
         /\ CacheOk(cache)
         /\ asking \in [Tasks -> Askings \cup {None}]
         /\ \A t \in Tasks : AskOk(t)
BY Zenon DEF ToolInv

(* Nobody's call moves, and what is got, if anything, is got for a call.   *)
LEMMA CallsStay ==
  ASSUME ToolInv, UNCHANGED scopeVars,
         toolIndex' \in [ToolNames -> Mappings \cup {NoMapping}], CacheOk(cache'),
         NEW t \in Tasks, NEW a \in Askings \cup {None},
         asking' = [asking EXCEPT ![t] = a],
         a # None => Busy(t) /\ (~Top(t).crossed => a.of = Top(t).token),
         \/ got' = None
         \/ /\ got' \in Gots
            /\ ~Top(got'.task).crossed =>
                 /\ got'.token.of = Top(got'.task).token
                 /\ got'.asked # None => NamedBy(got'.asked, got'.token)
  PROVE  ToolInv'
<1>1. frames' = frames
  BY Zenon DEF scopeVars
<1>2. /\ asking' \in [Tasks -> Askings \cup {None}] /\ asking'[t] = a
      /\ \A o \in Tasks : o # t => asking'[o] = asking[o]
  BY ToolHas, Zenon
<1>3. ASSUME NEW o \in Tasks PROVE AskOk(o)'
  <2>1. AskOk(o)
    BY ToolHas
  <2>2. CASE o = t
    BY <1>1, <1>2, <2>2, Zenon DEF AskOk, Busy, Top
  <2>3. CASE o # t
    BY <1>1, <1>2, <2>1, <2>3, Zenon DEF AskOk, Busy, Top
  <2>4. QED
    BY <2>2, <2>3
<1>4. OwnCredentials'
  BY <1>1, Zenon DEF OwnCredentials, Top
<1>5. (got = None \/ got \in Gots)'
  BY Zenon DEF Gots
<1>6. QED
  BY <1>2, <1>3, <1>4, <1>5, Zenon DEF ToolInv, CacheOk, Mappings, Askings

(* What a tool gets for the token that it reads, before another step.      *)
LEMMA GotIs ==
  ASSUME NEW t \in Tasks, NEW x \in Credentials, NEW m \in Mappings \cup {None},
         Got(t, x, m),
         ~Top(t).crossed => x.of = Top(t).token,
         m # None => NamedBy(m, x)
  PROVE  /\ got' \in Gots
         /\ ~Top(got'.task).crossed =>
              /\ got'.token.of = Top(got'.task).token
              /\ got'.asked # None => NamedBy(got'.asked, got'.token)
<1>1. got' = [task |-> t, token |-> x, asked |-> m]
  BY DEF Got
<1>2. got' \in Gots
  BY <1>1 DEF Gots
<1>3. got'.task = t /\ got'.token = x /\ got'.asked = m
  BY <1>1
<1>4. QED
  BY <1>2, <1>3

LEMMA TokenOf ==
  ASSUME ScopeInv, NEW t \in Tasks, HasToken(t)
  PROVE  /\ Busy(t) /\ asking[t] = None
         /\ tokenVar[t] \in AccessTokens
         /\ ~Top(t).crossed => tokenVar[t] = Top(t).token
<1>1. Busy(t) /\ asking[t] = None /\ tokenVar[t] # None
  BY Zenon DEF HasToken, Running
<1>2. tokenVar[t] \in AccessTokens \cup {None}
  BY ScopeHas, TaskHas
<1>3. QED
  BY <1>1, <1>2, TopOk

LEMMA MakeClientTool ==
  ASSUME ScopeInv, ToolInv, NEW t \in Tasks, MakeClient(t)
  PROVE  ToolInv'
<1> DEFINE x == [of |-> tokenVar[t], audience |-> Unnamed, scopes |-> Unnamed]
<1>1. /\ HasToken(t) /\ UNCHANGED scopeVars /\ toolIndex' = toolIndex /\ cache' = cache
      /\ asking' = asking /\ Got(t, x, None)
  BY Zenon DEF MakeClient, credentialVars
<1>2. /\ got' \in Gots
      /\ ~Top(got'.task).crossed =>
           /\ got'.token.of = Top(got'.task).token
           /\ got'.asked # None => NamedBy(got'.asked, got'.token)
  <2>1. x \in Credentials /\ x.of = tokenVar[t]
    BY <1>1, TokenOf DEF Credentials, ScopesOrNone
  <2> HIDE DEF x
  <2>2. QED
    BY <1>1, <2>1, TokenOf, GotIs
<1>3. asking' = [asking EXCEPT ![t] = None] /\ None \in Askings \cup {None}
  BY <1>1, TokenOf, ToolHas
<1>4. /\ toolIndex' \in [ToolNames -> Mappings \cup {NoMapping}]
      /\ CacheOk(cache')
  BY <1>1, ToolHas
<1>5. QED
  BY <1>1, <1>2, <1>3, <1>4, CallsStay

LEMMA AskTool ==
  ASSUME ScopeInv, ToolInv, NEW t \in Tasks, Ask(t)
  PROVE  ToolInv'
<1> DEFINE of == tokenVar[t]
<1>1. /\ HasToken(t) /\ of \in Upstream /\ UNCHANGED scopeVars /\ toolIndex' = toolIndex
  BY Zenon DEF Ask
<1>2. PICK n \in ToolNames :
        LET mapping == Resolve(n)
            k == MakeKey(of, mapping.audience, mapping.scopes)
        IN  /\ mapping # NoMapping
            /\ cache' = SweptCache(k)
            /\ IF Cached(k)
               THEN Got(t, cache[k].token, mapping) /\ UNCHANGED asking
               ELSE /\ asking' = [asking EXCEPT ![t] = [of |-> of, mapping |-> mapping]]
                    /\ got' = None
  BY Zenon DEF Ask
<1> DEFINE m == Resolve(n)
           k == MakeKey(of, m.audience, m.scopes)
           e == cache[k]
<1>3. m \in Mappings
  BY <1>2, ToolHas DEF Resolve
<1>4. k[1] = of /\ k[2] = m.audience /\ k[3] = m.scopes
  BY DEF MakeKey
<1>5. CacheOk(cache') /\ toolIndex' \in [ToolNames -> Mappings \cup {NoMapping}]
  <2>1. CacheOk(SweptCache(k))
    BY ToolHas, SweptIsOk
  <2>2. cache' = SweptCache(k)
    BY <1>2, Zenon
  <2>3. QED
    BY <1>1, <2>1, <2>2, ToolHas
<1>6. /\ Busy(t) /\ asking[t] = None /\ of \in AccessTokens
      /\ ~Top(t).crossed => of = Top(t).token
  BY <1>1, TokenOf
<1>7. CASE Cached(k)
  <2>1. Got(t, e.token, m) /\ asking' = asking
    BY <1>2, <1>7, Zenon
  <2>2. e \in [token : Fitting(k), left : Int]
    BY <1>7, ToolHas, Zenon DEF Cached, CacheOk, EntryOk
  <2> HIDE DEF k, e, m, of
  <2>3. e.token \in Fitting(k)
    BY <2>2
  <2>4. e.token \in Delegated /\ e.token.of = of /\ NamedBy(m, e.token)
    BY <1>4, <2>3 DEF Fitting, NamedBy
  <2>5. e.token \in Credentials
    BY <2>4, UpstreamAssumption DEF Delegated, Credentials
  <2>6. /\ got' \in Gots
        /\ ~Top(got'.task).crossed =>
             /\ got'.token.of = Top(got'.task).token
             /\ got'.asked # None => NamedBy(got'.asked, got'.token)
    BY <1>3, <1>6, <2>1, <2>4, <2>5, GotIs
  <2>7. asking' = [asking EXCEPT ![t] = None] /\ None \in Askings \cup {None}
    BY <1>6, <2>1, ToolHas
  <2>8. QED
    BY <1>1, <1>5, <2>6, <2>7, CallsStay
<1>8. CASE ~Cached(k)
  <2> DEFINE a == [of |-> of, mapping |-> m]
  <2>1. asking' = [asking EXCEPT ![t] = a] /\ got' = None
    BY <1>2, <1>8, Zenon
  <2>2. a \in Askings \cup {None} /\ a.of = of
    BY <1>1, <1>3 DEF Askings
  <2> HIDE DEF a, k, m, of
  <2>3. QED
    BY <1>1, <1>5, <1>6, <2>1, <2>2, CallsStay
<1>9. QED
  BY <1>7, <1>8

(* What is got in exchange for a mapping fits the key it is kept under.    *)
LEMMA IssuedFits ==
  ASSUME NEW of \in Upstream, NEW m \in Mappings
  PROVE  LET k == MakeKey(of, m.audience, m.scopes)
             x == Issued(of, m)
         IN  k \in CacheKeys /\ x \in Fitting(k) /\ x.of = of /\ NamedBy(m, x)
<1> DEFINE k == MakeKey(of, m.audience, m.scopes)
           x == Issued(of, m)
<1>1. m.audience \in Audiences /\ m.scopes \in ScopesOrNone
  BY DEF Mappings
<1>2. k \in CacheKeys /\ k[1] = of /\ k[2] = m.audience /\ k[3] = m.scopes
  BY <1>1 DEF MakeKey, CacheKeys
<1>3. Effective(m.scopes) \in ScopesOrNone
  BY <1>1, ConfiguredAssumption DEF Effective
<1>4. Sent(m.provider, m.audience) \in {m.audience, Unnamed}
  BY DEF Sent
<1>5. x.of = of /\ x.scopes = Effective(m.scopes) /\ x.audience \in {m.audience, Unnamed}
  BY <1>4 DEF Issued
<1>6. x \in Delegated
  BY <1>1, <1>3, <1>4 DEF Issued, Delegated
<1>7. QED
  BY <1>2, <1>5, <1>6 DEF Fitting, NamedBy

LEMMA ExchangedTool ==
  ASSUME ScopeInv, ToolInv, NEW t \in Tasks, Exchanged(t)
  PROVE  ToolInv'
<1> DEFINE a == asking[t]
           m == a.mapping
           k == MakeKey(a.of, m.audience, m.scopes)
           x == Issued(a.of, m)
<1>1. /\ a # None /\ UNCHANGED scopeVars /\ toolIndex' = toolIndex
      /\ asking' = [asking EXCEPT ![t] = None]
      /\ \E ttl \in Lifetimes : Put(k, x, ttl)
      /\ Got(t, x, m)
  BY Zenon DEF Exchanged
<1>2. a \in Askings
  BY <1>1, ToolHas
<1>3. a.of \in Upstream /\ m \in Mappings
  BY <1>2 DEF Askings
<1>4. ~Top(t).crossed => a.of = Top(t).token
  BY <1>1, ToolHas DEF AskOk
<1> HIDE DEF a
<1>5. k \in CacheKeys /\ x \in Fitting(k) /\ x.of = a.of /\ NamedBy(m, x)
  BY <1>3, IssuedFits DEF MakeKey
<1> HIDE DEF m, k, x
<1>6. CacheOk(cache')
  <2>1. PICK ttl \in Lifetimes : Put(k, x, ttl)
    BY <1>1
  <2>2. ttl \in Nat
    BY OfferedAssumption
  <2>3. QED
    BY <1>5, <2>1, <2>2, ToolHas, PutIsOk
<1>7. /\ got' \in Gots
      /\ ~Top(got'.task).crossed =>
           /\ got'.token.of = Top(got'.task).token
           /\ got'.asked # None => NamedBy(got'.asked, got'.token)
  <2>1. x \in Credentials
    BY <1>5, UpstreamAssumption DEF Fitting, Delegated, Credentials
  <2>2. QED
    BY <1>1, <1>3, <1>4, <1>5, <2>1, GotIs
<1>8. /\ toolIndex' \in [ToolNames -> Mappings \cup {NoMapping}]
      /\ None \in Askings \cup {None}
  BY <1>1, ToolHas
<1>9. QED
  BY <1>1, <1>6, <1>7, <1>8, CallsStay

(* What is done to the cache and the index beside the calls.               *)
LEMMA AsideTool ==
  ASSUME ToolInv, UNCHANGED scopeVars,
         toolIndex' \in [ToolNames -> Mappings \cup {NoMapping}], CacheOk(cache'),
         asking' = asking, got' = None \/ got' = got
  PROVE  ToolInv'
<1>1. frames' = frames
  BY Zenon DEF scopeVars
<1>2. \A t \in Tasks : AskOk(t)'
  BY <1>1, Zenon DEF ToolInv, AskOk, Busy, Top
<1>3. OwnCredentials'
  BY <1>1, Zenon DEF ToolInv, OwnCredentials, Top
<1>4. asking' \in [Tasks -> Askings \cup {None}] /\ (got' = None \/ got' \in Gots)
  BY Zenon DEF ToolInv
<1>5. QED
  BY <1>2, <1>3, <1>4, Zenon DEF ToolInv, CacheOk, Mappings, Askings, Gots

LEMMA ManageTool ==
  ASSUME ToolInv, Manage \/ Tick \/ UNCHANGED vars
  PROVE  ToolInv'
<1>1. UNCHANGED scopeVars /\ asking' = asking /\ (got' = None \/ got' = got)
  BY Zenon DEF Manage, Tick, vars, toolVars
<1>2. toolIndex' \in [ToolNames -> Mappings \cup {NoMapping}] /\ CacheOk(cache')
  <2>1. ASSUME NEW names \in SUBSET ToolNames, NEW m \in Offered, AddMapping(names, m)
        PROVE  toolIndex' \in [ToolNames -> Mappings \cup {NoMapping}] /\ CacheOk(cache')
    <3>1. m \in Mappings \cup {NoMapping} /\ cache' = cache
      BY <2>1, OfferedAssumption DEF AddMapping
    <3>2. toolIndex' \in [ToolNames -> Mappings \cup {NoMapping}]
      BY <2>1, <3>1, ToolHas DEF AddMapping
    <3>3. QED
      BY <3>1, <3>2, ToolHas
  <2>2. ASSUME NEW u \in Upstream, Invalidate(u), toolIndex' = toolIndex
        PROVE  toolIndex' \in [ToolNames -> Mappings \cup {NoMapping}] /\ CacheOk(cache')
    BY <2>2, ToolHas, ForgottenIsOk
  <2>3. CASE InvalidateAll /\ toolIndex' = toolIndex
    BY <2>3, ToolHas, EmptyIsOk DEF InvalidateAll
  <2>4. CASE Elapse /\ toolIndex' = toolIndex
    BY <2>4, ToolHas, ElapsedIsOk
  <2>5. CASE cache' = cache /\ toolIndex' = toolIndex
    BY <2>5, ToolHas
  <2>6. QED
    BY <2>1, <2>2, <2>3, <2>4, <2>5, Zenon DEF Manage, Tick, vars, credentialVars
<1>3. QED
  BY <1>1, <1>2, AsideTool

LEMMA ToolStarts == Init => ToolInv
<1> SUFFICES ASSUME Init PROVE ToolInv
  OBVIOUS
<1>1. /\ toolIndex = Mapped /\ cache = << >> /\ asking = [t \in Tasks |-> None] /\ got = None
  BY Zenon DEF Init, CredentialInit
<1>2. CacheOk(cache)
  BY <1>1, EmptyIsOk
<1>3. asking \in [Tasks -> Askings \cup {None}] /\ \A t \in Tasks : AskOk(t)
  BY <1>1 DEF AskOk
<1>4. toolIndex \in [ToolNames -> Mappings \cup {NoMapping}]
  BY <1>1, MappedAssumption
<1>5. QED
  BY <1>1, <1>2, <1>3, <1>4, Zenon DEF ToolInv, OwnCredentials

LEMMA ToolInvariant == Spec => [](ScopeInv /\ ToolInv)
<1>1. Init => ToolInv
  BY ToolStarts
<1>2. ScopeInv /\ ToolInv /\ [Next]_vars => ToolInv'
  <2> SUFFICES ASSUME ScopeInv, ToolInv, [Next]_vars PROVE ToolInv'
    OBVIOUS
  <2>1. ASSUME NEW t \in Tasks, Begin(t) \/ End(t) PROVE ToolInv'
    BY <2>1, BeginTool
  <2>2. ASSUME NEW t \in Tasks, Propagate(t) \/ Detach(t) PROVE ToolInv'
    BY <2>2, DetachTool
  <2>3. ASSUME NEW t \in Tasks, MakeClient(t) PROVE ToolInv'
    BY <2>3, MakeClientTool
  <2>4. ASSUME NEW t \in Tasks, Ask(t) PROVE ToolInv'
    BY <2>4, AskTool
  <2>5. ASSUME NEW t \in Tasks, Exchanged(t) PROVE ToolInv'
    BY <2>5, ExchangedTool
  <2>6. ASSUME NEW t \in Tasks, ExchangeFails(t) PROVE ToolInv'
    <3>1. /\ UNCHANGED scopeVars /\ toolIndex' = toolIndex /\ cache' = cache
          /\ asking' = [asking EXCEPT ![t] = None] /\ got' = None
      BY <2>6, Zenon DEF ExchangeFails, credentialVars
    <3>2. /\ toolIndex' \in [ToolNames -> Mappings \cup {NoMapping}] /\ CacheOk(cache')
          /\ None \in Askings \cup {None}
      BY <3>1, ToolHas
    <3>3. QED
      BY <3>1, <3>2, CallsStay
  <2>7. CASE Manage \/ Tick \/ UNCHANGED vars
    BY <2>7, ManageTool
  <2>8. QED
    BY <2>1, <2>2, <2>3, <2>4, <2>5, <2>6, <2>7, Zenon DEF Next
<1>3. QED
  BY <1>1, <1>2, ScopeInvariant, PTL DEF Spec

(* The variables of calls, mappings, cache and tools keep their types: the *)
(* cache of TokenCache never has more than max_size entries, and a task    *)
(* that awaits an exchange is in a call.                                   *)
THEOREM TypeInvariant == Spec => []TypeOK
<1>1. ScopeInv => ScopeTypeOK
  <2> SUFFICES ASSUME ScopeInv PROVE ScopeTypeOK
    OBVIOUS
  <2>1. ScopeTypes
    BY ScopeHas
  <2>2. ASSUME NEW t \in Tasks
        PROVE  /\ Len(frames[t]) <= Depth[t] /\ \A n \in DOMAIN frames[t] : frames[t][n] \in Frames
               /\ identityVar[t] = None <=> tokenVar[t] = None
    <3>1. frames[t] \in Seq(Frames) /\ Len(frames[t]) <= Depth[t]
      BY <2>1, TaskHas
    <3>2. Paired(identityVar[t], tokenVar[t])
      BY ScopeHas, Zenon DEF TaskOk
    <3>3. identityVar[t] = None <=> tokenVar[t] = None
      BY <3>2, DistinctAssumption DEF Paired
    <3>4. QED
      BY <3>1, <3>3, StackHas
  <2>3. DOMAIN frames = Tasks
    BY <2>1 DEF ScopeTypes
  <2>4. QED
    BY <2>1, <2>2, <2>3, Zenon DEF ScopeTypeOK, ScopeTypes
<1>2. ToolInv => CredentialTypeOK
  <2> SUFFICES ASSUME ToolInv PROVE CredentialTypeOK
    OBVIOUS
  <2>1. CacheOk(cache) /\ toolIndex \in [ToolNames -> Mappings \cup {NoMapping}]
    BY ToolHas
  <2>2. ASSUME NEW k \in DOMAIN cache
        PROVE  cache[k].token \in Delegated /\ cache[k].left \in Int
    <3>1. cache[k] \in [token : Fitting(k), left : Int]
      BY <2>1 DEF CacheOk, EntryOk
    <3>2. QED
      BY <3>1 DEF Fitting
  <2>3. QED
    BY <2>1, <2>2, Zenon DEF CredentialTypeOK, CacheOk
<1>3. ScopeInv /\ ToolInv => TypeOK
  BY <1>1, <1>2, Zenon DEF ToolInv, TypeOK, AskOk, Askings, Gots
<1>4. QED
  BY <1>3, ToolInvariant, PTL

(* What a tool calls an API with (downstream.py, and what an application   *)
(* makes of CredentialResolver, the adapters and TokenCache) was got with  *)
(* the token of its own call, by a request that named the scopes its       *)
(* mapping has, or else those configured, and its audience or none.        *)
THEOREM CredentialsAreOwn == Spec => []OwnCredentials
<1>1. ToolInv => OwnCredentials
  BY Zenon DEF ToolInv
<1>2. QED
  BY <1>1, ToolInvariant, PTL
=============================================================================
