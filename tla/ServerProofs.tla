---------------------------- MODULE ServerProofs ----------------------------
(***************************************************************************)
(* The server and a tool call's way through it, for any number of calls in *)
(* progress, any plugins, tools, policies and identities, and any          *)
(* configurations.                                                         *)
(***************************************************************************)
EXTENDS ServerStartup, Integers, TLAPS, FunctionTheorems, FiniteSetTheorems, SequenceTheorems

-----------------------------------------------------------------------------
(* The chain: which frames there are, and where.                           *)

LEMMA PluginsWithType ==
  ASSUME NEW hook \in {"before", "after", "on_exception"}
  PROVE  PluginsWith(hook) \in Seq(DOMAIN Plugins)
<1> DEFINE having == {n \in DOMAIN Named : Named[n][hook]}
           UpTo(n) == {m \in having : m <= n}
           rank == [n \in having |-> Cardinality(UpTo(n))]
           k == Cardinality(having)
<1>1. /\ DOMAIN Named = 1..Len(Named) /\ Len(Named) \in Nat
      /\ DOMAIN Named \subseteq DOMAIN Plugins /\ having \subseteq Nat
  BY PluginAssumption DEF Named
<1>2. IsFiniteSet(DOMAIN Named)
  BY <1>1, FS_Interval
<1>3. IsFiniteSet(having) /\ k \in Nat
  <2>1. having \in SUBSET DOMAIN Named
    OBVIOUS
  <2> HIDE DEF having
  <2>2. QED
    BY <1>2, <2>1, FS_Subset, FS_CardinalityType
<1>4. IsFiniteSet(1..k) /\ Cardinality(1..k) = k
  <2> HIDE DEF k
  <2>1. QED
    BY <1>3, FS_Interval
<1>5. ASSUME NEW n \in having PROVE rank[n] \in 1..k
  <2>1. UpTo(n) \in SUBSET having /\ n \in UpTo(n) /\ rank[n] = Cardinality(UpTo(n))
    BY <1>1
  <2> HIDE DEF having, UpTo, rank
  <2>2. /\ IsFiniteSet(UpTo(n)) /\ Cardinality(UpTo(n)) <= Cardinality(having)
        /\ Cardinality(UpTo(n)) \in Nat
    BY <1>3, <2>1, FS_Subset, FS_CardinalityType
  <2>3. Cardinality(UpTo(n)) # 0
    BY <2>1, <2>2, FS_EmptySet
  <2>4. QED
    BY <1>3, <2>1, <2>2, <2>3
<1>6. ASSUME NEW m \in having, NEW n \in having, m < n PROVE rank[m] < rank[n]
  <2>1. /\ UpTo(m) \in SUBSET UpTo(n) /\ n \in UpTo(n) /\ n \notin UpTo(m)
        /\ UpTo(n) \in SUBSET having
        /\ rank[m] = Cardinality(UpTo(m)) /\ rank[n] = Cardinality(UpTo(n))
    BY <1>1, <1>6
  <2> HIDE DEF having, UpTo, rank
  <2>2. IsFiniteSet(UpTo(n)) /\ IsFiniteSet(UpTo(m))
    BY <1>3, <2>1, FS_Subset
  <2>3. /\ Cardinality(UpTo(m)) <= Cardinality(UpTo(n))
        /\ Cardinality(UpTo(m)) = Cardinality(UpTo(n)) => UpTo(m) = UpTo(n)
        /\ Cardinality(UpTo(m)) \in Nat /\ Cardinality(UpTo(n)) \in Nat
    BY <2>1, <2>2, FS_Subset, FS_CardinalityType
  <2>4. QED
    BY <2>1, <2>3
<1>7. rank \in Injection(having, 1..k)
  <2>1. rank \in [having -> 1..k]
    BY <1>5
  <2>2. \A m, n \in having : rank[m] = rank[n] => m = n
    <3> SUFFICES ASSUME NEW m \in having, NEW n \in having, rank[m] = rank[n], m # n
                 PROVE  FALSE
      OBVIOUS
    <3> HIDE DEF having, rank, k
    <3>1. rank[m] \in Nat /\ rank[n] \in Nat /\ m \in Nat /\ n \in Nat
      BY <1>1, <1>3, <2>1
    <3>2. CASE m < n
      BY <1>6, <3>1, <3>2
    <3>3. CASE n < m
      BY <1>6, <3>1, <3>3
    <3>4. QED
      BY <3>1, <3>2, <3>3
  <2> HIDE DEF having, rank, k
  <2>3. QED
    BY <2>1, <2>2, Fun_IsInj
<1>8. \A i \in 1..k : \E n \in having : rank[n] = i
  <2> HIDE DEF having, rank, k
  <2>1. rank \in [having -> 1..k]
    BY <1>7, Fun_InjectionProperties
  <2>2. Range(rank) \in SUBSET (1..k)
    BY <2>1 DEF Range
  <2>3. rank \in Bijection(having, Range(rank))
    BY <1>7, Fun_InjMeansBijImage
  <2>4. ExistsBijection(having, Range(rank))
    BY <2>3, Zenon DEF ExistsBijection
  <2>5. Cardinality(Range(rank)) = Cardinality(having)
    BY <1>3, <2>4, FS_Bijection
  <2>6. Range(rank) = 1..k
    BY <1>4, <2>2, <2>5, FS_Subset, Zenon DEF k
  <2>7. QED
    BY <2>6, <2>1 DEF Range
<1>9. \A i \in 1..k : (CHOOSE n \in having : Cardinality(UpTo(n)) = i) \in having
  <2>1. \A i \in 1..k : \E n \in having : Cardinality(UpTo(n)) = i
    BY <1>8
  <2> HIDE DEF having, UpTo, k
  <2>2. QED
    BY <2>1
<1>10. PluginsWith(hook) = [i \in 1..k |-> CHOOSE n \in having : Cardinality(UpTo(n)) = i]
  BY DEF PluginsWith
<1>11. having \subseteq DOMAIN Plugins
  BY <1>1
<1> HIDE DEF having, UpTo, k
<1>12. QED
  BY <1>3, <1>9, <1>10, <1>11

Kinds == {"observability", "session", "disabled", "authentication", "authorization", "plugin"}
Frames == [kind : Kinds, plugin : Nat]

LEMMA FourParts ==
  ASSUME NEW S, NEW a \in Seq(S), NEW b \in Seq(S), NEW c \in Seq(S), NEW d \in Seq(S),
         NEW whole, whole = a \o b \o c \o d
  PROVE  /\ whole \in Seq(S) /\ Len(whole) = Len(a) + Len(b) + Len(c) + Len(d)
         /\ \A i \in 1..Len(a) : whole[i] = a[i]
         /\ \A i \in 1..Len(b) : whole[Len(a) + i] = b[i]
         /\ \A i \in 1..Len(c) : whole[Len(a) + Len(b) + i] = c[i]
         /\ \A i \in 1..Len(d) : whole[Len(a) + Len(b) + Len(c) + i] = d[i]
<1>0. Len(a) \in Nat /\ Len(b) \in Nat /\ Len(c) \in Nat /\ Len(d) \in Nat
  BY LenProperties
<1>1. /\ a \o b \in Seq(S) /\ Len(a \o b) = Len(a) + Len(b)
      /\ \A i \in 1..Len(a) + Len(b) :
           (a \o b)[i] = IF i <= Len(a) THEN a[i] ELSE b[i - Len(a)]
  BY ConcatProperties
<1> DEFINE ab == a \o b
<1> HIDE DEF ab
<1>2. /\ ab \o c \in Seq(S) /\ Len(ab \o c) = Len(ab) + Len(c)
      /\ \A i \in 1..Len(ab) + Len(c) :
           (ab \o c)[i] = IF i <= Len(ab) THEN ab[i] ELSE c[i - Len(ab)]
  BY <1>1, ConcatProperties DEF ab
<1> DEFINE abc == ab \o c
<1> HIDE DEF abc
<1>3. /\ abc \o d \in Seq(S) /\ Len(abc \o d) = Len(abc) + Len(d)
      /\ \A i \in 1..Len(abc) + Len(d) :
           (abc \o d)[i] = IF i <= Len(abc) THEN abc[i] ELSE d[i - Len(abc)]
  BY <1>2, ConcatProperties DEF abc
<1>4. whole = abc \o d
  BY DEF ab, abc
<1>5. Len(ab) = Len(a) + Len(b) /\ Len(abc) = Len(a) + Len(b) + Len(c)
  BY <1>1, <1>2 DEF ab, abc
<1>6. whole \in Seq(S) /\ Len(whole) = Len(a) + Len(b) + Len(c) + Len(d)
  BY <1>3, <1>4, <1>5
<1>7. \A i \in 1..Len(abc) : whole[i] = abc[i]
  BY <1>0, <1>3, <1>4, <1>5
<1>8. \A i \in 1..Len(ab) : whole[i] = ab[i]
  BY <1>0, <1>2, <1>5, <1>7 DEF abc
<1>9. \A i \in 1..Len(a) : whole[i] = a[i]
  BY <1>0, <1>1, <1>5, <1>8 DEF ab
<1>10. \A i \in 1..Len(b) : whole[Len(a) + i] = b[i]
  BY <1>0, <1>1, <1>5, <1>8 DEF ab
<1>11. \A i \in 1..Len(c) : whole[Len(a) + Len(b) + i] = c[i]
  <2> SUFFICES ASSUME NEW i \in 1..Len(c)
               PROVE  whole[Len(a) + Len(b) + i] = c[i]
    OBVIOUS
  <2> DEFINE j == Len(a) + Len(b) + i
  <2>1. j \in 1..Len(abc) /\ ~(j <= Len(ab)) /\ j - Len(ab) = i
    BY <1>0, <1>5
  <2> HIDE DEF j
  <2>2. abc[j] = c[i]
    BY <1>2, <1>5, <2>1 DEF abc
  <2>3. QED
    BY <1>7, <2>1, <2>2 DEF j
<1>12. \A i \in 1..Len(d) : whole[Len(a) + Len(b) + Len(c) + i] = d[i]
  BY <1>0, <1>3, <1>4, <1>5
<1>13. QED
  BY <1>6, <1>9, <1>10, <1>11, <1>12

LEMMA BuiltinType ==
  ASSUME NEW section \in Sections, NEW kind \in Kinds
  PROVE  /\ Builtin(section, kind) \in Seq(Frames)
         /\ Len(Builtin(section, kind)) = IF section = "absent" THEN 0 ELSE 1
         /\ section = "enabled" => Builtin(section, kind)[1].kind = kind
         /\ section = "disabled" => Builtin(section, kind)[1].kind = "disabled"
<1>1. Frame(kind) \in Seq(Frames) /\ Frame("disabled") \in Seq(Frames)
  BY DEF Frame, Frames, Kinds
<1>2. /\ Len(Frame(kind)) = 1 /\ Len(Frame("disabled")) = 1
      /\ Frame(kind)[1].kind = kind /\ Frame("disabled")[1].kind = "disabled"
  BY DEF Frame
<1>3. CASE section = "absent"
  BY <1>3 DEF Builtin
<1>4. CASE section = "disabled"
  BY <1>1, <1>2, <1>4 DEF Builtin
<1>5. CASE section = "enabled"
  BY <1>1, <1>2, <1>5 DEF Builtin
<1>6. QED
  BY <1>3, <1>4, <1>5 DEF Sections

(* _build_pipeline: nothing is outside observability, no other frame is    *)
(* observability, authentication and authorization come together and the   *)
(* identity is there before it is authorized.                              *)
BeforeShape ==
  /\ Before \in Seq(Frames)
  /\ config.observability = "enabled" =>
       /\ Len(Before) >= 1 /\ Before[1].kind = "observability"
       /\ \A p \in 2..Len(Before) : Before[p].kind # "observability"
  /\ config.auth # "none" => \E p \in 1..Len(Before) : Before[p].kind = "authentication"
  /\ \A p, q \in 1..Len(Before) :
       Before[p].kind = "plugin" /\ Before[q].kind = "authentication" => q < p

LEMMA ChainShape ==
  ASSUME config \in Configs
  PROVE  BeforeShape
<1> DEFINE hooks == PluginsWith("before")
           a == Builtin(config.observability, "observability")
           b == If(config.auth # "token_exchange", Builtin(config.sessions, "session"))
           c == If(config.auth # "none", Frame("authentication") \o Frame("authorization"))
           d == [n \in DOMAIN hooks |-> Nth(hooks[n])]
<1>1. /\ config.observability \in Sections /\ config.sessions \in Sections
      /\ config.auth \in {"none", "authorization_code", "token_exchange"}
  BY ConfigAssumption
<1>2. Before = a \o b \o c \o d
  BY DEF Before
<1>3. /\ a \in Seq(Frames) /\ Len(a) \in {0, 1}
      /\ config.observability = "enabled" => Len(a) = 1 /\ a[1].kind = "observability"
      /\ Len(a) = 1 => a[1].kind \in {"observability", "disabled"}
  <2>1. "observability" \in Kinds
    BY DEF Kinds
  <2>2. QED
    BY <1>1, <2>1, BuiltinType DEF Sections
<1>4. /\ b \in Seq(Frames) /\ Len(b) \in {0, 1}
      /\ Len(b) = 1 => b[1].kind \in {"session", "disabled"}
  <2>1. "session" \in Kinds
    BY DEF Kinds
  <2>2. CASE config.auth # "token_exchange"
    BY <1>1, <2>1, <2>2, BuiltinType DEF Sections, If
  <2>3. CASE config.auth = "token_exchange"
    BY <2>3 DEF If
  <2>4. QED
    BY <2>2, <2>3
<1>5. /\ c \in Seq(Frames)
      /\ config.auth # "none" =>
           Len(c) = 2 /\ c[1].kind = "authentication" /\ c[2].kind = "authorization"
      /\ config.auth = "none" => Len(c) = 0
  <2>1. CASE config.auth # "none"
    <3>1. c = Frame("authentication") \o Frame("authorization")
      BY <2>1 DEF If
    <3>2. /\ Frame("authentication") \in Seq(Frames) /\ Frame("authorization") \in Seq(Frames)
      BY DEF Frame, Frames, Kinds
    <3>3. /\ Len(Frame("authentication")) = 1 /\ Len(Frame("authorization")) = 1
          /\ Frame("authentication")[1].kind = "authentication"
          /\ Frame("authorization")[1].kind = "authorization"
      BY DEF Frame
    <3> DEFINE x == Frame("authentication")
               y == Frame("authorization")
    <3> HIDE DEF x, y, c
    <3>4. /\ c \in Seq(Frames) /\ Len(c) = 2
          /\ \A i \in 1..2 : c[i] = IF i <= 1 THEN x[i] ELSE y[i - 1]
      <4>1. x \o y \in Seq(Frames) /\ Len(x \o y) = Len(x) + Len(y)
            /\ \A i \in 1..Len(x) + Len(y) :
                 (x \o y)[i] = IF i <= Len(x) THEN x[i] ELSE y[i - Len(x)]
        BY <3>2, ConcatProperties DEF x, y
      <4>2. Len(x) = 1 /\ Len(y) = 1 /\ c = x \o y
        BY <3>1, <3>3 DEF x, y
      <4>3. QED
        BY <4>1, <4>2
    <3>5. c[1] = x[1] /\ c[2] = y[1]
      BY <3>4
    <3>6. QED
      BY <2>1, <3>3, <3>4, <3>5 DEF x, y
  <2>2. CASE config.auth = "none"
    BY <2>2 DEF If
  <2>3. QED
    BY <2>1, <2>2
<1>6. /\ d \in Seq(Frames)
      /\ \A i \in 1..Len(d) : d[i].kind = "plugin"
  <2>1. hooks \in Seq(DOMAIN Plugins)
    BY PluginsWithType
  <2>2. DOMAIN Plugins \subseteq Nat
    BY PluginAssumption
  <2> HIDE DEF hooks
  <2>3. DOMAIN hooks = 1..Len(hooks) /\ \A n \in 1..Len(hooks) : hooks[n] \in Nat
    BY <2>1, <2>2, LenProperties
  <2>4. \A n \in 1..Len(hooks) : Nth(hooks[n]) \in Frames /\ Nth(hooks[n]).kind = "plugin"
    BY <2>3 DEF Nth, Frames, Kinds
  <2>5. QED
    BY <2>1, <2>3, <2>4, LenProperties
<1> HIDE DEF a, b, c, d
<1>7. /\ Before \in Seq(Frames)
      /\ Len(Before) = Len(a) + Len(b) + Len(c) + Len(d)
      /\ \A i \in 1..Len(a) : Before[i] = a[i]
      /\ \A i \in 1..Len(b) : Before[Len(a) + i] = b[i]
      /\ \A i \in 1..Len(c) : Before[Len(a) + Len(b) + i] = c[i]
      /\ \A i \in 1..Len(d) : Before[Len(a) + Len(b) + Len(c) + i] = d[i]
  <2>1. /\ a \in Seq(Frames) /\ b \in Seq(Frames) /\ c \in Seq(Frames)
        /\ d \in Seq(Frames)
    BY <1>3, <1>4, <1>5, <1>6
  <2> DEFINE whole == Before
  <2>2. whole = a \o b \o c \o d
    BY <1>2
  <2> HIDE DEF whole
  <2>3. QED
    BY <2>1, <2>2, FourParts DEF whole
<1>8. /\ Len(a) \in Nat /\ Len(b) \in Nat /\ Len(c) \in Nat /\ Len(d) \in Nat
  BY <1>3, <1>4, <1>5, <1>6, LenProperties
<1>9. \A i \in 1..Len(Before) :
        \/ i \in 1..Len(a) /\ Before[i] = a[i]
        \/ i - Len(a) \in 1..Len(b) /\ Before[i] = b[i - Len(a)]
        \/ i - Len(a) - Len(b) \in 1..Len(c) /\ Before[i] = c[i - Len(a) - Len(b)]
        \/ i - Len(a) - Len(b) - Len(c) \in 1..Len(d)
           /\ Before[i] = d[i - Len(a) - Len(b) - Len(c)]
  <2> SUFFICES ASSUME NEW i \in 1..Len(Before)
               PROVE  \/ i \in 1..Len(a) /\ Before[i] = a[i]
                      \/ i - Len(a) \in 1..Len(b) /\ Before[i] = b[i - Len(a)]
                      \/ i - Len(a) - Len(b) \in 1..Len(c)
                         /\ Before[i] = c[i - Len(a) - Len(b)]
                      \/ i - Len(a) - Len(b) - Len(c) \in 1..Len(d)
                         /\ Before[i] = d[i - Len(a) - Len(b) - Len(c)]
    OBVIOUS
  <2>1. CASE i <= Len(a)
    BY <1>7, <1>8, <2>1
  <2>2. CASE Len(a) < i /\ i <= Len(a) + Len(b)
    <3> DEFINE j == i - Len(a)
    <3>1. j \in 1..Len(b) /\ i = Len(a) + j
      BY <1>8, <2>2
    <3> HIDE DEF j
    <3>2. QED
      BY <1>7, <1>8, <3>1 DEF j
  <2>3. CASE Len(a) + Len(b) < i /\ i <= Len(a) + Len(b) + Len(c)
    <3> DEFINE j == i - Len(a) - Len(b)
    <3>1. j \in 1..Len(c) /\ i = Len(a) + Len(b) + j
      BY <1>8, <2>3
    <3> HIDE DEF j
    <3>2. QED
      BY <1>7, <1>8, <3>1 DEF j
  <2>4. CASE Len(a) + Len(b) + Len(c) < i
    <3> DEFINE j == i - Len(a) - Len(b) - Len(c)
    <3>1. j \in 1..Len(d) /\ i = Len(a) + Len(b) + Len(c) + j
      BY <1>7, <1>8, <2>4
    <3> HIDE DEF j
    <3>2. QED
      BY <1>7, <1>8, <3>1 DEF j
  <2>5. QED
    BY <1>8, <2>1, <2>2, <2>3, <2>4
<1>10. \A i \in 1..Len(Before) :
         /\ Before[i].kind = "observability" => i \in 1..Len(a)
         /\ Before[i].kind = "authentication" => i = Len(a) + Len(b) + 1
         /\ Before[i].kind = "plugin" => i > Len(a) + Len(b) + Len(c)
         /\ Before[i].kind = "authentication" => Len(c) = 2
  <2> SUFFICES ASSUME NEW i \in 1..Len(Before)
               PROVE  /\ Before[i].kind = "observability" => i \in 1..Len(a)
                      /\ Before[i].kind = "authentication" => i = Len(a) + Len(b) + 1
                      /\ Before[i].kind = "plugin" => i > Len(a) + Len(b) + Len(c)
                      /\ Before[i].kind = "authentication" => Len(c) = 2
    OBVIOUS
  <2>1. CASE i \in 1..Len(a) /\ Before[i] = a[i]
    <3>1. Before[i].kind \in {"observability", "disabled"}
      BY <1>3, <1>8, <2>1
    <3>2. QED
      BY <2>1, <3>1
  <2>2. CASE i - Len(a) \in 1..Len(b) /\ Before[i] = b[i - Len(a)]
    <3>1. Before[i].kind \in {"session", "disabled"}
      BY <1>3, <1>4, <1>8, <2>2
    <3>2. QED
      BY <3>1
  <2>3. CASE i - Len(a) - Len(b) \in 1..Len(c) /\ Before[i] = c[i - Len(a) - Len(b)]
    <3>1. i - Len(a) - Len(b) = 1 \/ i - Len(a) - Len(b) = 2
      BY <1>1, <1>5, <1>8, <2>3, SMTT(60)
    <3>2. Len(c) = 2 /\ c[1].kind = "authentication" /\ c[2].kind = "authorization"
      BY <1>1, <1>5, <1>8, <2>3, SMTT(60)
    <3>3. QED
      BY <1>8, <2>3, <3>1, <3>2
  <2>4. CASE i - Len(a) - Len(b) - Len(c) \in 1..Len(d)
             /\ Before[i] = d[i - Len(a) - Len(b) - Len(c)]
    <3>1. Before[i].kind = "plugin"
      BY <1>6, <2>4
    <3>2. i > Len(a) + Len(b) + Len(c)
      BY <1>8, <2>4
    <3>3. QED
      BY <3>1, <3>2
  <2>5. QED
    BY <1>9, <2>1, <2>2, <2>3, <2>4
<1>11. config.observability = "enabled" =>
         /\ Len(Before) >= 1 /\ Before[1].kind = "observability"
         /\ \A p \in 2..Len(Before) : Before[p].kind # "observability"
  <2> SUFFICES ASSUME config.observability = "enabled"
               PROVE  /\ Len(Before) >= 1 /\ Before[1].kind = "observability"
                      /\ \A p \in 2..Len(Before) : Before[p].kind # "observability"
    OBVIOUS
  <2>1. Len(a) = 1 /\ a[1].kind = "observability" /\ 1 \in 1..Len(a)
    BY <1>3
  <2>2. Before[1] = a[1]
    BY <1>7, <2>1, Zenon
  <2>3. Len(Before) >= 1
    BY <1>7, <1>8, <2>1
  <2>4. \A p \in 2..Len(Before) : p \in 1..Len(Before) /\ p \notin 1..Len(a)
    BY <2>1
  <2>5. QED
    BY <1>10, <2>1, <2>2, <2>3, <2>4
<1>12. config.auth # "none" => \E p \in 1..Len(Before) : Before[p].kind = "authentication"
  <2> SUFFICES ASSUME config.auth # "none"
               PROVE  \E p \in 1..Len(Before) : Before[p].kind = "authentication"
    OBVIOUS
  <2>1. /\ Len(a) + Len(b) + 1 \in 1..Len(Before)
        /\ Before[Len(a) + Len(b) + 1] = c[1]
    <3>0. Len(c) = 2
      BY <1>5, Zenon
    <3>1. Len(c) = 2 /\ 1 \in 1..Len(c)
      BY <3>0
    <3>2. Before[Len(a) + Len(b) + 1] = c[1]
      BY <1>7, <3>1, Zenon
    <3>3. Len(Before) = Len(a) + Len(b) + Len(c) + Len(d)
      BY <1>7
    <3>4. Len(a) + Len(b) + 1 \in 1..Len(Before)
      BY <1>8, <3>1, <3>3
    <3>5. QED
      BY <3>2, <3>4
  <2>2. QED
    BY <1>5, <2>1
<1>13. \A p, q \in 1..Len(Before) :
         Before[p].kind = "plugin" /\ Before[q].kind = "authentication" => q < p
  BY <1>8, <1>10
<1>14. QED
  BY <1>7, <1>11, <1>12, <1>13, Zenon DEF BeforeShape

LEMMA HooksType == After \in Seq(DOMAIN Plugins) /\ Handlers \in Seq(DOMAIN Plugins)
BY PluginsWithType DEF After, Handlers

-----------------------------------------------------------------------------
(* Types.  How far a call may get at each stage, and what travels with it. *)

Stages == {"idle", "down", "up", "raising", "after", "handling", "done"}
Outcomes == {"none"} \cup Exceptions \cup Responses

Furthest(s) ==
  CASE s = "down" -> Len(Before) + 1
    [] s \in {"up", "raising"} -> Len(Before)
    [] s = "after" -> Len(After)
    [] s = "handling" -> Len(Handlers) + 1
    [] OTHER -> 0

Carried(s) ==
  CASE s \in {"idle", "down"} -> {"none"}
    [] s \in {"raising", "handling"} -> Exceptions
    [] OTHER -> Responses

WhereOK ==
  /\ stage \in [Calls -> Stages] /\ at \in [Calls -> Nat] /\ outcome \in [Calls -> Outcomes]
  /\ \A c \in Calls : at[c] \in 0..Furthest(stage[c]) /\ outcome[c] \in Carried(stage[c])

HeldOK ==
  /\ config \in Configs
  /\ tool \in [Calls -> Tools]
  /\ identity \in [Calls -> Identities \cup {NoOne}]
  /\ caught \in [Calls -> SUBSET Exceptions]
  /\ ran \in [Calls -> BOOLEAN]

ToldOK ==
  /\ logged \in [Calls -> Seq({"success", "error"})]
  /\ trail \in [Calls -> Seq([hook : {"after", "on_exception"}, plugin : DOMAIN Plugins])]

PipelineOK == WhereOK /\ HeldOK /\ ToldOK

LEMMA PipelineTypes == PipelineOK => TypeOK
<1> SUFFICES ASSUME PipelineOK PROVE TypeOK
  OBVIOUS
<1>1. \A c \in Calls :
        /\ at[c] \in 0..CASE stage[c] = "down" -> Len(Before) + 1
                          [] stage[c] \in {"up", "raising"} -> Len(Before)
                          [] stage[c] = "after" -> Len(After)
                          [] stage[c] = "handling" -> Len(Handlers) + 1
                          [] OTHER -> 0
        /\ outcome[c] \in CASE stage[c] \in {"idle", "down"} -> {"none"}
                            [] stage[c] \in {"raising", "handling"} -> Exceptions
                            [] OTHER -> Responses
  BY Zenon DEF PipelineOK, WhereOK, Furthest, Carried
<1>2. QED
  BY <1>1, Zenon DEF PipelineOK, WhereOK, HeldOK, ToldOK, TypeOK, Stages

LEMMA Limits ==
  ASSUME config \in Configs
  PROVE  /\ Len(Before) \in Nat /\ Len(After) \in Nat /\ Len(Handlers) \in Nat
         /\ DOMAIN Before = 1..Len(Before) /\ DOMAIN After = 1..Len(After)
         /\ DOMAIN Handlers = 1..Len(Handlers)
<1>1. Before \in Seq(Frames)
  BY ChainShape DEF BeforeShape
<1>2. QED
  BY <1>1, HooksType, LenProperties

LEMMA FurthestValues ==
  /\ Furthest("down") = Len(Before) + 1
  /\ Furthest("up") = Len(Before) /\ Furthest("raising") = Len(Before)
  /\ Furthest("after") = Len(After) /\ Furthest("handling") = Len(Handlers) + 1
  /\ Furthest("idle") = 0 /\ Furthest("done") = 0
  /\ Carried("idle") = {"none"} /\ Carried("down") = {"none"}
  /\ Carried("raising") = Exceptions /\ Carried("handling") = Exceptions
  /\ Carried("up") = Responses /\ Carried("after") = Responses
  /\ Carried("done") = Responses
BY DEF Furthest, Carried

LEMMA SameChain ==
  ASSUME config' = config
  PROVE  /\ Before' = Before /\ After' = After /\ Handlers' = Handlers
         /\ \A s : Furthest(s)' = Furthest(s)
<1>1. Before' = Before
  BY DEF Before, PluginsWith, Named
<1>2. After' = After /\ Handlers' = Handlers
  BY DEF After, Handlers, PluginsWith, Named
<1>3. QED
  BY <1>1, <1>2, Zenon DEF Furthest

(* A call moves to where it may be, with what may travel there.            *)
LEMMA MoveTypes ==
  ASSUME WhereOK, config \in Configs, config' = config, NEW c \in Calls,
         NEW s \in Stages, NEW n \in 0..Furthest(s), NEW what \in Carried(s),
         Move(c, s, n, what)
  PROVE  /\ WhereOK'
         /\ stage'[c] = s /\ at'[c] = n
         /\ \A d \in Calls \ {c} : stage'[d] = stage[d] /\ at'[d] = at[d]
<1>1. n \in Nat
  OBVIOUS
<1>2. what \in Outcomes
  BY Zenon DEF Carried, Outcomes
<1>3. /\ stage' = [stage EXCEPT ![c] = s] /\ at' = [at EXCEPT ![c] = n]
      /\ outcome' = [outcome EXCEPT ![c] = what]
  BY DEF Move
<1>4. /\ stage' \in [Calls -> Stages] /\ at' \in [Calls -> Nat]
      /\ outcome' \in [Calls -> Outcomes]
  BY <1>1, <1>2, <1>3, Zenon DEF WhereOK
<1>5. /\ stage'[c] = s /\ at'[c] = n /\ outcome'[c] = what
      /\ \A d \in Calls \ {c} :
           stage'[d] = stage[d] /\ at'[d] = at[d] /\ outcome'[d] = outcome[d]
  BY <1>3, Zenon DEF WhereOK
<1>6. Before' = Before /\ After' = After /\ Handlers' = Handlers
  BY SameChain
<1>7. ASSUME NEW d \in Calls
      PROVE  at'[d] \in 0..Furthest(stage[d])' /\ outcome'[d] \in Carried(stage[d])'
  <2>1. CASE d = c
    BY <1>5, <1>6, <2>1 DEF Furthest, Carried
  <2>2. CASE d # c
    <3>1. at[d] \in 0..Furthest(stage[d]) /\ outcome[d] \in Carried(stage[d])
      BY DEF WhereOK
    <3>2. QED
      BY <1>5, <1>6, <2>2, <3>1 DEF Furthest, Carried
  <2>3. QED
    BY <2>1, <2>2
<1>8. QED
  BY <1>4, <1>5, <1>7, Zenon DEF WhereOK

-----------------------------------------------------------------------------
(* What the steps of a call have in common: a frame that passes it on; the *)
(* point where it turns back, at a frame or at the tool; a frame on the way*)
(* back; and whatever comes after the chain.                               *)

BackTo(c, n) ==
  \/ \E what \in Responses : Move(c, "up", n, what)
  \/ \E what \in Exceptions : Move(c, "raising", n, what)

Inward(c) ==
  /\ stage[c] = "down" /\ at[c] \in 1..Len(Before)
  /\ Move(c, "down", at[c] + 1, "none")
  /\ \/ UNCHANGED identity /\ Before[at[c]].kind # "authentication"
     \/ /\ Before[at[c]].kind = "authentication"
        /\ \E who \in Identities : identity' = [identity EXCEPT ![c] = who]
  /\ UNCHANGED <<config, tool, ran, logged, trail>>

Turn(c) ==
  /\ stage[c] = "down" /\ at[c] \in 1..Len(Before) + 1
  /\ BackTo(c, at[c] - 1)
  /\ \/ at[c] \in 1..Len(Before) /\ Before[at[c]].kind # "observability" /\ UNCHANGED ran
     \/ at[c] = Len(Before) + 1 /\ ran' = [ran EXCEPT ![c] = TRUE]
  /\ UNCHANGED <<config, tool, identity, logged, trail>>

Back(c) ==
  /\ stage[c] \in {"up", "raising"} /\ at[c] \in 1..Len(Before)
  /\ BackTo(c, at[c] - 1)
  /\ \/ /\ Before[at[c]].kind = "observability"
        /\ \E status \in {"success", "error"} :
             logged' = [logged EXCEPT ![c] = Append(logged[c], status)]
     \/ Before[at[c]].kind # "observability" /\ UNCHANGED logged
  /\ UNCHANGED <<config, tool, identity, ran, trail>>

Around(c) ==
  /\ LeaveChain(c) \/ AfterHook(c) \/ Handle(c) \/ Finish(c) \/ Answer(c)
  /\ UNCHANGED <<config, tool, identity, ran, logged>>

LEMMA StepClasses ==
  ASSUME PipelineOK, NEW c \in Calls, Step(c)
  PROVE  Inward(c) \/ Turn(c) \/ Back(c) \/ Around(c)
<1>1. /\ DOMAIN Before = 1..Len(Before) /\ Len(Before) \in Nat
  BY Limits DEF PipelineOK, HeldOK
<1>2. outcome[c] \in Carried(stage[c])
  BY DEF PipelineOK, WhereOK
<1>3. ASSUME stage[c] \in {"up", "raising"} PROVE
        /\ stage[c] = "up" => outcome[c] \in Responses
        /\ stage[c] = "raising" => outcome[c] \in Exceptions
  BY <1>2, FurthestValues
<1>4. CASE Enter(c)
  BY <1>1, <1>4 DEF Enter, In, Descend, Inward
<1>5. CASE Authenticate(c)
  BY <1>1, <1>5 DEF Authenticate, In, Descend, Inward
<1>6. CASE Refuse(c)
  <2>1. "error" \in Responses
    BY DEF Responses
  <2>2. QED
    BY <1>1, <1>6, <2>1 DEF Refuse, In, Respond, Turn, BackTo
<1>7. CASE AuthenticationRaises(c)
  <2>1. "other" \in Exceptions
    BY DEF Exceptions
  <2>2. QED
    BY <1>1, <1>7, <2>1 DEF AuthenticationRaises, In, Raise, Turn, BackTo
<1>8. CASE Authorize(c)
  <2>1. "error" \in Responses
    BY DEF Responses
  <2>2. CASE Allowed(identity[c], KnownPolicies(tool[c]))
    BY <1>1, <1>8, <2>2 DEF Authorize, In, Descend, Inward
  <2>3. CASE ~Allowed(identity[c], KnownPolicies(tool[c]))
    BY <1>1, <1>8, <2>1, <2>3 DEF Authorize, In, Respond, Turn, BackTo
  <2>4. QED
    BY <2>2, <2>3
<1>9. CASE BeforeHook(c)
  <2>1. CASE Descend(c)
    BY <1>1, <1>9, <2>1 DEF BeforeHook, In, Descend, Inward
  <2>2. CASE ~Descend(c)
    BY <1>1, <1>9, <2>2 DEF BeforeHook, In, Respond, Raise, Turn, BackTo
  <2>3. QED
    BY <2>1, <2>2
<1>10. CASE RunTool(c)
  <2>1. "result" \in Responses /\ "other" \in Exceptions
    BY DEF Responses, Exceptions
  <2>2. QED
    BY <1>1, <1>10, <2>1 DEF RunTool, Respond, Raise, Turn, BackTo
<1>11. CASE Log(c)
  <2>1. BackTo(c, at[c] - 1)
    BY <1>3, <1>11 DEF Log, In, BackTo
  <2>2. \E status \in {"success", "error"} :
          logged' = [logged EXCEPT ![c] = Append(logged[c], status)]
    BY <1>11 DEF Log
  <2>3. QED
    BY <1>1, <1>11, <2>1, <2>2 DEF Log, In, Back
<1>12. CASE PassBack(c)
  <2>1. BackTo(c, at[c] - 1)
    BY <1>3, <1>12 DEF PassBack, In, BackTo
  <2>2. QED
    BY <1>1, <1>12, <2>1 DEF PassBack, In, Back
<1>13. CASE Catch(c)
  <2>1. "error" \in Responses
    BY DEF Responses
  <2>2. QED
    BY <1>1, <1>13, <2>1 DEF Catch, In, Respond, Back, BackTo
<1>14. CASE BackInHook(c)
  BY <1>1, <1>14 DEF BackInHook, In, Respond, Raise, Back, BackTo
<1>15. CASE LeaveChain(c) \/ AfterHook(c) \/ Handle(c) \/ Finish(c) \/ Answer(c)
  BY <1>15 DEF LeaveChain, AfterHook, Handle, Finish, Answer, Around
<1>16. QED
  BY <1>4, <1>5, <1>6, <1>7, <1>8, <1>9, <1>10, <1>11, <1>12, <1>13, <1>14, <1>15 DEF Step

Event == [hook : {"after", "on_exception"}, plugin : DOMAIN Plugins]

LEMMA BackToTypes ==
  ASSUME PipelineOK, NEW c \in Calls, NEW n \in 0..Len(Before), BackTo(c, n), config' = config
  PROVE  /\ WhereOK' /\ stage'[c] \in {"up", "raising"} /\ at'[c] = n
         /\ \A d \in Calls \ {c} : stage'[d] = stage[d] /\ at'[d] = at[d]
<1>1. /\ n \in 0..Furthest("up") /\ n \in 0..Furthest("raising")
      /\ "up" \in Stages /\ "raising" \in Stages
      /\ Carried("up") = Responses /\ Carried("raising") = Exceptions
  BY FurthestValues DEF Stages
<1>2. WhereOK /\ config \in Configs
  BY DEF PipelineOK, HeldOK
<1>3. CASE \E what \in Responses : Move(c, "up", n, what)
  <2>1. PICK what \in Carried("up") : Move(c, "up", n, what)
    BY <1>1, <1>3
  <2>2. QED
    BY <1>1, <1>2, <2>1, MoveTypes
<1>4. CASE \E what \in Exceptions : Move(c, "raising", n, what)
  <2>1. PICK what \in Carried("raising") : Move(c, "raising", n, what)
    BY <1>1, <1>4
  <2>2. QED
    BY <1>1, <1>2, <2>1, MoveTypes
<1>5. QED
  BY <1>3, <1>4 DEF BackTo

LEMMA InwardTypes ==
  ASSUME PipelineOK, NEW c \in Calls, Inward(c)
  PROVE  /\ WhereOK' /\ stage'[c] = "down" /\ at'[c] = at[c] + 1
         /\ \A d \in Calls \ {c} : stage'[d] = stage[d] /\ at'[d] = at[d]
<1>1. Len(Before) \in Nat /\ config \in Configs /\ WhereOK
  BY Limits DEF PipelineOK, HeldOK
<1>2. at[c] + 1 \in 0..Furthest("down") /\ "none" \in Carried("down") /\ "down" \in Stages
  BY <1>1, FurthestValues DEF Inward, Stages
<1>3. Move(c, "down", at[c] + 1, "none") /\ config' = config
  BY DEF Inward
<1>4. QED
  BY <1>1, <1>2, <1>3, MoveTypes

LEMMA TurnTypes ==
  ASSUME PipelineOK, NEW c \in Calls, Turn(c)
  PROVE  /\ WhereOK' /\ stage'[c] \in {"up", "raising"} /\ at'[c] = at[c] - 1
         /\ \A d \in Calls \ {c} : stage'[d] = stage[d] /\ at'[d] = at[d]
<1>1. Len(Before) \in Nat
  BY Limits DEF PipelineOK, HeldOK
<1>2. at[c] - 1 \in 0..Len(Before) /\ BackTo(c, at[c] - 1) /\ config' = config
  BY <1>1 DEF Turn
<1>3. QED
  BY <1>2, BackToTypes

LEMMA BackTypes ==
  ASSUME PipelineOK, NEW c \in Calls, Back(c)
  PROVE  /\ WhereOK' /\ stage'[c] \in {"up", "raising"} /\ at'[c] = at[c] - 1
         /\ \A d \in Calls \ {c} : stage'[d] = stage[d] /\ at'[d] = at[d]
<1>1. Len(Before) \in Nat
  BY Limits DEF PipelineOK, HeldOK
<1>2. at[c] - 1 \in 0..Len(Before) /\ BackTo(c, at[c] - 1) /\ config' = config
  BY <1>1 DEF Back
<1>3. QED
  BY <1>2, BackToTypes

(* After the chain: where a step goes, and what it puts on the trail.      *)
AroundStep(c) ==
  \/ /\ stage[c] = "up" /\ at[c] = 0 /\ stage'[c] = "after" /\ at'[c] = Len(After)
     /\ UNCHANGED trail
  \/ /\ stage[c] = "raising" /\ at[c] = 0 /\ stage'[c] = "handling" /\ at'[c] = 1
     /\ UNCHANGED trail
  \/ /\ stage[c] = "after" /\ at[c] \in 1..Len(After) /\ Called(c, "after", After[at[c]])
     /\ \/ stage'[c] = "after" /\ at'[c] = at[c] - 1
        \/ stage'[c] = "handling" /\ at'[c] = 1
  \/ /\ stage[c] = "handling" /\ at[c] \in 1..Len(Handlers)
     /\ Called(c, "on_exception", Handlers[at[c]])
     /\ \/ stage'[c] = "handling" /\ at'[c] = at[c] + 1
        \/ stage'[c] = "done" /\ at'[c] = 0
  \/ /\ stage[c] \in {"after", "handling"} /\ stage'[c] = "done" /\ UNCHANGED trail
  \/ /\ stage[c] = "done" /\ stage'[c] = "idle" /\ UNCHANGED trail

LEMMA AroundTypes ==
  ASSUME PipelineOK, NEW c \in Calls, Around(c)
  PROVE  /\ WhereOK' /\ AroundStep(c)
         /\ \A d \in Calls \ {c} : stage'[d] = stage[d] /\ at'[d] = at[d]
<1>1. /\ WhereOK /\ config \in Configs /\ config' = config
      /\ at[c] \in 0..Furthest(stage[c]) /\ outcome[c] \in Carried(stage[c])
  BY DEF PipelineOK, HeldOK, WhereOK, Around
<1>2. /\ Len(After) \in Nat /\ Len(Handlers) \in Nat /\ DOMAIN Handlers = 1..Len(Handlers)
  BY <1>1, Limits
<1>3. \A s \in {"after", "handling", "done", "idle"} : s \in Stages
  BY DEF Stages
<1>4. CASE LeaveChain(c)
  <2>1. CASE stage[c] = "up"
    <3>1. /\ Move(c, "after", Len(After), outcome[c]) /\ UNCHANGED trail /\ at[c] = 0
      BY <1>4, <2>1 DEF LeaveChain
    <3>2. Len(After) \in 0..Furthest("after") /\ outcome[c] \in Carried("after")
      BY <1>1, <1>2, <2>1, FurthestValues
    <3>3. QED
      BY <1>1, <1>3, <2>1, <3>1, <3>2, MoveTypes DEF AroundStep
  <2>2. CASE stage[c] = "raising"
    <3>1. /\ Move(c, "handling", 1, outcome[c]) /\ UNCHANGED trail /\ at[c] = 0
      BY <1>4, <2>2 DEF LeaveChain
    <3>2. 1 \in 0..Furthest("handling") /\ outcome[c] \in Carried("handling")
      BY <1>1, <1>2, <2>2, FurthestValues
    <3>3. QED
      BY <1>1, <1>3, <2>2, <3>1, <3>2, MoveTypes DEF AroundStep
  <2>3. QED
    BY <1>4, <2>1, <2>2 DEF LeaveChain
<1>5. CASE AfterHook(c)
  <2>1. /\ stage[c] = "after" /\ at[c] \in 1..Len(After) /\ Called(c, "after", After[at[c]])
    BY <1>1, <1>2, <1>5, FurthestValues DEF AfterHook
  <2>2. CASE \E what \in Responses : Move(c, "after", at[c] - 1, what)
    <3>1. PICK what \in Carried("after") : Move(c, "after", at[c] - 1, what)
      BY <2>2, FurthestValues
    <3>2. at[c] - 1 \in 0..Furthest("after")
      BY <1>2, <2>1, FurthestValues
    <3>3. QED
      BY <1>1, <1>3, <2>1, <3>1, <3>2, MoveTypes DEF AroundStep
  <2>3. CASE \E what \in Exceptions : Move(c, "handling", 1, what)
    <3>1. PICK what \in Carried("handling") : Move(c, "handling", 1, what)
      BY <2>3, FurthestValues
    <3>2. 1 \in 0..Furthest("handling")
      BY <1>2, FurthestValues
    <3>3. QED
      BY <1>1, <1>3, <2>1, <3>1, <3>2, MoveTypes DEF AroundStep
  <2>4. QED
    BY <1>5, <2>2, <2>3 DEF AfterHook
<1>6. CASE Handle(c)
  <2>1. /\ stage[c] = "handling" /\ at[c] \in 1..Len(Handlers)
        /\ Called(c, "on_exception", Handlers[at[c]])
    BY <1>2, <1>6 DEF Handle
  <2>2. CASE Move(c, "handling", at[c] + 1, outcome[c])
    <3>1. at[c] + 1 \in 0..Furthest("handling") /\ outcome[c] \in Carried("handling")
      BY <1>1, <1>2, <2>1, FurthestValues
    <3>2. QED
      BY <1>1, <1>3, <2>1, <2>2, <3>1, MoveTypes DEF AroundStep
  <2>3. CASE \E what \in Responses : Move(c, "done", 0, what)
    <3>1. PICK what \in Carried("done") : Move(c, "done", 0, what)
      BY <2>3, FurthestValues
    <3>2. 0 \in 0..Furthest("done")
      BY FurthestValues
    <3>3. QED
      BY <1>1, <1>3, <2>1, <3>1, <3>2, MoveTypes DEF AroundStep
  <2>4. QED
    BY <1>6, <2>2, <2>3 DEF Handle
<1>7. CASE Finish(c)
  <2>1. /\ stage[c] \in {"after", "handling"} /\ UNCHANGED trail
        /\ \E what \in Carried("done") : Move(c, "done", 0, what)
    BY <1>1, <1>7, FurthestValues DEF Finish, Responses
  <2>2. 0 \in 0..Furthest("done")
    BY FurthestValues
  <2>3. PICK what \in Carried("done") : Move(c, "done", 0, what)
    BY <2>1
  <2>4. WhereOK' /\ stage'[c] = "done"
        /\ \A d \in Calls \ {c} : stage'[d] = stage[d] /\ at'[d] = at[d]
    BY <1>1, <1>3, <2>2, <2>3, MoveTypes
  <2>5. stage[c] \in {"after", "handling"} /\ UNCHANGED trail
    BY <2>1
  <2>6. AroundStep(c)
    BY <2>4, <2>5, Zenon DEF AroundStep
  <2>7. QED
    BY <2>4, <2>6
<1>8. CASE Answer(c)
  <2>1. 0 \in 0..Furthest("idle") /\ "none" \in Carried("idle")
    BY FurthestValues
  <2>2. /\ stage[c] = "done" /\ UNCHANGED trail /\ Move(c, "idle", 0, "none")
    BY <1>8 DEF Answer
  <2>3. QED
    BY <1>1, <1>3, <2>1, <2>2, MoveTypes DEF AroundStep
<1>9. QED
  BY <1>4, <1>5, <1>6, <1>7, <1>8 DEF Around

LEMMA ArriveTypes ==
  ASSUME PipelineOK, NEW c \in Calls, Arrive(c)
  PROVE  /\ WhereOK' /\ stage'[c] = "down" /\ at'[c] = 1
         /\ \A d \in Calls \ {c} : stage'[d] = stage[d] /\ at'[d] = at[d]
<1>1. /\ WhereOK /\ config \in Configs /\ config' = config /\ Move(c, "down", 1, "none")
  BY DEF PipelineOK, HeldOK, Arrive
<1>2. "down" \in Stages /\ 1 \in 0..Furthest("down") /\ "none" \in Carried("down")
  BY <1>1, Limits, FurthestValues DEF Stages
<1>3. QED
  BY <1>1, <1>2, MoveTypes

LEMMA CancelTypes ==
  ASSUME PipelineOK, NEW c \in Calls, Cancel(c)
  PROVE  /\ WhereOK' /\ stage'[c] = "idle" /\ at'[c] = 0
         /\ \A d \in Calls \ {c} : stage'[d] = stage[d] /\ at'[d] = at[d]
<1>1. /\ WhereOK /\ config \in Configs /\ config' = config /\ Move(c, "idle", 0, "none")
  BY DEF PipelineOK, HeldOK, Cancel
<1>2. "idle" \in Stages /\ 0 \in 0..Furthest("idle") /\ "none" \in Carried("idle")
  BY FurthestValues DEF Stages
<1>3. QED
  BY <1>1, <1>2, MoveTypes

(* A step of a call touches nothing of another one's.                      *)
Touches(c) ==
  /\ config' = config
  /\ \/ UNCHANGED tool
     \/ \E t \in Tools : tool' = [tool EXCEPT ![c] = t]
  /\ \/ UNCHANGED identity
     \/ \E who \in Identities \cup {NoOne} : identity' = [identity EXCEPT ![c] = who]
  /\ \/ UNCHANGED caught
     \/ \E own \in SUBSET Exceptions : caught' = [caught EXCEPT ![c] = own]
  /\ \/ UNCHANGED ran
     \/ \E r \in BOOLEAN : ran' = [ran EXCEPT ![c] = r]

LEMMA StepTouches ==
  ASSUME NEW c \in Calls, Arrive(c) \/ Step(c) \/ Cancel(c)
  PROVE  Touches(c)
<1> USE DEF Touches
<1>1. CASE Arrive(c)
  BY <1>1 DEF Arrive
<1>2. CASE Authenticate(c)
  <2>1. \A own \in {{}, {"provider", "authentication"},
                    {"provider", "authentication", "timeout"}} : own \in SUBSET Exceptions
    BY DEF Exceptions
  <2>2. QED
    BY <1>2, <2>1 DEF Authenticate
<1>3. CASE RunTool(c)
  BY <1>3 DEF RunTool
<1>4. CASE \/ Enter(c) \/ Refuse(c) \/ AuthenticationRaises(c) \/ Authorize(c)
           \/ BeforeHook(c) \/ Log(c) \/ PassBack(c) \/ Catch(c) \/ BackInHook(c)
           \/ LeaveChain(c) \/ AfterHook(c) \/ Handle(c) \/ Finish(c) \/ Answer(c)
           \/ Cancel(c)
  <2>1. UNCHANGED <<config, tool, identity, caught, ran>>
    BY <1>4 DEF Enter, Refuse, AuthenticationRaises, Authorize, BeforeHook, Log, PassBack,
         Catch, BackInHook, LeaveChain, AfterHook, Handle, Finish, Answer, Cancel
  <2>2. QED
    BY <2>1
<1>5. QED
  BY <1>1, <1>2, <1>3, <1>4 DEF Step

LEMMA HeldTypes ==
  ASSUME HeldOK, NEW c \in Calls, Touches(c)
  PROVE  HeldOK'
<1>1. config' \in Configs
  BY DEF HeldOK, Touches
<1>2. tool' \in [Calls -> Tools]
  BY Zenon DEF HeldOK, Touches
<1>3. identity' \in [Calls -> Identities \cup {NoOne}]
  BY Zenon DEF HeldOK, Touches
<1>4. caught' \in [Calls -> SUBSET Exceptions]
  BY DEF HeldOK, Touches
<1>5. ran' \in [Calls -> BOOLEAN]
  BY Zenon DEF HeldOK, Touches
<1>6. QED
  BY <1>1, <1>2, <1>3, <1>4, <1>5, Zenon DEF HeldOK

(* A log entry more, or none, or a new log; and likewise the trail.        *)
Entry(c) ==
  \/ UNCHANGED logged
  \/ logged' = [logged EXCEPT ![c] = <<>>]
  \/ \E status \in {"success", "error"} :
       logged' = [logged EXCEPT ![c] = Append(logged[c], status)]

Mark(c) ==
  \/ UNCHANGED trail
  \/ trail' = [trail EXCEPT ![c] = <<>>]
  \/ \E e \in Event : trail' = [trail EXCEPT ![c] = Append(trail[c], e)]

LEMMA ToldTypes ==
  ASSUME ToldOK, NEW c \in Calls, Entry(c), Mark(c)
  PROVE  ToldOK'
<1>1. logged[c] \in Seq({"success", "error"}) /\ trail[c] \in Seq(Event)
  BY DEF ToldOK, Event
<1>2. /\ \A status \in {"success", "error"} :
           Append(logged[c], status) \in Seq({"success", "error"})
      /\ \A e \in Event : Append(trail[c], e) \in Seq(Event)
      /\ <<>> \in Seq({"success", "error"}) /\ <<>> \in Seq(Event)
  BY <1>1, AppendProperties, EmptySeq
<1>3. logged' \in [Calls -> Seq({"success", "error"})]
  BY <1>2, Zenon DEF ToldOK, Entry
<1>4. trail' \in [Calls -> Seq(Event)]
  BY <1>2, Zenon DEF ToldOK, Mark, Event
<1>5. QED
  BY <1>3, <1>4 DEF ToldOK, Event

LEMMA EntryMark ==
  ASSUME PipelineOK, NEW c \in Calls, Arrive(c) \/ Step(c) \/ Cancel(c)
  PROVE  Entry(c) /\ Mark(c)
<1>1. CASE Arrive(c)
  BY <1>1 DEF Arrive, Entry, Mark
<1>2. CASE Cancel(c)
  <2>1. Entry(c)
    <3> DEFINE open == /\ stage[c] \in {"down", "up", "raising"}
                       /\ config.observability = "enabled"
                       /\ at[c] >= IF stage[c] = "down" THEN 2 ELSE 1
    <3>1. logged' = [logged EXCEPT ![c] =
                       IF open THEN Append(logged[c], "success") ELSE logged[c]]
      BY <1>2, Zenon DEF Cancel
    <3>2. [logged EXCEPT ![c] = logged[c]] = logged
      BY DEF PipelineOK, ToldOK
    <3> HIDE DEF open
    <3>3. QED
      BY <3>1, <3>2 DEF Entry
  <2>2. Mark(c)
    BY <1>2 DEF Cancel, Mark
  <2>3. QED
    BY <2>1, <2>2
<1>3. CASE Step(c)
  <2>1. CASE Inward(c) \/ Turn(c)
    BY <2>1 DEF Inward, Turn, Entry, Mark
  <2>2. CASE Back(c)
    BY <2>2 DEF Back, Entry, Mark
  <2>3. CASE Around(c)
    <3>1. AroundStep(c)
      BY <2>3, AroundTypes
    <3>2. /\ \A n \in 1..Len(After) : After[n] \in DOMAIN Plugins
          /\ \A n \in 1..Len(Handlers) : Handlers[n] \in DOMAIN Plugins
      BY HooksType, ElementOfSeq
    <3>3. /\ \A n \in 1..Len(After) : [hook |-> "after", plugin |-> After[n]] \in Event
          /\ \A n \in 1..Len(Handlers) :
               [hook |-> "on_exception", plugin |-> Handlers[n]] \in Event
      BY <3>2 DEF Event
    <3>4. Mark(c)
      BY <3>1, <3>3 DEF AroundStep, Called, Mark
    <3>5. Entry(c)
      BY <2>3 DEF Around, Entry
    <3>6. QED
      BY <3>4, <3>5
  <2>4. QED
    BY <1>3, <2>1, <2>2, <2>3, StepClasses
<1>4. QED
  BY <1>1, <1>2, <1>3

LEMMA PipelineStep ==
  ASSUME PipelineOK, NEW c \in Calls, Arrive(c) \/ Step(c) \/ Cancel(c)
  PROVE  PipelineOK'
<1>1. WhereOK'
  BY ArriveTypes, CancelTypes, StepClasses, InwardTypes, TurnTypes, BackTypes, AroundTypes
<1>2. HeldOK'
  BY StepTouches, HeldTypes DEF PipelineOK
<1>3. ToldOK'
  BY EntryMark, ToldTypes DEF PipelineOK
<1>4. QED
  BY <1>1, <1>2, <1>3 DEF PipelineOK

LEMMA PipelineInit == Init => PipelineOK
<1> SUFFICES ASSUME Init PROVE PipelineOK
  OBVIOUS
<1>1. WhereOK
  <2>1. /\ stage \in [Calls -> Stages] /\ at \in [Calls -> Nat] /\ outcome \in [Calls -> Outcomes]
    BY DEF Init, Stages, Outcomes
  <2>2. \A c \in Calls : stage[c] = "idle" /\ at[c] = 0 /\ outcome[c] = "none"
    BY DEF Init
  <2>3. QED
    BY <2>1, <2>2, FurthestValues DEF WhereOK
<1>2. HeldOK
  <2>1. /\ config \in Configs /\ tool \in [Calls -> Tools]
        /\ identity \in [Calls -> Identities \cup {NoOne}]
        /\ ran \in [Calls -> BOOLEAN]
    BY Zenon DEF Init
  <2>2. caught \in [Calls -> SUBSET Exceptions]
    BY DEF Init
  <2>3. QED
    BY <2>1, <2>2 DEF HeldOK
<1>3. ToldOK
  BY EmptySeq DEF Init, ToldOK
<1>4. QED
  BY <1>1, <1>2, <1>3 DEF PipelineOK

(* The startup.  A plugin at a time, so that there are never more than the *)
(* file names and use() adds.                                              *)
StartupOK ==
  /\ phase \in Phases /\ found \in BOOLEAN /\ bridge \in BOOLEAN
  /\ registered \in 0..(Len(Plugins) + MaxUsed) /\ wired \in 0..Len(Plugins)

LEMMA RefsLength == Len(Plugins) \in Nat /\ Len(Refs) \in 0..Len(Plugins)
BY PluginAssumption DEF Refs, Named

LEMMA StartupStep ==
  ASSUME StartupOK, Startup
  PROVE  StartupOK'
<1>0. Len(Plugins) \in Nat /\ Len(Refs) \in 0..Len(Plugins) /\ MaxUsed \in Nat
  BY RefsLength, UsedAssumption
<1>1. registered' \in 0..(Len(Plugins) + MaxUsed)
  BY <1>0 DEF StartupOK, Startup, LoadConfig, LoadPlugin, BuildPipeline, AddBridge, Use, Stop,
       Fail, TLSContextFails
<1>2. wired' \in 0..Len(Plugins)
  BY <1>0 DEF StartupOK, Startup, LoadConfig, LoadPlugin, BuildPipeline, AddBridge, Use, Stop,
       Fail, TLSContextFails
<1>3. phase' \in Phases
  BY DEF StartupOK, Phases, Startup, LoadConfig, LoadPlugin, BuildPipeline, AddBridge, Use,
       Stop, Fail, TLSContextFails
<1>4. found' \in BOOLEAN
  BY Zenon DEF StartupOK, Startup, LoadConfig, LoadPlugin, BuildPipeline, AddBridge, Use, Stop,
       Fail, TLSContextFails
<1>5. bridge' \in BOOLEAN
  <2>1. UNCHANGED bridge \/ bridge' = ~Passthrough \/ bridge' = FALSE
    BY Zenon DEF StartupOK, Startup, LoadConfig, LoadPlugin, BuildPipeline, AddBridge, Use,
         Stop, Fail, TLSContextFails
  <2>2. QED
    BY <2>1, Zenon DEF StartupOK
<1>6. QED
  BY <1>1, <1>2, <1>3, <1>4, <1>5 DEF StartupOK

ServerOK == PipelineOK /\ StartupOK

LEMMA ServerOKStep == ServerOK /\ [ServerNext]_serverVars => ServerOK'
<1> SUFFICES ASSUME ServerOK, [ServerNext]_serverVars PROVE ServerOK'
  OBVIOUS
<1>1. CASE UNCHANGED vars
  <2>1. PipelineOK'
    <3>1. /\ UNCHANGED <<config, stage, at, tool, identity, caught, outcome>>
          /\ UNCHANGED <<ran, logged, trail>>
      BY <1>1 DEF vars, callVars
    <3>2. Before' = Before /\ After' = After /\ Handlers' = Handlers
      BY <3>1, SameChain
    <3>3. QED
      BY <3>1, <3>2 DEF ServerOK, PipelineOK, WhereOK, HeldOK, ToldOK, Furthest, Carried
  <2>2. StartupOK'
    BY StartupStep DEF ServerOK, StartupOK, ServerNext, Serve, serverVars, startupVars
  <2>3. QED
    BY <2>1, <2>2 DEF ServerOK
<1>2. CASE Serve
  <2>1. PipelineOK'
    BY <1>2, PipelineStep DEF ServerOK, Serve, Next
  <2>2. StartupOK'
    BY <1>2 DEF Serve, startupVars, ServerOK, StartupOK
  <2>3. QED
    BY <2>1, <2>2 DEF ServerOK
<1>3. QED
  BY <1>1, <1>2 DEF ServerNext, Startup, serverVars

LEMMA ServerOKInvariant == ServerSpec => []ServerOK
<1>1. ServerInit => ServerOK
  <2> SUFFICES ASSUME ServerInit PROVE ServerOK
    OBVIOUS
  <2>1. registered \in 0..(Len(Plugins) + MaxUsed) /\ wired \in 0..Len(Plugins)
    BY RefsLength, UsedAssumption DEF ServerInit
  <2>2. StartupOK
    BY <2>1, Zenon DEF ServerInit, StartupOK, Phases
  <2>3. QED
    BY <2>2, PipelineInit DEF ServerInit, ServerOK
<1>2. QED
  BY <1>1, ServerOKStep, PTL DEF ServerSpec

(* FastAuthMCP, MiddlewarePipeline: every state of the server, and of every*)
(* call in it, is of the types; a call is in a frame or at a hook that     *)
(* there is, and carries nothing, a response or an exception, as its stage *)
(* says.                                                                   *)
THEOREM TypeInvariant == ServerSpec => []ServerTypeOK
<1>1. ServerOK => ServerTypeOK
  BY PipelineTypes DEF ServerOK, StartupOK, ServerTypeOK
<1>2. QED
  BY <1>1, ServerOKInvariant, PTL

-----------------------------------------------------------------------------
(* Identified, logged, in order.                                           *)
(* Whatever is past the authentication frame, or has been at the tool, has *)
(* an identity; and what is still on its way in has not been at the tool.  *)
IdentifiedInv(c) ==
  /\ stage[c] = "down" => ~ran[c]
  /\ stage[c] \in {"down", "up", "raising"}
     /\ (\E p \in 1..Len(Before) : p < at[c] /\ Before[p].kind = "authentication") =>
       identity[c] # NoOne
  /\ ran[c] /\ config.auth # "none" => identity[c] # NoOne

(* The log entry is there exactly from when the call has left the frame.   *)
LoggedInv(c) ==
  config.observability = "enabled" =>
    Len(logged[c]) \in
      CASE stage[c] = "down" \/ (stage[c] \in {"up", "raising"} /\ at[c] > 0) -> {0}
        [] stage[c] = "idle" -> {0, 1}
        [] OTHER -> {1}

AfterEvents == Events("after", Backwards(After))
HandlerEvents == Events("on_exception", Handlers)
Trail(n, m) == SubSeq(AfterEvents, 1, n) \o SubSeq(HandlerEvents, 1, m)

(* How far the hooks are is how much of the trail there is.                *)
TrailInv(c) ==
  /\ stage[c] \in {"down", "up", "raising"} => trail[c] = <<>>
  /\ stage[c] = "after" => trail[c] = SubSeq(AfterEvents, 1, Len(After) - at[c])
  /\ stage[c] = "handling" =>
       at[c] >= 1 /\ \E n \in 0..Len(After) : trail[c] = Trail(n, at[c] - 1)
  /\ \E n \in 0..Len(After), m \in 0..Len(Handlers) : trail[c] = Trail(n, m)

CallInv(c) == IdentifiedInv(c) /\ LoggedInv(c) /\ TrailInv(c)

(* Another call is as it was.                                              *)
LEMMA OtherCalls ==
  ASSUME PipelineOK, NEW c \in Calls, Arrive(c) \/ Step(c) \/ Cancel(c),
         NEW d \in Calls \ {c}, CallInv(d)
  PROVE  CallInv(d)'
<1>1. stage'[d] = stage[d] /\ at'[d] = at[d]
  BY SMTT(60), ArriveTypes, CancelTypes, StepClasses, InwardTypes, TurnTypes, BackTypes,
     AroundTypes
<1>2. /\ tool'[d] = tool[d] /\ identity'[d] = identity[d] /\ ran'[d] = ran[d]
      /\ config' = config
  <2>1. Touches(c) /\ HeldOK
    BY StepTouches DEF PipelineOK
  <2>2. tool'[d] = tool[d]
    BY <2>1, Zenon DEF HeldOK, Touches
  <2>3. identity'[d] = identity[d]
    BY <2>1, Zenon DEF HeldOK, Touches
  <2>4. ran'[d] = ran[d]
    BY <2>1, Zenon DEF HeldOK, Touches
  <2>5. QED
    BY <2>1, <2>2, <2>3, <2>4 DEF Touches
<1>3. logged'[d] = logged[d] /\ trail'[d] = trail[d]
  BY EntryMark, ZenonT(60) DEF PipelineOK, ToldOK, Entry, Mark
<1>4. Before' = Before /\ After' = After /\ Handlers' = Handlers
  BY <1>2, SameChain
<1>5. IdentifiedInv(d)'
  BY <1>1, <1>2, <1>4 DEF CallInv, IdentifiedInv
<1>6. LoggedInv(d)'
  BY <1>1, <1>2, <1>3 DEF CallInv, LoggedInv
<1>7. TrailInv(d)'
  BY <1>1, <1>3, <1>4, Zenon DEF CallInv, TrailInv, Trail, AfterEvents, HandlerEvents, Backwards
<1>8. QED
  BY <1>5, <1>6, <1>7 DEF CallInv

(* Authentication.                                                         *)
LEMMA IdentifiedStep ==
  ASSUME PipelineOK, NEW c \in Calls, Arrive(c) \/ Step(c) \/ Cancel(c), IdentifiedInv(c)
  PROVE  IdentifiedInv(c)'
<1>1. /\ config' = config /\ Before' = Before /\ BeforeShape /\ Len(Before) \in Nat
      /\ at[c] \in Nat /\ identity \in [Calls -> Identities \cup {NoOne}]
  BY StepTouches, SameChain, ChainShape, Limits DEF Touches, PipelineOK, HeldOK, WhereOK
<1>2. CASE Arrive(c)
  <2>1. ran'[c] = FALSE
    BY <1>2 DEF Arrive, PipelineOK, HeldOK
  <2>2. stage'[c] = "down" /\ at'[c] = 1
    BY <1>2, ArriveTypes
  <2>3. QED
    BY <1>1, <2>1, <2>2 DEF IdentifiedInv
<1>3. CASE Inward(c)
  <2>1. /\ stage[c] = "down" /\ at[c] \in 1..Len(Before) /\ stage'[c] = "down"
        /\ at'[c] = at[c] + 1 /\ ran'[c] = ran[c]
    BY <1>3, InwardTypes DEF Inward
  <2>2. ASSUME NEW p \in 1..Len(Before), p < at[c] + 1, Before[p].kind = "authentication"
        PROVE  identity'[c] # NoOne
    <3>1. CASE Before[at[c]].kind = "authentication"
      BY <1>1, <1>3, <3>1, IdentityAssumption DEF Inward
    <3>2. CASE Before[at[c]].kind # "authentication"
      <4>1. p < at[c] /\ identity' = identity
        BY <1>1, <1>3, <2>1, <2>2, <3>2 DEF Inward
      <4>2. QED
        BY <2>1, <2>2, <4>1 DEF IdentifiedInv
    <3>3. QED
      BY <3>1, <3>2
  <2>3. QED
    BY <1>1, <2>1, <2>2 DEF IdentifiedInv
<1>4. CASE Turn(c)
  <2>1. /\ stage[c] = "down" /\ stage'[c] \in {"up", "raising"} /\ at'[c] = at[c] - 1
        /\ identity'[c] = identity[c]
    BY <1>4, TurnTypes DEF Turn
  <2>2. ran'[c] /\ config.auth # "none" => identity[c] # NoOne
    <3>1. CASE at[c] = Len(Before) + 1
      <4> SUFFICES ASSUME config.auth # "none" PROVE identity[c] # NoOne
        OBVIOUS
      <4>1. PICK p \in 1..Len(Before) : Before[p].kind = "authentication"
        BY <1>1 DEF BeforeShape
      <4>2. QED
        BY <1>1, <2>1, <3>1, <4>1 DEF IdentifiedInv
    <3>2. CASE at[c] # Len(Before) + 1
      BY <1>4, <2>1, <3>2 DEF Turn, IdentifiedInv
    <3>3. QED
      BY <3>1, <3>2
  <2>3. \A p \in 1..Len(Before) : p < at[c] - 1 => p < at[c]
    BY <1>1
  <2>4. QED
    BY <1>1, <2>1, <2>2, <2>3 DEF IdentifiedInv
<1>5. CASE Back(c)
  <2>1. /\ stage[c] \in {"up", "raising"} /\ stage'[c] \in {"up", "raising"}
        /\ at'[c] = at[c] - 1 /\ identity'[c] = identity[c] /\ ran'[c] = ran[c]
    BY <1>5, BackTypes DEF Back
  <2>2. \A p \in 1..Len(Before) : p < at[c] - 1 => p < at[c]
    BY <1>1
  <2>3. QED
    BY <1>1, <2>1, <2>2 DEF IdentifiedInv
<1>6. CASE Around(c) \/ Cancel(c)
  <2>1. stage'[c] \notin {"down", "up", "raising"}
    BY <1>6, AroundTypes, CancelTypes DEF AroundStep
  <2>2. UNCHANGED <<identity, ran>>
    BY <1>6 DEF Around, Cancel
  <2>3. QED
    BY <1>1, <2>1, <2>2 DEF IdentifiedInv
<1>7. QED
  BY <1>2, <1>3, <1>4, <1>5, <1>6, StepClasses

(* The log.                                                                *)
LEMMA LoggedStep ==
  ASSUME PipelineOK, NEW c \in Calls, Arrive(c) \/ Step(c) \/ Cancel(c), LoggedInv(c)
  PROVE  LoggedInv(c)'
<1> SUFFICES ASSUME config'.observability = "enabled" PROVE LoggedInv(c)'
  BY DEF LoggedInv
<1>1. config' = config /\ Len(Before) \in Nat /\ at[c] \in Nat
  BY StepTouches, Limits DEF Touches, PipelineOK, HeldOK, WhereOK
<1>2. /\ Len(Before) >= 1 /\ Before[1].kind = "observability"
      /\ \A p \in 2..Len(Before) : Before[p].kind # "observability"
  BY <1>1, ChainShape DEF BeforeShape, PipelineOK, HeldOK
<1>3. logged[c] \in Seq({"success", "error"})
  BY DEF PipelineOK, ToldOK
<1>4. \A status \in {"success", "error"} :
        Len(Append(logged[c], status)) = Len(logged[c]) + 1
  BY <1>3, AppendProperties
<1>5. CASE Arrive(c)
  <2>1. logged'[c] = <<>>
    BY <1>5 DEF Arrive, PipelineOK, ToldOK
  <2>2. QED
    BY <1>5, <2>1, ArriveTypes DEF LoggedInv
<1>6. CASE Inward(c)
  BY <1>1, <1>6, InwardTypes DEF Inward, LoggedInv
<1>7. CASE Turn(c)
  <2>1. stage[c] = "down" /\ logged' = logged /\ at[c] >= 2
    BY <1>1, <1>2, <1>7 DEF Turn
  <2>2. stage'[c] \in {"up", "raising"} /\ at'[c] > 0
    BY <1>1, <1>7, <2>1, TurnTypes
  <2>3. QED
    BY <1>1, <2>1, <2>2 DEF LoggedInv
<1>8. CASE Back(c)
  <2>1. /\ stage[c] \in {"up", "raising"} /\ at[c] \in 1..Len(Before)
        /\ stage'[c] \in {"up", "raising"} /\ at'[c] = at[c] - 1
    BY <1>8, BackTypes DEF Back
  <2>2. Len(logged[c]) = 0
    BY <1>1, <2>1 DEF LoggedInv
  <2>3. CASE at[c] = 1
    <3>1. PICK status \in {"success", "error"} :
            logged' = [logged EXCEPT ![c] = Append(logged[c], status)]
      BY <1>2, <1>8, <2>3 DEF Back
    <3>2. Len(logged'[c]) = 1
      BY <1>4, <2>2, <3>1 DEF PipelineOK, ToldOK
    <3>3. QED
      BY <2>1, <2>3, <3>2 DEF LoggedInv
  <2>4. CASE at[c] # 1
    <3>1. logged' = logged /\ at'[c] > 0
      BY <1>1, <1>2, <1>8, <2>1, <2>4 DEF Back
    <3>2. QED
      BY <2>1, <2>2, <3>1 DEF LoggedInv
  <2>5. QED
    BY <2>3, <2>4
<1>9. CASE Around(c)
  <2>1. logged' = logged /\ AroundStep(c)
    BY <1>9, AroundTypes DEF Around
  <2>2. QED
    BY <1>1, <2>1 DEF AroundStep, LoggedInv
<1>10. CASE Cancel(c)
  <2>1. stage[c] \notin {"idle", "done"} /\ stage'[c] = "idle"
    BY <1>10, CancelTypes DEF Cancel
  <2>2. logged'[c] = IF /\ stage[c] \in {"down", "up", "raising"}
                        /\ at[c] >= IF stage[c] = "down" THEN 2 ELSE 1
                     THEN Append(logged[c], "success") ELSE logged[c]
    BY <1>1, <1>10 DEF Cancel, PipelineOK, ToldOK
  <2>3. Len(logged'[c]) \in {0, 1}
    <3>1. CASE stage[c] = "down" \/ (stage[c] \in {"up", "raising"} /\ at[c] > 0)
      <4>1. Len(logged[c]) = 0
        BY <1>1, <3>1 DEF LoggedInv
      <4>2. logged'[c] = logged[c] \/ logged'[c] = Append(logged[c], "success")
        BY <2>2
      <4>3. Len(Append(logged[c], "success")) = Len(logged[c]) + 1
        BY <1>4
      <4>4. Len(logged'[c]) = 0 \/ Len(logged'[c]) = 0 + 1
        BY <4>1, <4>2, <4>3, Zenon
      <4>5. QED
        BY <4>4
    <3>2. CASE ~(stage[c] = "down" \/ (stage[c] \in {"up", "raising"} /\ at[c] > 0))
      <4>1. Len(logged[c]) = 1
        BY <1>1, <2>1, <3>2 DEF LoggedInv
      <4>2. logged'[c] = logged[c]
        BY <1>1, <2>2, <3>2
      <4>3. QED
        BY <4>1, <4>2
    <3>3. QED
      BY <3>1, <3>2
  <2>4. QED
    BY <2>1, <2>3 DEF LoggedInv
<1>11. QED
  BY <1>5, <1>6, <1>7, <1>8, <1>9, <1>10, StepClasses

(* The hooks.                                                              *)
LEMMA EventLists ==
  /\ AfterEvents \in Seq(Event) /\ Len(AfterEvents) = Len(After)
  /\ \A k \in 1..Len(After) :
       AfterEvents[k] = [hook |-> "after", plugin |-> After[Len(After) + 1 - k]]
  /\ HandlerEvents \in Seq(Event) /\ Len(HandlerEvents) = Len(Handlers)
  /\ \A k \in 1..Len(Handlers) :
       HandlerEvents[k] = [hook |-> "on_exception", plugin |-> Handlers[k]]
<1> DEFINE N == Len(After)
           M == Len(Handlers)
<1>1. /\ N \in Nat /\ DOMAIN After = 1..N /\ \A k \in 1..N : After[k] \in DOMAIN Plugins
      /\ M \in Nat /\ DOMAIN Handlers = 1..M /\ \A k \in 1..M : Handlers[k] \in DOMAIN Plugins
  BY HooksType, LenProperties, ElementOfSeq
<1> DEFINE back == Backwards(After)
<1>2. back = [k \in 1..N |-> After[N + 1 - k]]
  BY <1>1 DEF Backwards
<1>3. \A k \in 1..N : After[N + 1 - k] \in DOMAIN Plugins
  BY <1>1
<1> HIDE DEF N, M, back
<1>4. DOMAIN back = 1..N
  BY <1>2
<1>5. /\ AfterEvents = [k \in 1..N |-> [hook |-> "after", plugin |-> back[k]]]
      /\ HandlerEvents = [k \in 1..M |-> [hook |-> "on_exception", plugin |-> Handlers[k]]]
  BY <1>1, <1>4 DEF AfterEvents, HandlerEvents, Events, back
<1>6. /\ \A k \in 1..N : [hook |-> "after", plugin |-> back[k]] \in Event
      /\ \A k \in 1..M : [hook |-> "on_exception", plugin |-> Handlers[k]] \in Event
  BY <1>1, <1>2, <1>3 DEF Event
<1>7. AfterEvents \in Seq(Event) /\ HandlerEvents \in Seq(Event)
  BY <1>1, <1>5, <1>6
<1>8. Len(AfterEvents) = N /\ Len(HandlerEvents) = M
  BY <1>1, <1>5, <1>7, LenProperties
<1>9. QED
  BY <1>2, <1>5, <1>7, <1>8 DEF N, M

LEMMA OneMore ==
  ASSUME NEW S, NEW s \in Seq(S), NEW k \in 1..Len(s)
  PROVE  /\ SubSeq(s, 1, k - 1) \in Seq(S) /\ s[k] \in S
         /\ SubSeq(s, 1, k) = Append(SubSeq(s, 1, k - 1), s[k])
<1>1. Len(s) \in Nat /\ 1 \in 1..Len(s) /\ k \in 1..Len(s) /\ s[k] \in S
  BY LenProperties, ElementOfSeq
<1>2. SubSeq(s, 1, k - 1) \in Seq(S)
  BY <1>1, ElementOfSeq, SubSeqProperties
<1>3. SubSeq(s, 1, k) = SubSeq(s, 1, k - 1) \o <<s[k]>>
  BY <1>1, SubSeqRecursiveSecond
<1>4. QED
  BY <1>1, <1>2, <1>3, AppendIsConcat

LEMMA Prefixes ==
  /\ \A n \in 0..Len(After) : SubSeq(AfterEvents, 1, n) \in Seq(Event)
  /\ \A m \in 0..Len(Handlers) : SubSeq(HandlerEvents, 1, m) \in Seq(Event)
<1>1. ASSUME NEW s \in Seq(Event), NEW n \in 0..Len(s)
      PROVE  SubSeq(s, 1, n) \in Seq(Event)
  <2>1. n \in Int /\ \A i \in 1..n : s[i] \in Event
    BY LenProperties, ElementOfSeq
  <2>2. QED
    BY <2>1, SubSeqProperties
<1>2. QED
  BY <1>1, EventLists

LEMMA TrailGrows ==
  /\ \A n \in 0..Len(After) : Trail(n, 0) = SubSeq(AfterEvents, 1, n)
  /\ Trail(0, 0) = <<>> /\ SubSeq(AfterEvents, 1, 0) = <<>>
  /\ \A k \in 1..Len(After) :
       SubSeq(AfterEvents, 1, k) = Append(SubSeq(AfterEvents, 1, k - 1), AfterEvents[k])
  /\ \A n \in 0..Len(After), k \in 1..Len(Handlers) :
       Trail(n, k) = Append(Trail(n, k - 1), HandlerEvents[k])
<1>0. Len(After) \in Nat /\ Len(Handlers) \in Nat
  BY HooksType, LenProperties
<1>1. SubSeq(AfterEvents, 1, 0) = <<>> /\ SubSeq(HandlerEvents, 1, 0) = <<>>
  BY SubSeqEmpty
<1>2. \A n \in 0..Len(After) : Trail(n, 0) = SubSeq(AfterEvents, 1, n)
  BY <1>1, Prefixes, ConcatEmptySeq DEF Trail
<1>3. Trail(0, 0) = <<>>
  BY <1>0, <1>1, <1>2
<1>4. \A k \in 1..Len(After) :
        SubSeq(AfterEvents, 1, k) = Append(SubSeq(AfterEvents, 1, k - 1), AfterEvents[k])
  BY EventLists, OneMore
<1>5. ASSUME NEW n \in 0..Len(After), NEW k \in 1..Len(Handlers)
      PROVE  Trail(n, k) = Append(Trail(n, k - 1), HandlerEvents[k])
  <2> DEFINE a == SubSeq(AfterEvents, 1, n)
             h == SubSeq(HandlerEvents, 1, k - 1)
             e == HandlerEvents[k]
  <2>1. a \in Seq(Event)
    BY Prefixes
  <2>2. h \in Seq(Event) /\ e \in Event /\ SubSeq(HandlerEvents, 1, k) = Append(h, e)
    BY EventLists, OneMore
  <2>3. Trail(n, k) = a \o Append(h, e) /\ Trail(n, k - 1) = a \o h
    BY <2>2 DEF Trail
  <2> HIDE DEF a, h, e
  <2>4. /\ Append(h, e) = h \o <<e>> /\ <<e>> \in Seq(Event)
        /\ Append(a \o h, e) = (a \o h) \o <<e>>
    <3>1. Append(h, e) = h \o <<e>>
      BY <2>2, AppendIsConcat
    <3>2. a \o h \in Seq(Event)
      BY <2>1, <2>2, ConcatProperties
    <3>3. Append(a \o h, e) = (a \o h) \o <<e>>
      BY <2>2, <3>2, AppendIsConcat
    <3>4. <<e>> \in Seq(Event)
      BY <2>2
    <3>5. QED
      BY <3>1, <3>3, <3>4
  <2>5. a \o (h \o <<e>>) = (a \o h) \o <<e>>
    BY <2>1, <2>2, <2>4, ConcatAssociative
  <2>6. QED
    BY <2>3, <2>4, <2>5 DEF e
<1>6. QED
  BY <1>1, <1>2, <1>3, <1>4, <1>5

LEMMA TrailStep ==
  ASSUME PipelineOK, NEW c \in Calls, Arrive(c) \/ Step(c) \/ Cancel(c), TrailInv(c)
  PROVE  TrailInv(c)'
<1>0. /\ Len(After) \in Nat /\ Len(Handlers) \in Nat
      /\ 0 \in 0..Len(After) /\ 0 \in 0..Len(Handlers) /\ trail \in [Calls -> Seq(Event)]
  <2>1. Len(After) \in Nat /\ Len(Handlers) \in Nat
    BY HooksType, LenProperties
  <2>2. trail \in [Calls -> Seq(Event)]
    BY Zenon DEF PipelineOK, ToldOK, Event
  <2>3. QED
    BY <2>1, <2>2
<1> DEFINE Then ==
      /\ stage'[c] \in {"down", "up", "raising"} => trail'[c] = <<>>
      /\ stage'[c] = "after" => trail'[c] = SubSeq(AfterEvents, 1, Len(After) - at'[c])
      /\ stage'[c] = "handling" =>
           at'[c] >= 1 /\ \E n \in 0..Len(After) : trail'[c] = Trail(n, at'[c] - 1)
      /\ \E n \in 0..Len(After), m \in 0..Len(Handlers) : trail'[c] = Trail(n, m)
<1> SUFFICES Then
  <2>1. After' = After /\ Handlers' = Handlers
    BY StepTouches, SameChain DEF Touches
  <2>2. QED
    BY <2>1, Zenon DEF TrailInv, Trail, AfterEvents, HandlerEvents, Backwards
<1>1. CASE Arrive(c) \/ Inward(c) \/ Turn(c) \/ Back(c)
  <2>1. stage'[c] \in {"down", "up", "raising"}
    BY <1>1, ArriveTypes, InwardTypes, TurnTypes, BackTypes
  <2>2. trail'[c] = <<>>
    BY <1>0, <1>1 DEF Arrive, Inward, Turn, Back, TrailInv
  <2>3. QED
    BY <1>0, <2>1, <2>2, TrailGrows DEF TrailInv
<1>2. CASE Cancel(c)
  BY <1>2, CancelTypes DEF Cancel, TrailInv
<1>3. CASE Around(c)
  <2>1. AroundStep(c)
    BY <1>3, AroundTypes
  <2>2. CASE stage[c] \in {"up", "raising"}
    <3>1. trail'[c] = <<>>
      BY <2>1, <2>2 DEF AroundStep, TrailInv
    <3>2. \/ stage'[c] = "after" /\ at'[c] = Len(After)
          \/ stage'[c] = "handling" /\ at'[c] = 1
      BY <2>1, <2>2 DEF AroundStep
    <3>3. Len(After) - Len(After) = 0 /\ 1 - 1 = 0
      BY <1>0
    <3>4. QED
      BY <1>0, <3>1, <3>2, <3>3, SMTT(60), TrailGrows DEF TrailInv
  <2>4. CASE /\ stage[c] = "after" /\ at[c] \in 1..Len(After)
             /\ Called(c, "after", After[at[c]])
             /\ \/ stage'[c] = "after" /\ at'[c] = at[c] - 1
                \/ stage'[c] = "handling" /\ at'[c] = 1
    <3> DEFINE k == Len(After) - at[c] + 1
    <3>1. k \in 1..Len(After) /\ k - 1 = Len(After) - at[c] /\ Len(After) + 1 - k = at[c]
      <4>1. at[c] \in 1..Len(After)
        BY <2>4
      <4>2. QED
        BY <1>0, <4>1
    <3>2. trail'[c] = Append(trail[c], [hook |-> "after", plugin |-> After[at[c]]])
      <4>1. trail' = [trail EXCEPT ![c] =
                        Append(trail[c], [hook |-> "after", plugin |-> After[at[c]]])]
        BY <2>4, Zenon DEF Called
      <4>2. QED
        BY <1>0, <4>1, Zenon
    <3>3. trail[c] = SubSeq(AfterEvents, 1, Len(After) - at[c])
      BY <2>4 DEF TrailInv
    <3> HIDE DEF k
    <3>4. trail'[c] = SubSeq(AfterEvents, 1, k)
      <4>1. AfterEvents[k] = [hook |-> "after", plugin |-> After[at[c]]]
        BY <3>1, EventLists
      <4>2. SubSeq(AfterEvents, 1, k) = Append(SubSeq(AfterEvents, 1, k - 1), AfterEvents[k])
        BY <3>1, TrailGrows
      <4>3. QED
        BY <3>1, <3>2, <3>3, <4>1, <4>2
    <3>5. k \in 0..Len(After) /\ trail'[c] = Trail(k, 0)
      <4>1. k \in 0..Len(After)
        BY <1>0, <3>1
      <4>2. Trail(k, 0) = SubSeq(AfterEvents, 1, k)
        BY <4>1, TrailGrows
      <4>3. QED
        BY <3>4, <4>1, <4>2
    <3>6. \/ stage'[c] = "after" /\ at'[c] = at[c] - 1
          \/ stage'[c] = "handling" /\ at'[c] = 1
      BY <2>4
    <3>7. CASE stage'[c] = "after"
      <4>1. Len(After) - at'[c] = k
        BY <1>0, <2>4, <3>6, <3>7 DEF k
      <4>2. trail'[c] = SubSeq(AfterEvents, 1, Len(After) - at'[c])
        BY <3>4, <4>1
      <4>3. \E n \in 0..Len(After), m \in 0..Len(Handlers) : trail'[c] = Trail(n, m)
        BY <1>0, <3>5
      <4>4. QED
        BY <3>7, <4>2, <4>3 DEF TrailInv
    <3>8. CASE stage'[c] = "handling"
      <4>1. at'[c] = 1 /\ at'[c] - 1 = 0
        BY <3>6, <3>8
      <4>2. \E n \in 0..Len(After) : trail'[c] = Trail(n, at'[c] - 1)
        BY <3>5, <4>1
      <4>3. \E n \in 0..Len(After), m \in 0..Len(Handlers) : trail'[c] = Trail(n, m)
        BY <1>0, <3>5
      <4>4. QED
        BY <3>8, <4>1, <4>2, <4>3 DEF TrailInv
    <3>9. QED
      BY <3>6, <3>7, <3>8
  <2>5. CASE /\ stage[c] = "handling" /\ at[c] \in 1..Len(Handlers)
             /\ Called(c, "on_exception", Handlers[at[c]])
    <3>1. PICK n \in 0..Len(After) : trail[c] = Trail(n, at[c] - 1)
      BY <2>5 DEF TrailInv
    <3>2. trail'[c] = Append(trail[c], [hook |-> "on_exception", plugin |-> Handlers[at[c]]])
      BY <1>0, <2>5 DEF Called
    <3>3. trail'[c] = Trail(n, at[c])
      BY <2>5, <3>1, <3>2, EventLists, TrailGrows
    <3>4. at[c] \in 0..Len(Handlers) /\ (at[c] + 1) - 1 = at[c] /\ at[c] + 1 >= 1
      BY <1>0, <2>5
    <3>5. \/ stage'[c] = "handling" /\ at'[c] = at[c] + 1
          \/ stage'[c] = "done"
      BY <2>1, <2>5 DEF AroundStep
    <3>6. QED
      BY <3>3, <3>4, <3>5 DEF TrailInv
  <2>6. CASE /\ stage[c] \in {"after", "handling", "done"} /\ UNCHANGED trail
             /\ stage'[c] \in {"done", "idle"}
    BY <2>6 DEF TrailInv
  <2>7. QED
    BY <2>1, <2>2, <2>4, <2>5, <2>6 DEF AroundStep
<1>4. QED
  BY <1>1, <1>2, <1>3, StepClasses

-----------------------------------------------------------------------------
(* The bridge comes last, over a pipeline with every plugin of the file.   *)
WiredInv ==
  /\ bridge => phase = "up"
  /\ phase \in {"built", "up"} => wired = Len(Refs)
  /\ phase = "up" => (bridge <=> ~Passthrough)

LEMMA WiredStep ==
  ASSUME WiredInv, [ServerNext]_serverVars
  PROVE  WiredInv'
<1>1. config' = config \/ Serve
  BY DEF ServerNext, Startup, serverVars, vars
<1>2. CASE Serve \/ UNCHANGED serverVars
  <2>1. UNCHANGED <<phase, found, registered, wired, bridge>>
    BY <1>2 DEF Serve, serverVars, startupVars
  <2>2. config' = config
    BY <1>2, StepTouches DEF Serve, Next, Touches, serverVars, vars
  <2>3. QED
    BY <2>1, <2>2 DEF WiredInv, Refs, Named, Passthrough
<1>3. CASE Startup
  <2>1. config' = config
    BY <1>3 DEF Startup, vars
  <2>2. CASE LoadConfig \/ Stop
    <3>1. /\ phase' \notin {"built", "up"} /\ bridge' \in {bridge, FALSE}
          /\ LoadConfig => phase # "up"
      BY <2>2 DEF LoadConfig, Fail, Stop
    <3>2. ~bridge'
      BY <2>2, <3>1 DEF WiredInv, Stop
    <3>3. QED
      BY <3>1, <3>2 DEF WiredInv
  <2>3. CASE LoadPlugin
    <3>1. phase = "loading" /\ phase' \in {"loading", "failed"} /\ bridge' = bridge
      BY <2>3 DEF LoadPlugin, Fail
    <3>2. QED
      BY <3>1 DEF WiredInv
  <2>4. CASE BuildPipeline
    <3>1. /\ phase = "loading" /\ bridge' = bridge /\ found' = found
          /\ phase' = "failed" \/ (phase' = "built" /\ wired' = Len(Refs))
      BY <2>4 DEF BuildPipeline, TLSContextFails, Fail
    <3>2. QED
      BY <2>1, <3>1 DEF WiredInv, Refs, Named
  <2>5. CASE AddBridge
    BY <2>1, <2>5, Zenon DEF AddBridge, WiredInv, Refs, Named, Passthrough
  <2>6. CASE Use
    BY <2>1, <2>6, Zenon DEF Use, WiredInv, Refs, Named, Passthrough
  <2>7. QED
    BY <1>3, <2>2, <2>3, <2>4, <2>5, <2>6 DEF Startup
<1>4. QED
  BY <1>2, <1>3 DEF ServerNext

(* FastAuthMCP.__init__, enable_fastauthmcp: however often the start fails *)
(* and is tried again, a bridge that is on the application stands before a *)
(* pipeline with all the plugins of the file, and nothing that the file    *)
(* configures is served without one.                                       *)
THEOREM NothingOrAll == ServerSpec => []AllOrNothing
<1>1. ServerInit => WiredInv
  BY DEF ServerInit, WiredInv
<1>2. WiredInv /\ [ServerNext]_serverVars => WiredInv'
  BY WiredStep
<1>3. WiredInv => AllOrNothing
  BY DEF WiredInv, AllOrNothing, Configured, Passthrough, Refs, Named
<1>4. QED
  BY <1>1, <1>2, <1>3, PTL DEF ServerSpec

-----------------------------------------------------------------------------
(* All calls.                                                              *)

CallsInv == \A c \in Calls : CallInv(c)

LEMMA CallsInit == Init => CallsInv
<1> SUFFICES ASSUME Init, NEW c \in Calls PROVE CallInv(c)
  BY DEF CallsInv
<1>1. /\ stage[c] = "idle" /\ ran[c] = FALSE /\ logged[c] = <<>> /\ trail[c] = <<>>
  BY DEF Init
<1>2. IdentifiedInv(c)
  BY <1>1 DEF IdentifiedInv
<1>3. LoggedInv(c)
  BY <1>1 DEF LoggedInv
<1>4. TrailInv(c)
  <2>1. 0 \in 0..Len(After) /\ 0 \in 0..Len(Handlers)
    BY HooksType, LenProperties
  <2>2. QED
    BY <1>1, <2>1, TrailGrows DEF TrailInv
<1>5. QED
  BY <1>2, <1>3, <1>4 DEF CallInv

LEMMA CallsStep ==
  ASSUME ServerOK, CallsInv, [ServerNext]_serverVars
  PROVE  CallsInv'
<1>1. CASE Serve
  <2>1. PICK c \in Calls : Arrive(c) \/ Step(c) \/ Cancel(c)
    BY <1>1 DEF Serve, Next
  <2>2. PipelineOK /\ IdentifiedInv(c) /\ LoggedInv(c) /\ TrailInv(c)
    BY DEF ServerOK, CallsInv, CallInv
  <2>3. IdentifiedInv(c)' /\ LoggedInv(c)' /\ TrailInv(c)'
    BY <2>1, <2>2, IdentifiedStep, LoggedStep, TrailStep
  <2>4. \A d \in Calls \ {c} : CallInv(d)'
    BY <2>1, <2>2, OtherCalls DEF CallsInv
  <2>5. QED
    BY <2>3, <2>4 DEF CallsInv, CallInv
<1>2. CASE UNCHANGED vars
  <2>1. /\ UNCHANGED <<config, stage, at, tool, identity, ran, logged, trail>>
    BY <1>2 DEF vars, callVars
  <2>2. Before' = Before /\ After' = After /\ Handlers' = Handlers
    BY <2>1, SameChain
  <2>3. ASSUME NEW c \in Calls PROVE CallInv(c)'
    <3>1. IdentifiedInv(c)'
      BY <2>1, <2>2 DEF CallsInv, CallInv, IdentifiedInv
    <3>2. LoggedInv(c)'
      BY <2>1 DEF CallsInv, CallInv, LoggedInv
    <3>3. TrailInv(c)'
      BY <2>1, <2>2, Zenon DEF CallsInv, CallInv, TrailInv, Trail, AfterEvents, HandlerEvents,
         Backwards
    <3>4. QED
      BY <3>1, <3>2, <3>3 DEF CallInv
  <2>4. QED
    BY <2>3 DEF CallsInv
<1>3. QED
  BY <1>1, <1>2 DEF ServerNext, Startup, serverVars

LEMMA CallsInvariant == ServerSpec => []CallsInv
<1>1. ServerInit => CallsInv
  BY CallsInit DEF ServerInit
<1>2. ServerOK /\ CallsInv /\ [ServerNext]_serverVars => CallsInv'
  BY CallsStep
<1>3. QED
  BY <1>1, <1>2, ServerOKInvariant, PTL DEF ServerSpec

(* AuthenticationMiddleware: whatever frames, plugins, exceptions and      *)
(* cancellations do with a call, it reaches no tool and no plugin without  *)
(* an identity.  What carries it is that the frame stands before every     *)
(* hook, passes a call on only with an identity, and that nobody takes it  *)
(* away again.                                                             *)
THEOREM ToolsAreAuthenticated == ServerSpec => []IdentifiedFirst
<1>1. ASSUME ServerOK, CallsInv PROVE IdentifiedFirst
  <2> SUFFICES ASSUME NEW c \in Calls, config.auth # "none",
                      ran[c] \/ \E s \in {"down", "up", "raising"} : In(c, s, "plugin")
               PROVE  identity[c] # NoOne
    BY DEF IdentifiedFirst
  <2>1. IdentifiedInv(c)
    BY <1>1 DEF CallsInv, CallInv
  <2>2. BeforeShape /\ DOMAIN Before = 1..Len(Before)
    BY <1>1, ChainShape, Limits DEF ServerOK, PipelineOK, HeldOK
  <2>3. CASE ran[c]
    BY <2>1, <2>3 DEF IdentifiedInv
  <2>4. CASE \E s \in {"down", "up", "raising"} : In(c, s, "plugin")
    <3>1. /\ stage[c] \in {"down", "up", "raising"}
          /\ at[c] \in 1..Len(Before) /\ Before[at[c]].kind = "plugin"
      BY <2>2, <2>4 DEF In
    <3>2. PICK p \in 1..Len(Before) : Before[p].kind = "authentication"
      BY <2>2 DEF BeforeShape
    <3>3. p < at[c]
      BY <2>2, <3>1, <3>2 DEF BeforeShape
    <3>4. QED
      BY <2>1, <3>1, <3>2, <3>3 DEF IdentifiedInv
  <2>5. QED
    BY <2>3, <2>4
<1>2. QED
  BY <1>1, ServerOKInvariant, CallsInvariant, PTL

(* ObservabilityMiddleware: one entry for every call that has ended, since *)
(* the outermost frame is entered once and left once, on every way out.    *)
THEOREM LoggedOncePerCall == ServerSpec => []LoggedOnce
<1>1. ASSUME CallsInv PROVE LoggedOnce
  <2> SUFFICES ASSUME NEW c \in Calls, config.observability = "enabled"
               PROVE  /\ Len(logged[c]) <= 1
                      /\ stage[c] \in {"after", "handling", "done"} => Len(logged[c]) = 1
    BY DEF LoggedOnce
  <2>1. LoggedInv(c)
    BY <1>1 DEF CallsInv, CallInv
  <2>2. Len(logged[c]) = 0 \/ Len(logged[c]) = 1
    BY <2>1 DEF LoggedInv
  <2>3. stage[c] \in {"after", "handling", "done"} => Len(logged[c]) = 1
    BY <2>1 DEF LoggedInv
  <2> DEFINE entries == Len(logged[c])
  <2>4. entries <= 1
    <3>1. entries = 0 \/ entries = 1
      BY <2>2
    <3> HIDE DEF entries
    <3>2. QED
      BY <3>1
  <2>5. QED
    BY <2>3, <2>4
<1>2. QED
  BY <1>1, CallsInvariant, PTL

(* _run_after_hooks, _handle_exception: whatever fails, the hooks of a call*)
(* are a prefix of the after hooks, last registered first, and then one of *)
(* the handlers, first registered first.                                   *)
THEOREM HooksRunInOrder == ServerSpec => []HooksInOrder
<1>1. ASSUME CallsInv PROVE HooksInOrder
  BY <1>1, Zenon DEF CallsInv, CallInv, TrailInv, Trail, AfterEvents, HandlerEvents,
     HooksInOrder
<1>2. QED
  BY <1>1, CallsInvariant, PTL

-----------------------------------------------------------------------------
(* Why every call is answered.  That middleware, hooks and tools return is *)
(* left to fairness; but no exception and no hook starts the call over.    *)

(* The most steps that a call has left to its answer.                      *)
StepsLeft(c) ==
  LET back == Len(After) + Len(Handlers) + 3
  IN  CASE stage[c] = "down" -> back + 2 * Len(Before) + 2 - at[c]
        [] stage[c] \in {"up", "raising"} -> back + at[c]
        [] stage[c] = "after" -> Len(Handlers) + 2 + at[c]
        [] stage[c] = "handling" -> Len(Handlers) + 3 - at[c]
        [] stage[c] = "done" -> 1
        [] OTHER -> 0

NearsItsEnd(c) ==
  /\ Step(c) => StepsLeft(c)' < StepsLeft(c)
  /\ ~Arrive(c) => StepsLeft(c)' <= StepsLeft(c)

LEMMA Lengths ==
  ASSUME PipelineOK
  PROVE  /\ Len(Before) \in Nat /\ Len(After) \in Nat /\ Len(Handlers) \in Nat
         /\ \A c \in Calls : at[c] \in Nat /\ at[c] <= Furthest(stage[c])
<1>1. config \in Configs /\ \A c \in Calls : Furthest(stage[c]) \in Nat
  BY Limits DEF PipelineOK, HeldOK, Furthest
<1>2. QED
  BY <1>1, Limits DEF PipelineOK, WhereOK

LEMMA StepsLeftNat == PipelineOK => \A c \in Calls : StepsLeft(c) \in Nat
<1> SUFFICES ASSUME PipelineOK, NEW c \in Calls PROVE StepsLeft(c) \in Nat
  OBVIOUS
<1>1. /\ Len(Before) \in Nat /\ Len(After) \in Nat /\ Len(Handlers) \in Nat
      /\ at[c] \in Nat /\ at[c] <= Furthest(stage[c])
  BY Lengths
<1>2. CASE stage[c] = "down"
  BY <1>1, <1>2 DEF StepsLeft, Furthest
<1>3. CASE stage[c] \in {"up", "raising", "after"}
  BY <1>1, <1>3 DEF StepsLeft
<1>4. CASE stage[c] = "handling"
  BY <1>1, <1>4 DEF StepsLeft, Furthest
<1>5. CASE stage[c] \notin {"down", "up", "raising", "after", "handling"}
  BY <1>5 DEF StepsLeft
<1>6. QED
  BY <1>2, <1>3, <1>4, <1>5

LEMMA StepNears ==
  ASSUME PipelineOK, NEW c \in Calls, Step(c)
  PROVE  StepsLeft(c)' < StepsLeft(c)
<1>0. Before' = Before /\ After' = After /\ Handlers' = Handlers
  BY StepTouches, SameChain DEF Touches
<1>1. /\ Len(Before) \in Nat /\ Len(After) \in Nat /\ Len(Handlers) \in Nat
      /\ at[c] \in Nat /\ at[c] <= Furthest(stage[c])
  BY Lengths
<1>2. CASE Inward(c)
  <2>1. stage[c] = "down" /\ stage'[c] = "down" /\ at'[c] = at[c] + 1
    BY <1>2, InwardTypes DEF Inward
  <2>2. QED
    BY <1>0, <1>1, <2>1 DEF StepsLeft
<1>3. CASE Turn(c)
  <2>1. /\ stage[c] = "down" /\ at[c] <= Len(Before) + 1
        /\ stage'[c] \in {"up", "raising"} /\ at'[c] = at[c] - 1
    BY <1>3, TurnTypes, <1>1 DEF Turn
  <2>2. QED
    BY <1>0, <1>1, <2>1 DEF StepsLeft
<1>4. CASE Back(c)
  <2>1. /\ stage[c] \in {"up", "raising"}
        /\ stage'[c] \in {"up", "raising"} /\ at'[c] = at[c] - 1
    BY <1>4, BackTypes DEF Back
  <2>2. QED
    BY <1>0, <1>1, <2>1 DEF StepsLeft
<1>5. CASE Around(c)
  <2>1. AroundStep(c)
    BY <1>5, AroundTypes
  <2>2. CASE stage[c] \in {"up", "raising"}
    <3>1. \/ stage'[c] = "after" /\ at'[c] = Len(After)
          \/ stage'[c] = "handling" /\ at'[c] = 1
      BY <2>1, <2>2 DEF AroundStep
    <3>2. QED
      BY <1>0, <1>1, <2>2, <3>1 DEF StepsLeft
  <2>3. CASE stage[c] = "after"
    <3>1. \/ stage'[c] = "after" /\ at'[c] = at[c] - 1
          \/ stage'[c] = "handling" /\ at'[c] = 1 /\ at[c] > 0
          \/ stage'[c] = "done"
      BY <1>1, <2>1, <2>3 DEF AroundStep
    <3>2. QED
      BY <1>0, <1>1, <2>3, <3>1 DEF StepsLeft
  <2>4. CASE stage[c] = "handling"
    <3>1. \/ stage'[c] = "handling" /\ at'[c] = at[c] + 1
          \/ stage'[c] = "done"
      BY <2>1, <2>4 DEF AroundStep
    <3>2. QED
      BY <1>0, <1>1, <2>4, <3>1 DEF StepsLeft, Furthest
  <2>5. CASE stage[c] \notin {"up", "raising", "after", "handling"}
    BY <1>0, <1>1, <2>1, <2>5 DEF AroundStep, StepsLeft
  <2>6. QED
    BY <2>2, <2>3, <2>4, <2>5
<1>6. QED
  BY <1>2, <1>3, <1>4, <1>5, StepClasses

(* A call is answered after twice as many steps of its own as there are    *)
(* frames, one for each after hook and each handler, and four more, at     *)
(* most: whatever raises, and whatever the hooks make of it, none is       *)
(* entered a second time (MiddlewarePipeline.execute).                     *)
THEOREM CallsNearTheirEnd == ServerSpec => [][\A c \in Calls : NearsItsEnd(c)]_vars
<1>0. PipelineOK' => (\A c \in Calls : StepsLeft(c) \in Nat)'
  BY StepsLeftNat, PTL
<1>1. ASSUME ServerOK, [ServerNext]_serverVars, ~UNCHANGED vars, NEW c \in Calls
      PROVE  NearsItsEnd(c)
  <2>1. PipelineOK /\ StepsLeft(c) \in Nat
    BY <1>1, StepsLeftNat DEF ServerOK
  <2>2. PICK d \in Calls : Arrive(d) \/ Step(d) \/ Cancel(d)
    BY <1>1 DEF ServerNext, Startup, Serve, Next, serverVars
  <2>3. PipelineOK' /\ StepsLeft(c)' \in Nat
    <3>1. PipelineOK'
      BY <2>1, <2>2, PipelineStep
    <3>2. QED
      BY <1>0, <3>1
  <2>4. Step(c) => StepsLeft(c)' < StepsLeft(c)
    BY <2>1, StepNears
  <2>5. CASE d # c
    <3>1. stage'[c] = stage[c] /\ at'[c] = at[c]
      BY SMTT(60), <2>1, <2>2, <2>5, ArriveTypes, CancelTypes, StepClasses, InwardTypes,
         TurnTypes, BackTypes, AroundTypes
    <3>2. Before' = Before /\ After' = After /\ Handlers' = Handlers
      BY <2>2, StepTouches, SameChain DEF Touches
    <3>3. StepsLeft(c)' = StepsLeft(c)
      BY <3>1, <3>2 DEF StepsLeft
    <3>4. QED
      BY <2>1, <2>4, <3>3 DEF NearsItsEnd
  <2>6. CASE d = c /\ Cancel(c)
    <3>1. stage'[c] = "idle"
      BY <2>1, <2>6 DEF Cancel, Move, PipelineOK, WhereOK
    <3>2. StepsLeft(c)' = 0
      BY <3>1 DEF StepsLeft
    <3>3. QED
      BY <2>1, <2>4, <3>2 DEF NearsItsEnd
  <2>7. CASE d = c /\ Step(c)
    BY <2>1, <2>3, <2>4, <2>7 DEF NearsItsEnd
  <2>8. CASE d = c /\ Arrive(c)
    BY <2>4, <2>8 DEF NearsItsEnd
  <2>9. QED
    BY <2>2, <2>5, <2>6, <2>7, <2>8
<1>2. ServerOK /\ [ServerNext]_serverVars => [\A c \in Calls : NearsItsEnd(c)]_vars
  BY <1>1
<1>3. QED
  BY <1>2, ServerOKInvariant, PTL DEF ServerSpec
=============================================================================
