------------------------ MODULE TokenExchangeProofs ------------------------
(***************************************************************************)
(* Proofs about TokenExchange, for any number of calls, users, lifetimes   *)
(* and entries: whose token a tool is given, how old it may be, and what   *)
(* the cache gives up when it is full.                                     *)
(***************************************************************************)
EXTENDS TokenExchange, TLAPS, SequenceTheorems

-----------------------------------------------------------------------------
(* Sequences.                                                              *)

LEMMA RemoveAtIs ==
  ASSUME NEW S, NEW q \in Seq(S), NEW n \in 1..Len(q)
  PROVE  /\ RemoveAt(q, n) \in Seq(S)
         /\ Len(RemoveAt(q, n)) = Len(q) - 1
         /\ \A i \in 1..(Len(q) - 1) :
              RemoveAt(q, n)[i] = IF i < n THEN q[i] ELSE q[i + 1]
<1> DEFINE a == SubSeq(q, 1, n - 1)
           b == SubSeq(q, n + 1, Len(q))
<1>1. Len(q) \in Nat /\ \A i \in 1..Len(q) : q[i] \in S
  BY LenProperties, ElementOfSeq
<1>2. n \in Nat /\ n - 1 \in Int /\ n + 1 \in Int /\ Len(q) \in Int
  BY <1>1
<1>3. /\ \A i \in 1..(n - 1) : q[i] \in S
      /\ \A i \in (n + 1)..Len(q) : q[i] \in S
  BY <1>1, <1>2
<1>4. /\ a \in Seq(S)
      /\ Len(a) = IF 1 <= n - 1 THEN n - 1 - 1 + 1 ELSE 0
      /\ \A i \in 1..(n - 1 - 1 + 1) : a[i] = q[1 + i - 1]
  BY <1>2, <1>3, SubSeqProperties
<1>5. /\ b \in Seq(S)
      /\ Len(b) = IF n + 1 <= Len(q) THEN Len(q) - (n + 1) + 1 ELSE 0
      /\ \A i \in 1..(Len(q) - (n + 1) + 1) : b[i] = q[n + 1 + i - 1]
  BY <1>2, <1>3, SubSeqProperties
<1>6. Len(a) = n - 1 /\ Len(b) = Len(q) - n
  BY <1>1, <1>2, <1>4, <1>5
<1>7. /\ a \o b \in Seq(S)
      /\ Len(a \o b) = Len(a) + Len(b)
      /\ \A i \in 1..(Len(a) + Len(b)) :
           (a \o b)[i] = IF i <= Len(a) THEN a[i] ELSE b[i - Len(a)]
  BY <1>4, <1>5, ConcatProperties
<1>8. RemoveAt(q, n) = a \o b
  BY DEF RemoveAt
<1> HIDE DEF a, b
<1>9. ASSUME NEW i \in 1..(Len(q) - 1)
      PROVE  (a \o b)[i] = IF i < n THEN q[i] ELSE q[i + 1]
  <2>1. i \in 1..(Len(a) + Len(b)) /\ i \in Nat
    BY <1>1, <1>2, <1>6
  <2>2. CASE i < n
    <3>1. i <= Len(a) /\ i \in 1..(n - 1 - 1 + 1) /\ 1 + i - 1 = i
      BY <1>2, <1>6, <2>1, <2>2
    <3>2. (a \o b)[i] = a[i] /\ a[i] = q[1 + i - 1]
      BY <1>4, <1>7, <2>1, <3>1
    <3>3. QED
      BY <2>2, <3>1, <3>2
  <2>3. CASE ~(i < n)
    <3>1. /\ ~(i <= Len(a)) /\ i - Len(a) \in 1..(Len(q) - (n + 1) + 1)
          /\ n + 1 + (i - Len(a)) - 1 = i + 1
      BY <1>1, <1>2, <1>6, <2>1, <2>3
    <3>2. (a \o b)[i] = b[i - Len(a)]
      BY <1>7, <2>1, <3>1
    <3>3. b[i - Len(a)] = q[n + 1 + (i - Len(a)) - 1]
      BY <1>5, <3>1
    <3>4. QED
      BY <2>3, <3>1, <3>2, <3>3
  <2>4. QED
    BY <2>2, <2>3
<1>10. Len(a \o b) = Len(q) - 1
  BY <1>1, <1>2, <1>6, <1>7
<1>11. QED
  BY <1>7, <1>8, <1>9, <1>10

-----------------------------------------------------------------------------
(* The cache.                                                              *)

CacheTypes ==
  /\ cache \in Seq(Entries)
  /\ Len(cache) <= Capacity
  /\ \A i, j \in DOMAIN cache : cache[i].key = cache[j].key => i = j

(* A selection of the cache, in its order.                                 *)
Picks(f, n) ==
  /\ f \in [1..n -> 1..Len(cache)]
  /\ \A i, j \in 1..n : i < j => f[i] < f[j]

LEMMA CacheHas ==
  ASSUME cache \in Seq(Entries)
  PROVE  /\ Len(cache) \in Nat /\ DOMAIN cache = 1..Len(cache)
         /\ \A i \in 1..Len(cache) : cache[i] \in Entries
<1>1. Len(cache) \in Nat /\ DOMAIN cache = 1..Len(cache)
  BY LenProperties
<1>2. \A i \in 1..Len(cache) : cache[i] \in Entries
  BY ElementOfSeq
<1>3. QED
  BY <1>1, <1>2

LEMMA EntryHas ==
  ASSUME NEW e \in Entries
  PROVE  e.key \in Subjects /\ e.token \in Tokens
BY DEF Entries

LEMMA CachedIs ==
  ASSUME NEW s
  PROVE  Cached(s) = {cache[i].token : i \in {j \in DOMAIN cache : cache[j].key = s}}
BY Zenon DEF Cached, ToSet, Key

LEMMA WithoutIs ==
  ASSUME CacheTypes, NEW s \in Subjects
  PROVE  LET w == Without(s)
         IN  /\ w \in Seq(Entries)
             /\ Len(w) \in Nat /\ Len(w) <= Len(cache)
             /\ \A i \in 1..Len(w) : w[i].key # s
             /\ \E f : Picks(f, Len(w)) /\ \A i \in 1..Len(w) : w[i] = cache[f[i]]
             /\ \A i \in 1..Len(cache) :
                  cache[i].key # s => \E j \in 1..Len(w) : w[j] = cache[i]
<1> DEFINE w == Without(s)
<1>0. /\ cache \in Seq(Entries) /\ Len(cache) \in Nat /\ DOMAIN cache = 1..Len(cache)
      /\ \A i \in 1..Len(cache) : cache[i] \in Entries
      /\ \A i, j \in 1..Len(cache) : cache[i].key = cache[j].key => i = j
  BY CacheHas DEF CacheTypes
<1>1. CASE ~ \E i \in 1..Len(cache) : cache[i].key = s
  <2>1. w = cache
    BY <1>0, <1>1, CachedIs, Zenon DEF Without
  <2>2. Picks([i \in 1..Len(cache) |-> i], Len(cache))
    BY <1>0 DEF Picks
  <2>3. \A i \in 1..Len(cache) : cache[i] = cache[[j \in 1..Len(cache) |-> j][i]]
    OBVIOUS
  <2>4. Len(cache) <= Len(cache)
    BY <1>0
  <2>5. QED
    BY <1>0, <1>1, <2>1, <2>2, <2>3, <2>4, Zenon
<1>2. CASE \E i \in 1..Len(cache) : cache[i].key = s
  <2> DEFINE n == CHOOSE i \in DOMAIN cache : cache[i].key = Key(s)
  <2>1. n \in 1..Len(cache) /\ cache[n].key = s
    BY <1>0, <1>2, Zenon DEF Key
  <2>2. w = RemoveAt(cache, n)
    <3>1. PICK i \in DOMAIN cache : cache[i].key = s
      BY <1>0, <1>2, Zenon
    <3> DEFINE J == {j \in DOMAIN cache : cache[j].key = s}
    <3>2. i \in J /\ Cached(s) = {cache[j].token : j \in J}
      BY <3>1, CachedIs, Zenon
    <3> HIDE DEF J
    <3>3. Cached(s) # {}
      BY <3>2
    <3>4. QED
      BY <3>3, Zenon DEF Without
  <2> HIDE DEF n, w
  <2>3. /\ w \in Seq(Entries)
        /\ Len(w) = Len(cache) - 1
        /\ \A i \in 1..(Len(cache) - 1) : w[i] = IF i < n THEN cache[i] ELSE cache[i + 1]
    <3>1. cache \in Seq(Entries) /\ n \in 1..Len(cache)
      BY <1>0, <2>1
    <3> DEFINE r == RemoveAt(cache, n)
    <3>2. /\ r \in Seq(Entries)
          /\ Len(r) = Len(cache) - 1
          /\ \A i \in 1..(Len(cache) - 1) : r[i] = IF i < n THEN cache[i] ELSE cache[i + 1]
      BY <3>1, RemoveAtIs
    <3>3. QED
      BY <2>2, <3>2
  <2> DEFINE m == Len(cache)
             f == [i \in 1..(m - 1) |-> IF i < n THEN i ELSE i + 1]
  <2>4. m \in Nat /\ n \in Nat /\ n >= 1 /\ n <= m
    BY <1>0, <2>1
  <2>5. Picks(f, Len(w))
    <3>1. f \in [1..(m - 1) -> 1..m]
      BY <2>4
    <3>2. \A i, j \in 1..(m - 1) : i < j => f[i] < f[j]
      BY <2>4
    <3>3. QED
      BY <2>3, <3>1, <3>2, Zenon DEF Picks
  <2>6. \A i \in 1..Len(w) : w[i] = cache[f[i]] /\ f[i] # n /\ f[i] \in 1..m
    BY <2>3, <2>4
  <2>7. \A i \in 1..Len(w) : w[i].key # s
    <3>1. TAKE i \in 1..Len(w)
    <3>2. w[i] = cache[f[i]] /\ f[i] # n /\ f[i] \in 1..Len(cache)
      BY <2>6, Zenon
    <3>3. cache[f[i]].key # cache[n].key
      BY <1>0, <2>1, <3>2
    <3>4. QED
      BY <2>1, <3>2, <3>3
  <2>8. ASSUME NEW i \in 1..m, cache[i].key # s
        PROVE  \E j \in 1..Len(w) : w[j] = cache[i]
    <3>1. i # n
      BY <2>1, <2>8
    <3>2. CASE i < n
      <4>1. i \in 1..(m - 1)
        BY <2>4, <3>2
      <4>2. QED
        BY <2>3, <3>2, <4>1
    <3>3. CASE i > n
      <4>1. i - 1 \in 1..(m - 1) /\ ~(i - 1 < n) /\ i - 1 + 1 = i
        BY <2>4, <3>3
      <4>2. QED
        BY <2>3, <4>1
    <3>4. QED
      BY <2>4, <3>1, <3>2, <3>3
  <2>9. Len(w) \in Nat /\ Len(w) <= Len(cache)
    BY <2>3, <2>4
  <2>10. \A i \in 1..Len(w) : w[i] = cache[f[i]]
    BY <2>6, Zenon
  <2>11. \E g : Picks(g, Len(w)) /\ \A i \in 1..Len(w) : w[i] = cache[g[i]]
    <3> HIDE DEF f
    <3>1. QED
      BY <2>5, <2>10, Zenon
  <2>12. QED
    BY <2>3, <2>7, <2>8, <2>9, <2>11, Zenon DEF w
<1>3. QED
  BY <1>1, <1>2

(* An entry with another key has gone from p only if the cache is full,    *)
(* and all that is left of it was behind that entry.                       *)
Yields(p, s) ==
  \A i \in 1..Len(cache) :
    cache[i].key # s /\ (\A j \in 1..Len(p) : p[j] # cache[i]) =>
      /\ Len(p) = Capacity
      /\ \A j \in 1..(Len(p) - 1) :
           \E k \in 1..Len(cache) : i < k /\ p[j] = cache[k]

(* What is put is the youngest entry, before it comes what was there, in   *)
(* its order, and if an entry with another key has to go then the cache is *)
(* full and what is left of it was behind that entry.                      *)
LEMMA PutIs ==
  ASSUME CacheTypes, NEW s \in Subjects, NEW t \in Tokens
  PROVE  LET p == Put(s, t)
             n == Len(p) - 1
         IN  /\ p \in Seq(Entries) /\ n \in Nat /\ Len(p) <= Capacity
             /\ p[Len(p)] = Entry(s, t)
             /\ \A i \in 1..n : p[i].key # s
             /\ \E f : Picks(f, n) /\ \A i \in 1..n : p[i] = cache[f[i]]
             /\ Yields(p, s)
<1> DEFINE w == Without(s)
           m == Len(w)
           a == Append(w, Entry(s, t))
           p == Put(s, t)
<1>1. /\ w \in Seq(Entries) /\ m \in Nat /\ m <= Len(cache)
      /\ \A i \in 1..m : w[i].key # s
      /\ \A i \in 1..Len(cache) :
           cache[i].key # s => \E j \in 1..m : w[j] = cache[i]
  BY WithoutIs
<1>2. PICK f : Picks(f, m) /\ \A i \in 1..m : w[i] = cache[f[i]]
  BY WithoutIs
<1>3. /\ Capacity \in Nat \ {0} /\ Len(cache) \in Nat /\ Len(cache) <= Capacity
      /\ \A i, j \in 1..Len(cache) : cache[i].key = cache[j].key => i = j
  BY SizeAssumption, CacheHas DEF CacheTypes
<1>4. Entry(s, t) \in Entries
  BY DEF Entry, Entries, Key
<1>5. /\ a \in Seq(Entries) /\ a # <<>> /\ Len(a) = m + 1
      /\ \A i \in 1..m : a[i] = w[i]
      /\ a[m + 1] = Entry(s, t)
  BY <1>1, <1>4, AppendProperties
<1>6. p = IF Len(a) > Capacity THEN Tail(a) ELSE a
  BY Zenon DEF Put, Evict
<1>7. /\ f \in [1..m -> 1..Len(cache)]
      /\ \A i, j \in 1..m : i < j => f[i] < f[j]
  BY <1>2 DEF Picks
<1> HIDE DEF w, m, a, p
<1>8. CASE Len(a) <= Capacity
  <2>1. p = a /\ Len(p) = m + 1 /\ Len(p) - 1 = m
    BY <1>1, <1>3, <1>5, <1>6, <1>8
  <2>2. \A i \in 1..m : p[i] = cache[f[i]] /\ p[i].key # s
    BY <1>1, <1>2, <1>5, <2>1
  <2>3. \A i \in 1..Len(cache) : cache[i].key # s => \E j \in 1..Len(p) : p[j] = cache[i]
    <3>1. TAKE i \in 1..Len(cache)
    <3>2. HAVE cache[i].key # s
    <3>3. PICK j \in 1..m : w[j] = cache[i]
      BY <1>1, <3>2
    <3>4. j \in 1..Len(p) /\ p[j] = w[j]
      BY <1>1, <1>5, <2>1
    <3>5. QED
      BY <3>3, <3>4
  <2>4. QED
    <3>1. Yields(p, s)
      BY <2>3, Zenon DEF Yields
    <3>2. QED
      BY <1>1, <1>2, <1>5, <1>8, <2>1, <2>2, <3>1, ZenonT(60) DEF p
<1>9. CASE Len(a) > Capacity
  <2>1. m = Capacity /\ m >= 1
    BY <1>1, <1>3, <1>5, <1>9
  <2>2. /\ p = Tail(a) /\ p \in Seq(Entries) /\ Len(p) = m
        /\ \A i \in 1..m : p[i] = a[i + 1]
    BY <1>1, <1>5, <1>6, <1>9, HeadTailProperties
  <2>3. p[m] = Entry(s, t) /\ m \in 1..m
    BY <1>1, <1>5, <2>1, <2>2
  <2> DEFINE n == m - 1
             g == [i \in 1..n |-> f[i + 1]]
  <2>4. n \in Nat /\ \A i \in 1..n : i \in 1..m /\ i + 1 \in 1..m
    BY <1>1, <2>1
  <2>5. \A i \in 1..n : p[i] = w[i + 1] /\ p[i] = cache[g[i]] /\ p[i].key # s
    BY <1>1, <1>2, <1>5, <2>2, <2>4
  <2>6. Picks(g, n)
    <3>1. g \in [1..n -> 1..Len(cache)]
      BY <1>7, <2>4
    <3>2. \A i, j \in 1..n : i < j => g[i] < g[j]
      <4>1. \A i, j \in 1..n : i < j => i + 1 < j + 1
        BY <2>4
      <4>2. QED
        BY <1>7, <2>4, <4>1
    <3>3. QED
      BY <3>1, <3>2, Zenon DEF Picks
  <2>7. ASSUME NEW i \in 1..Len(cache), cache[i].key # s,
               \A j \in 1..Len(p) : p[j] # cache[i]
        PROVE  \A j \in 1..n : \E k \in 1..Len(cache) : i < k /\ p[j] = cache[k]
    <3>1. PICK j \in 1..m : w[j] = cache[i]
      BY <1>1, <2>7
    <3>2. j = 1
      <4>1. ASSUME j # 1 PROVE FALSE
        <5>1. j - 1 \in 1..n /\ j - 1 + 1 = j
          BY <1>1, <4>1
        <5>2. p[j - 1] = w[j] /\ j - 1 \in 1..Len(p)
          BY <2>2, <2>4, <2>5, <5>1
        <5>3. QED
          BY <2>7, <3>1, <5>2
      <4>2. QED
        BY <4>1
    <3>3. 1 \in 1..m /\ f[1] \in 1..Len(cache) /\ cache[f[1]] = cache[i]
      BY <1>2, <1>7, <2>1, <3>1, <3>2
    <3>4. i = f[1]
      BY <1>3, <3>3
    <3>5. TAKE k \in 1..n
    <3>6. k + 1 \in 1..m /\ 1 < k + 1
      BY <2>4
    <3>7. f[1] < f[k + 1] /\ f[k + 1] \in 1..Len(cache)
      BY <1>7, <3>3, <3>6
    <3>8. p[k] = cache[f[k + 1]]
      BY <2>5
    <3>9. QED
      BY <3>4, <3>7, <3>8
  <2>8. Len(p) - 1 = n /\ Len(p) <= Capacity /\ Len(p) = Capacity
    BY <2>1, <2>2, <1>3
  <2> HIDE DEF n, g
  <2>9. QED
    <3>1. Yields(p, s)
      BY <2>7, <2>8, Zenon DEF Yields
    <3>2. QED
      BY <2>2, <2>3, <2>4, <2>5, <2>6, <2>8, <3>1, ZenonT(60) DEF p
<1>10. QED
  BY <1>1, <1>3, <1>5, <1>8, <1>9

LEMMA PicksApart ==
  ASSUME CacheTypes, NEW n \in Nat, NEW f, Picks(f, n),
         NEW i \in 1..n, NEW j \in 1..n, cache[f[i]].key = cache[f[j]].key
  PROVE  i = j
<1>1. f[i] \in 1..Len(cache) /\ f[j] \in 1..Len(cache)
  BY DEF Picks
<1>2. f[i] = f[j]
  BY <1>1, CacheHas DEF CacheTypes
<1>3. Len(cache) \in Nat
  BY CacheHas DEF CacheTypes
<1>4. f[i] \in Int /\ ~(f[i] < f[j]) /\ ~(f[j] < f[i])
  BY <1>1, <1>2, <1>3
<1>5. ~(i < j) /\ ~(j < i)
  BY <1>4 DEF Picks
<1>6. QED
  BY <1>5

-----------------------------------------------------------------------------
(* Tokens.                                                                 *)

LEMMA LongestIs ==
  Longest \in Nat /\ Ttl <= Longest /\ Ttl \in Nat \ {0} /\ Latency \in Nat
<1>1. PICK t \in Lives \cup {Ttl} : \A u \in Lives \cup {Ttl} : u <= t
  BY TimeAssumption
<1>2. /\ Longest \in Lives \cup {Ttl}
      /\ \A u \in Lives \cup {Ttl} : u <= Longest
  BY <1>1, Zenon DEF Longest
<1>3. QED
  BY <1>2, TimeAssumption

LEMMA TokenHas ==
  ASSUME NEW t \in Tokens
  PROVE  /\ t.owner \in Subjects /\ t.life \in Lives /\ t.life \in Nat \ {0}
         /\ t.kept \in 0..(Longest + Latency) /\ t.kept \in Nat
<1>1. t.owner \in Subjects /\ t.life \in Lives /\ t.kept \in 0..(Longest + Latency)
  BY DEF Tokens
<1>2. t.life \in Nat \ {0}
  <2>1. Lives \subseteq Nat \ {0}
    BY TimeAssumption
  <2>2. QED
    BY <1>1, <2>1
<1>3. t.kept \in Nat
  <2> DEFINE k == t.kept
  <2>1. k \in 0..(Longest + Latency)
    BY <1>1
  <2> HIDE DEF k
  <2>2. k \in Nat
    BY <2>1, LongestIs
  <2>3. QED
    BY <2>2 DEF k
<1>4. QED
  BY <1>1, <1>2, <1>3, Zenon

LEMMA KeptIs ==
  ASSUME NEW t \in Tokens, NEW most \in 0..(Longest + Latency)
  PROVE  LET k == Kept(t, most)
         IN  /\ k \in Tokens /\ k.owner = t.owner /\ k.life = t.life
             /\ k.kept = IF t.kept < most THEN t.kept + 1 ELSE t.kept
<1> DEFINE n == IF t.kept < most THEN t.kept + 1 ELSE t.kept
<1>1. n \in 0..(Longest + Latency)
  BY TokenHas, LongestIs
<1>2. t \in [owner : Subjects, life : Lives, kept : 0..(Longest + Latency)]
  BY DEF Tokens
<1> HIDE DEF n
<1>3. [t EXCEPT !.kept = n] \in Tokens
  BY <1>1, <1>2 DEF Tokens
<1>4. /\ [t EXCEPT !.kept = n].owner = t.owner
      /\ [t EXCEPT !.kept = n].life = t.life
      /\ [t EXCEPT !.kept = n].kept = n
  BY <1>2
<1>5. Kept(t, most) = [t EXCEPT !.kept = n]
  BY Zenon DEF Kept, n
<1>6. QED
  BY <1>3, <1>4, <1>5, Zenon DEF n

LEMMA CachedHas ==
  ASSUME CacheTypes, NEW s, NEW t \in Cached(s)
  PROVE  \E i \in DOMAIN cache : cache[i].key = s /\ cache[i].token = t
<1>1. t \in {cache[i].token : i \in {j \in DOMAIN cache : cache[j].key = s}}
  BY CachedIs, Zenon
<1>2. QED
  BY <1>1

-----------------------------------------------------------------------------
(* The calls.                                                              *)

Pcs == {"idle", "discovering", "asking", "granted", "identifying"}

CallTypes ==
  /\ doing \in [Calls -> Pcs]
  /\ subject \in [Calls -> Subjects \cup {None}]
  /\ held \in [Calls -> Tokens \cup {None}]
  /\ wait \in [Calls -> 0..Latency]
  /\ \A c \in Calls :
       /\ subject[c] = None <=> doing[c] = "idle"
       /\ held[c] # None <=> doing[c] \in {"granted", "identifying"}

RestTypes == endpoints \in BOOLEAN /\ ended \in [Subjects -> 0..Oldest]

LEMMA TypeParts == ExchangeTypeOK <=> CacheTypes /\ CallTypes /\ RestTypes
BY Zenon DEF ExchangeTypeOK, CacheTypes, CallTypes, RestTypes, Pcs

(* One call goes on, the others stay as they are.                          *)
Moved(c, p, s, h, w) ==
  /\ doing' = [doing EXCEPT ![c] = p]
  /\ subject' = [subject EXCEPT ![c] = s]
  /\ held' = [held EXCEPT ![c] = h]
  /\ wait' = [wait EXCEPT ![c] = w]

LEMMA MovedIs ==
  ASSUME CallTypes, NEW c \in Calls, NEW p, NEW s, NEW h, NEW w,
         Moved(c, p, s, h, w), NEW d \in Calls
  PROVE  /\ d = c => /\ doing'[d] = p /\ subject'[d] = s
                     /\ held'[d] = h /\ wait'[d] = w
         /\ d # c => /\ doing'[d] = doing[d] /\ subject'[d] = subject[d]
                     /\ held'[d] = held[d] /\ wait'[d] = wait[d]
BY Zenon DEF CallTypes, Moved

LEMMA MovedTypes ==
  ASSUME CallTypes, NEW c \in Calls, NEW p \in Pcs, NEW s \in Subjects \cup {None},
         NEW h \in Tokens \cup {None}, NEW w \in 0..Latency,
         Moved(c, p, s, h, w),
         s = None <=> p = "idle",
         h # None <=> p \in {"granted", "identifying"}
  PROVE  CallTypes'
<1>1. /\ doing' \in [Calls -> Pcs]
      /\ subject' \in [Calls -> Subjects \cup {None}]
      /\ held' \in [Calls -> Tokens \cup {None}]
      /\ wait' \in [Calls -> 0..Latency]
  BY Zenon DEF CallTypes, Moved
<1>2. ASSUME NEW d \in Calls
      PROVE  /\ subject'[d] = None <=> doing'[d] = "idle"
             /\ held'[d] # None <=> doing'[d] \in {"granted", "identifying"}
  <2>1. CASE d = c
    <3>1. doing'[d] = p /\ subject'[d] = s /\ held'[d] = h
      BY <2>1, Zenon DEF Moved, CallTypes
    <3>2. QED
      BY <3>1
  <2>2. CASE d # c
    <3>1. doing'[d] = doing[d] /\ subject'[d] = subject[d] /\ held'[d] = held[d]
      BY <2>2, Zenon DEF Moved, CallTypes
    <3>2. /\ subject[d] = None <=> doing[d] = "idle"
          /\ held[d] # None <=> doing[d] \in {"granted", "identifying"}
      BY Zenon DEF CallTypes
    <3>3. QED
      BY <3>1, <3>2, Zenon
  <2>3. QED
    BY <2>1, <2>2
<1>3. QED
  BY <1>1, <1>2, Zenon DEF CallTypes

LEMMA CallHas ==
  ASSUME CallTypes, NEW c \in Calls
  PROVE  /\ doing[c] \in Pcs /\ subject[c] \in Subjects \cup {None}
         /\ held[c] \in Tokens \cup {None} /\ wait[c] \in 0..Latency
         /\ doing[c] # "idle" => subject[c] \in Subjects
         /\ doing[c] \in {"granted", "identifying"} => held[c] \in Tokens
         /\ doing[c] \notin {"granted", "identifying"} => held[c] = None
BY Zenon DEF CallTypes

(* The six things a step of a call can be.                                 *)
Used(c) == \E s \in Subjects : \E t \in Cached(s) :
  /\ doing[c] = "idle" /\ Fresh(t)
  /\ Moved(c, "identifying", s, t, wait[c]) /\ cache' = cache
Began(c) == \E s \in Subjects : \E p \in {"asking", "discovering"} :
  /\ doing[c] = "idle" /\ \A t \in Cached(s) : ~Fresh(t)
  /\ Moved(c, p, s, None, wait[c]) /\ cache' = Without(s)
Asked(c) ==
  /\ doing[c] = "discovering"
  /\ Moved(c, "asking", subject[c], None, wait[c]) /\ cache' = cache
Issued(c) == \E l \in Lives :
  /\ doing[c] = "asking" /\ ended[subject[c]] = 0
  /\ Moved(c, "granted", subject[c],
           [owner |-> subject[c], life |-> l, kept |-> 0], wait[c])
  /\ cache' = cache
Arrived(c) ==
  /\ doing[c] = "granted"
  /\ Moved(c, "identifying", subject[c], held[c], 0)
  /\ cache' = Put(subject[c], held[c])
Over(c) == Moved(c, "idle", None, None, 0) /\ cache' = cache

LEMMA SameAt ==
  ASSUME NEW f, NEW S, f \in [Calls -> S], NEW c \in Calls, UNCHANGED f
  PROVE  f' = [f EXCEPT ![c] = f[c]]
OBVIOUS

LEMMA StepIs ==
  ASSUME ExchangeTypeOK, NEW c \in Calls, Step(c)
  PROVE  /\ Used(c) \/ Began(c) \/ Asked(c) \/ Issued(c) \/ Arrived(c) \/ Over(c)
         /\ ended' = ended /\ endpoints' \in BOOLEAN
<1>1. CallTypes /\ endpoints \in BOOLEAN
  BY TypeParts, Zenon DEF RestTypes
<1>2. /\ UNCHANGED doing => doing' = [doing EXCEPT ![c] = doing[c]]
      /\ UNCHANGED subject => subject' = [subject EXCEPT ![c] = subject[c]]
      /\ UNCHANGED held => held' = [held EXCEPT ![c] = held[c]]
      /\ UNCHANGED wait => wait' = [wait EXCEPT ![c] = wait[c]]
  BY <1>1 DEF CallTypes
<1>3. doing[c] \notin {"granted", "identifying"} => held[c] = None
  BY <1>1, CallHas, Zenon
<1>4. ASSUME NEW s \in Subjects, Hit(c, s)
      PROVE  Used(c) /\ ended' = ended /\ endpoints' = endpoints
  BY <1>2, <1>4, Zenon DEF Hit, Used, Moved
<1>5. ASSUME NEW s \in Subjects, Miss(c, s)
      PROVE  Began(c) /\ ended' = ended /\ endpoints' = endpoints
  <2>1. doing[c] = "idle" /\ held[c] = None
    <3>1. doing[c] = "idle"
      BY <1>5 DEF Miss
    <3>2. QED
      BY <1>3, <3>1
  <2> DEFINE p == IF endpoints THEN "asking" ELSE "discovering"
  <2>2. p \in {"asking", "discovering"}
    OBVIOUS
  <2>3. Moved(c, p, s, None, wait[c])
    BY <1>2, <1>5, <2>1, Zenon DEF Miss, Moved
  <2> HIDE DEF p
  <2>4. QED
    BY <1>5, <2>1, <2>2, <2>3, Zenon DEF Miss, Began
<1>6. ASSUME DiscoverProvider(c)
      PROVE  Asked(c) /\ ended' = ended /\ endpoints' = TRUE
  <2>1. held[c] = None
    BY <1>3, <1>6 DEF DiscoverProvider
  <2>2. QED
    BY <1>2, <1>6, <2>1, Zenon DEF DiscoverProvider, Asked, Moved
<1>7. ASSUME Grant(c)
      PROVE  Issued(c) /\ ended' = ended /\ endpoints' = endpoints
  BY <1>2, <1>7, Zenon DEF Grant, Issued, Moved
<1>8. ASSUME Arrive(c)
      PROVE  Arrived(c) /\ ended' = ended /\ endpoints' = endpoints
  BY <1>2, <1>8, Zenon DEF Arrive, Arrived, Moved
<1>9. ASSUME NoProvider(c) \/ NoGrant(c) \/ Identify(c) \/ CancelExchange(c)
      PROVE  Over(c) /\ ended' = ended /\ endpoints' = endpoints
  BY <1>9, Zenon DEF NoProvider, NoGrant, Identify, CancelExchange, Finish, Over, Moved
<1>10. QED
  BY <1>1, <1>4, <1>5, <1>6, <1>7, <1>8, <1>9, Zenon DEF Step

-----------------------------------------------------------------------------
(* Time.                                                                   *)

LEMMA TickOfCache ==
  ASSUME CacheTypes, Tick
  PROVE  /\ cache' \in Seq(Entries) /\ Len(cache') = Len(cache)
         /\ \A i \in 1..Len(cache) :
              /\ cache'[i].key = cache[i].key
              /\ cache'[i].token = Kept(cache[i].token, Longest)
              /\ cache'[i].token \in Tokens
<1> DEFINE n == Len(cache)
<1>1. n \in Nat /\ DOMAIN cache = 1..n /\ \A i \in 1..n : cache[i] \in Entries
  BY CacheHas DEF CacheTypes
<1>2. cache' = [i \in 1..n |->
                  [key |-> cache[i].key, token |-> Kept(cache[i].token, Longest)]]
  BY <1>1, Zenon DEF Tick
<1>3. Longest \in 0..(Longest + Latency)
  BY LongestIs
<1> HIDE DEF n
<1>4. ASSUME NEW i \in 1..n
      PROVE  /\ cache'[i].key = cache[i].key
             /\ cache'[i].token = Kept(cache[i].token, Longest)
             /\ cache'[i].token \in Tokens
             /\ cache'[i] \in Entries
  <2>1. cache[i].key \in Subjects /\ cache[i].token \in Tokens
    BY <1>1, EntryHas
  <2> DEFINE t == Kept(cache[i].token, Longest)
  <2>2. t \in Tokens
    BY <1>3, <2>1, KeptIs
  <2>3. cache'[i] = [key |-> cache[i].key, token |-> t]
    BY <1>2, Zenon
  <2> HIDE DEF t
  <2>4. cache'[i].key = cache[i].key /\ cache'[i].token = t /\ cache'[i] \in Entries
    BY <2>1, <2>2, <2>3 DEF Entries
  <2>5. QED
    BY <2>2, <2>4, Zenon DEF t
<1>5. cache' \in [1..n -> Entries]
  BY <1>2, <1>4, Zenon
<1>6. cache' \in Seq(Entries) /\ Len(cache') = n
  BY <1>1, <1>5
<1>7. QED
  BY <1>4, <1>6, Zenon DEF n

LEMMA TickOfCalls ==
  ASSUME CallTypes, Tick, NEW c \in Calls
  PROVE  /\ doing'[c] = doing[c] /\ subject'[c] = subject[c]
         /\ doing[c] = "identifying" =>
              held[c] \in Tokens /\ held'[c] = Kept(held[c], Longest + Latency)
         /\ doing[c] # "identifying" => held'[c] = held[c]
         /\ doing[c] \in {"granted", "identifying"} =>
              wait[c] < Latency /\ wait'[c] = wait[c] + 1
         /\ doing[c] \notin {"granted", "identifying"} => wait'[c] = 0
<1>1. c \in UnderWay <=> doing[c] \in {"granted", "identifying"}
  BY DEF UnderWay
<1>2. /\ c \in UnderWay => wait[c] < Latency
      /\ wait'[c] = IF c \in UnderWay THEN wait[c] + 1 ELSE 0
      /\ held'[c] = IF doing[c] = "identifying" THEN Kept(held[c], Longest + Latency)
                    ELSE held[c]
      /\ doing' = doing /\ subject' = subject
  BY Zenon DEF Tick
<1>3. doing[c] = "identifying" => held[c] \in Tokens
  <2>1. ASSUME doing[c] = "identifying" PROVE doing[c] \in {"granted", "identifying"}
    BY <2>1
  <2>2. QED
    BY <2>1, CallHas, Zenon
<1>4. QED
  BY <1>1, <1>2, <1>3, Zenon

LEMMA TickOfSessions ==
  ASSUME RestTypes, Tick, NEW s \in Subjects
  PROVE  /\ ended'[s] \in 0..Oldest
         /\ ended'[s] <= ended[s] + 1
<1>1. Oldest \in Nat
  BY LongestIs DEF Oldest
<1>2. ended[s] \in 0..Oldest
  BY DEF RestTypes
<1>3. ended'[s] = IF ended[s] \in 1..(Oldest - 1) THEN ended[s] + 1 ELSE ended[s]
  BY Zenon DEF Tick
<1>4. QED
  BY <1>1, <1>2, <1>3

LEMMA TickTypes ==
  ASSUME ExchangeTypeOK, Tick
  PROVE  ExchangeTypeOK'
<1>1. CacheTypes /\ CallTypes /\ RestTypes
  BY TypeParts
<1>2. CacheTypes'
  <2>1. /\ cache' \in Seq(Entries) /\ Len(cache') = Len(cache)
        /\ \A i \in 1..Len(cache) : cache'[i].key = cache[i].key
    BY <1>1, TickOfCache, Zenon
  <2>2. /\ Len(cache) <= Capacity /\ DOMAIN cache = 1..Len(cache)
        /\ \A i, j \in 1..Len(cache) : cache[i].key = cache[j].key => i = j
    BY <1>1, CacheHas DEF CacheTypes
  <2>3. DOMAIN cache' = 1..Len(cache')
    BY <2>1, LenProperties
  <2>4. \A i, j \in DOMAIN cache' : cache'[i].key = cache'[j].key => i = j
    BY <2>1, <2>2, <2>3, Zenon
  <2>5. QED
    BY <2>1, <2>2, <2>4, Zenon DEF CacheTypes
<1>3. CallTypes'
  <2>1. doing' = doing /\ subject' = subject
    BY DEF Tick
  <2>2. ASSUME NEW c \in Calls
        PROVE  /\ wait'[c] \in 0..Latency /\ held'[c] \in Tokens \cup {None}
               /\ held'[c] # None <=> doing[c] \in {"granted", "identifying"}
    <3>1. /\ wait[c] \in 0..Latency /\ held[c] \in Tokens \cup {None} /\ Latency \in Nat
          /\ held[c] # None <=> doing[c] \in {"granted", "identifying"}
      BY <1>1, LongestIs, Zenon DEF CallTypes
    <3>2. wait'[c] \in 0..Latency
      <4>1. \/ wait[c] < Latency /\ wait'[c] = wait[c] + 1
            \/ wait'[c] = 0
        BY <1>1, TickOfCalls, Zenon
      <4>2. QED
        BY <3>1, <4>1
    <3>3. CASE doing[c] = "identifying"
      <4>1. held[c] \in Tokens /\ held'[c] = Kept(held[c], Longest + Latency)
        BY <1>1, <3>3, TickOfCalls, Zenon
      <4>2. Longest + Latency \in 0..(Longest + Latency)
        BY LongestIs
      <4>3. held'[c] \in Tokens
        BY <4>1, <4>2, KeptIs
      <4>4. QED
        BY <3>2, <3>3, <4>3, NoTokenAssumption
    <3>4. CASE doing[c] # "identifying"
      <4>1. held'[c] = held[c]
        BY <1>1, <3>4, TickOfCalls, Zenon
      <4>2. QED
        BY <3>1, <3>2, <4>1
    <3>5. QED
      BY <3>3, <3>4
  <2>3. wait' \in [Calls -> 0..Latency] /\ held' \in [Calls -> Tokens \cup {None}]
    <3>1. wait' = [c \in Calls |-> wait'[c]] /\ held' = [c \in Calls |-> held'[c]]
      BY Zenon DEF Tick
    <3>2. QED
      BY <2>2, <3>1, Zenon
  <2>4. QED
    BY <1>1, <2>1, <2>2, <2>3, Zenon DEF CallTypes
<1>4. RestTypes'
  <2>1. ended' = [s \in Subjects |-> ended'[s]] /\ endpoints' = endpoints
    BY Zenon DEF Tick
  <2>2. \A s \in Subjects : ended'[s] \in 0..Oldest
    BY <1>1, TickOfSessions, Zenon
  <2>3. QED
    BY <1>1, <2>1, <2>2, Zenon DEF RestTypes
<1>5. QED
  BY <1>2, <1>3, <1>4, TypeParts, Zenon
  DEF ExchangeTypeOK, CacheTypes, CallTypes, RestTypes, Pcs

-----------------------------------------------------------------------------
(* Types.                                                                  *)

LEMMA WithoutTypes ==
  ASSUME CacheTypes, NEW s \in Subjects, cache' = Without(s)
  PROVE  CacheTypes'
<1> DEFINE w == Without(s)
<1>1. w \in Seq(Entries) /\ Len(w) \in Nat /\ Len(w) <= Len(cache)
  BY WithoutIs
<1>2. PICK f : Picks(f, Len(w)) /\ \A i \in 1..Len(w) : w[i] = cache[f[i]]
  BY WithoutIs
<1> HIDE DEF w
<1>3. DOMAIN w = 1..Len(w)
  BY <1>1, LenProperties
<1>4. ASSUME NEW i \in DOMAIN w, NEW j \in DOMAIN w, w[i].key = w[j].key
      PROVE  i = j
  <2>1. /\ i \in 1..Len(w) /\ j \in 1..Len(w)
        /\ cache[f[i]].key = cache[f[j]].key
    BY <1>2, <1>3, <1>4, Zenon
  <2>2. QED
    BY <1>1, <1>2, <2>1, PicksApart
<1>5. Len(w) <= Capacity
  BY <1>1, SizeAssumption, CacheHas DEF CacheTypes
<1>6. cache' = w
  BY DEF w
<1>7. QED
  BY <1>1, <1>4, <1>5, <1>6, Zenon DEF CacheTypes

LEMMA PutTypes ==
  ASSUME CacheTypes, NEW s \in Subjects, NEW t \in Tokens, cache' = Put(s, t)
  PROVE  CacheTypes'
<1> DEFINE p == Put(s, t)
           n == Len(p) - 1
<1>1. /\ p \in Seq(Entries) /\ n \in Nat /\ Len(p) <= Capacity
      /\ p[Len(p)] = Entry(s, t)
      /\ \A i \in 1..n : p[i].key # s
  BY PutIs
<1>2. PICK f : Picks(f, n) /\ \A i \in 1..n : p[i] = cache[f[i]]
  BY PutIs
<1>3. p[Len(p)].key = s
  BY <1>1 DEF Entry, Key
<1> HIDE DEF p
<1>4. DOMAIN p = 1..Len(p) /\ Len(p) \in Nat
  BY <1>1, LenProperties
<1>5. \A i \in DOMAIN p : i # Len(p) => i \in 1..n
  BY <1>1, <1>4
<1> HIDE DEF n
<1>6. ASSUME NEW i \in DOMAIN p, NEW j \in DOMAIN p, p[i].key = p[j].key
      PROVE  i = j
  <2>1. CASE i = Len(p) \/ j = Len(p)
    BY <1>1, <1>3, <1>5, <1>6, <2>1
  <2>2. CASE i # Len(p) /\ j # Len(p)
    <3>1. i \in 1..n /\ j \in 1..n
      BY <1>5, <2>2
    <3>2. cache[f[i]].key = cache[f[j]].key
      BY <1>2, <1>6, <3>1, Zenon
    <3>3. QED
      BY <1>1, <1>2, <3>1, <3>2, PicksApart
  <2>3. QED
    BY <2>1, <2>2
<1>7. cache' = p
  BY DEF p
<1>8. QED
  BY <1>1, <1>6, <1>7, Zenon DEF CacheTypes

LEMMA NewToken ==
  ASSUME NEW s \in Subjects, NEW l \in Lives
  PROVE  LET t == [owner |-> s, life |-> l, kept |-> 0]
         IN  t \in Tokens /\ t # None /\ t.owner = s /\ t.life = l /\ t.kept = 0
<1>1. 0 \in 0..(Longest + Latency)
  BY LongestIs
<1>2. [owner |-> s, life |-> l, kept |-> 0] \in Tokens
  BY <1>1 DEF Tokens
<1>3. QED
  BY <1>2, NoTokenAssumption

LEMMA StepTypes ==
  ASSUME ExchangeTypeOK, NEW c \in Calls, Step(c)
  PROVE  ExchangeTypeOK'
<1>1. CacheTypes /\ CallTypes /\ RestTypes
  BY TypeParts
<1>2. /\ Used(c) \/ Began(c) \/ Asked(c) \/ Issued(c) \/ Arrived(c) \/ Over(c)
      /\ ended' = ended /\ endpoints' \in BOOLEAN
  BY StepIs, Zenon
<1>3. RestTypes'
  BY <1>1, <1>2, Zenon DEF RestTypes
<1>4. /\ wait[c] \in 0..Latency /\ 0 \in 0..Latency
      /\ doing[c] # "idle" => subject[c] \in Subjects
      /\ doing[c] \in {"granted", "identifying"} => held[c] \in Tokens
  <2>1. 0 \in 0..Latency
    BY LongestIs
  <2>2. QED
    BY <1>1, <2>1, CallHas, Zenon
<1>5. ASSUME CacheTypes', CallTypes' PROVE ExchangeTypeOK'
  BY <1>3, <1>5, Zenon DEF ExchangeTypeOK, CacheTypes, CallTypes, RestTypes, Pcs
<1>6. cache' = cache => CacheTypes'
  BY <1>1, Zenon DEF CacheTypes
<1>7. None \notin Subjects /\ None \notin Tokens
  BY NameAssumption, NoTokenAssumption
<1>8. CASE Used(c)
  <2>0. PICK s \in Subjects : \E t \in Cached(s) :
          /\ Moved(c, "identifying", s, t, wait[c]) /\ cache' = cache
    BY <1>8, Zenon DEF Used
  <2>1. PICK t \in Cached(s) :
          /\ Moved(c, "identifying", s, t, wait[c]) /\ cache' = cache
    BY <2>0
  <2>2. PICK i \in DOMAIN cache : cache[i].token = t
    BY <1>1, CachedHas, Zenon
  <2>3. t \in Tokens
    <3>1. cache[i] \in Entries
      BY <1>1, CacheHas, Zenon DEF CacheTypes
    <3>2. QED
      BY <2>2, <3>1, EntryHas, Zenon
  <2>4. CallTypes'
    BY <1>1, <1>4, <1>7, <2>1, <2>3, MovedTypes, Zenon DEF Pcs
  <2>5. QED
    BY <1>5, <1>6, <2>1, <2>4
<1>9. CASE Began(c)
  <2>1. PICK s \in Subjects, p \in {"asking", "discovering"} :
          /\ Moved(c, p, s, None, wait[c]) /\ cache' = Without(s)
    BY <1>9, Zenon DEF Began
  <2>2. CallTypes'
    BY <1>1, <1>4, <1>7, <2>1, MovedTypes DEF Pcs
  <2>3. CacheTypes'
    BY <1>1, <2>1, WithoutTypes
  <2>4. QED
    BY <1>5, <2>2, <2>3
<1>10. CASE Asked(c)
  <2>1. /\ Moved(c, "asking", subject[c], None, wait[c]) /\ cache' = cache
        /\ subject[c] \in Subjects
    BY <1>4, <1>10 DEF Asked
  <2>2. CallTypes'
    BY <1>1, <1>4, <1>7, <2>1, MovedTypes DEF Pcs
  <2>3. QED
    BY <1>5, <1>6, <2>1, <2>2
<1>11. CASE Issued(c)
  <2>1. PICK l \in Lives :
          /\ Moved(c, "granted", subject[c],
                   [owner |-> subject[c], life |-> l, kept |-> 0], wait[c])
          /\ cache' = cache
    BY <1>11, Zenon DEF Issued
  <2>2. subject[c] \in Subjects
    BY <1>4, <1>11 DEF Issued
  <2> DEFINE t == [owner |-> subject[c], life |-> l, kept |-> 0]
  <2>3. t \in Tokens
    BY <2>2, NewToken
  <2> HIDE DEF t
  <2>4. Moved(c, "granted", subject[c], t, wait[c])
    BY <2>1, Zenon DEF t
  <2>5. CallTypes'
    BY <1>1, <1>4, <1>7, <2>2, <2>3, <2>4, MovedTypes DEF Pcs
  <2>6. QED
    BY <1>5, <1>6, <2>1, <2>5
<1>12. CASE Arrived(c)
  <2>1. /\ Moved(c, "identifying", subject[c], held[c], 0)
        /\ cache' = Put(subject[c], held[c])
        /\ subject[c] \in Subjects /\ held[c] \in Tokens
    BY <1>4, <1>12 DEF Arrived
  <2>2. CallTypes'
    BY <1>1, <1>4, <1>7, <2>1, MovedTypes DEF Pcs
  <2>3. CacheTypes'
    BY <1>1, <2>1, PutTypes
  <2>4. QED
    BY <1>5, <2>2, <2>3
<1>13. CASE Over(c)
  <2>1. Moved(c, "idle", None, None, 0) /\ cache' = cache
    BY <1>13 DEF Over
  <2>2. CallTypes'
    BY <1>1, <1>4, <2>1, MovedTypes DEF Pcs
  <2>3. QED
    BY <1>5, <1>6, <2>1, <2>2
<1>14. QED
  BY <1>2, <1>8, <1>9, <1>10, <1>11, <1>12, <1>13, Zenon

LEMMA EndSessionTypes ==
  ASSUME ExchangeTypeOK, NEW s \in Subjects, EndSession(s)
  PROVE  ExchangeTypeOK'
<1>1. /\ UNCHANGED <<endpoints, cache, doing, subject, held, wait>>
      /\ ended' = [ended EXCEPT ![s] = 1]
  BY DEF EndSession
<1>2. 1 \in 0..Oldest
  BY LongestIs DEF Oldest
<1>3. ended' \in [Subjects -> 0..Oldest]
  BY <1>1, <1>2, Zenon DEF ExchangeTypeOK
<1>4. QED
  BY <1>1, <1>3, Zenon DEF ExchangeTypeOK

(* Whatever the calls do, the cache holds at most Capacity entries, one    *)
(* for each upstream token, and a call has a token set from when it is     *)
(* given one to its end (_handle_token_exchange).                          *)
THEOREM TypeInvariant == ExchangeSpec => []ExchangeTypeOK
<1>1. ExchangeInit => ExchangeTypeOK
  <2> SUFFICES ASSUME ExchangeInit PROVE ExchangeTypeOK
    OBVIOUS
  <2>1. CacheTypes
    <3>1. cache = <<>> /\ Len(cache) = 0 /\ DOMAIN cache = {}
      BY DEF ExchangeInit
    <3>2. cache \in Seq(Entries)
      BY <3>1, EmptySeq
    <3>3. QED
      BY <3>1, <3>2, SizeAssumption DEF CacheTypes
  <2>2. CallTypes
    <3>1. 0 \in 0..Latency
      BY LongestIs
    <3>2. QED
      BY <3>1 DEF ExchangeInit, CallTypes, Pcs
  <2>3. RestTypes
    <3>1. 0 \in 0..Oldest
      BY LongestIs DEF Oldest
    <3>2. QED
      BY <3>1 DEF ExchangeInit, RestTypes
  <2>4. QED
    BY <2>1, <2>2, <2>3, TypeParts
<1>2. ExchangeTypeOK /\ [ExchangeNext]_exchangeVars => ExchangeTypeOK'
  <2>1. ASSUME ExchangeTypeOK, UNCHANGED exchangeVars PROVE ExchangeTypeOK'
    BY <2>1, Zenon DEF ExchangeTypeOK, exchangeVars
  <2>2. QED
    BY <2>1, StepTypes, EndSessionTypes, TickTypes, Zenon DEF ExchangeNext
<1>3. QED
  BY <1>1, <1>2, PTL DEF ExchangeSpec

-----------------------------------------------------------------------------
(* Whose a token is, and how old.                                          *)

(* An entry holds a token of the user its key stands for, and while it is  *)
(* in use it has been kept for almost as long as the session has been over.*)
(* n is the time since the end of that session.                            *)
EntryOk(e, n) ==
  /\ e.token.owner = e.key
  /\ e.token.kept < Ttl => n <= e.token.kept + Latency + 1

(* A token under way is as old as its answer; one in use has come out of   *)
(* the cache, or with an answer, before the wait began.                    *)
CallOk(p, s, h, w, n) ==
  /\ h.owner = s
  /\ p = "granted" => h.kept = 0 /\ n <= w + 1
  /\ p = "identifying" => h.kept < h.life + w /\ n <= Ttl + Latency + w

EntriesOk == \A i \in DOMAIN cache : EntryOk(cache[i], ended[cache[i].key])
CallsOk ==
  \A c \in Calls : doing[c] \in {"granted", "identifying"} =>
    CallOk(doing[c], subject[c], held[c], wait[c], ended[subject[c]])
Ordered ==
  \A i, j \in DOMAIN cache : i < j => cache[j].token.kept <= cache[i].token.kept

RightInv == EntriesOk /\ CallsOk /\ Ordered

LEMMA SessionHas ==
  ASSUME RestTypes, NEW s \in Subjects
  PROVE  ended[s] \in Nat
<1>1. ended[s] \in 0..Oldest /\ Oldest \in Nat
  BY LongestIs DEF RestTypes, Oldest
<1>2. QED
  BY <1>1

(* One call goes on, to where its token set is right.                      *)
LEMMA OthersStay ==
  ASSUME CallTypes, CallsOk, NEW c \in Calls, NEW p, NEW s, NEW h, NEW w,
         Moved(c, p, s, h, w), ended' = ended,
         p \in {"granted", "identifying"} => CallOk(p, s, h, w, ended[s])
  PROVE  CallsOk'
<1> SUFFICES ASSUME NEW d \in Calls, doing'[d] \in {"granted", "identifying"}
             PROVE  CallOk(doing'[d], subject'[d], held'[d], wait'[d], ended'[subject'[d]])
  BY Zenon DEF CallsOk, CallOk
<1>1. CASE d = c
  <2>1. doing'[d] = p /\ subject'[d] = s /\ held'[d] = h /\ wait'[d] = w
    BY <1>1, Zenon DEF Moved, CallTypes
  <2>2. QED
    BY <2>1
<1>2. CASE d # c
  <2>1. /\ doing'[d] = doing[d] /\ subject'[d] = subject[d]
        /\ held'[d] = held[d] /\ wait'[d] = wait[d]
    BY <1>2, Zenon DEF Moved, CallTypes
  <2>2. QED
    BY <2>1 DEF CallsOk
<1>3. QED
  BY <1>1, <1>2

LEMMA WithoutKeeps ==
  ASSUME CacheTypes, EntriesOk, Ordered, NEW s \in Subjects,
         cache' = Without(s), ended' = ended
  PROVE  EntriesOk' /\ Ordered'
<1> DEFINE w == Without(s)
<1>1. w \in Seq(Entries)
  BY WithoutIs
<1>2. PICK f : Picks(f, Len(w)) /\ \A i \in 1..Len(w) : w[i] = cache[f[i]]
  BY WithoutIs
<1> HIDE DEF w
<1>3. DOMAIN w = 1..Len(w) /\ DOMAIN cache = 1..Len(cache)
  BY <1>1, LenProperties, CacheHas DEF CacheTypes
<1>4. \A i \in DOMAIN w : f[i] \in DOMAIN cache /\ w[i] = cache[f[i]]
  BY <1>2, <1>3 DEF Picks
<1>5. cache' = w
  BY DEF w
<1>6. EntriesOk'
  <2>1. \A i \in DOMAIN w : EntryOk(w[i], ended[w[i].key])
    BY <1>4 DEF EntriesOk
  <2>2. QED
    BY <1>5, <2>1, Zenon DEF EntriesOk, EntryOk
<1>7. Ordered'
  <2>1. ASSUME NEW i \in DOMAIN w, NEW j \in DOMAIN w, i < j
        PROVE  w[j].token.kept <= w[i].token.kept
    <3>1. f[i] < f[j]
      BY <1>2, <1>3, <2>1 DEF Picks
    <3>2. QED
      BY <1>4, <3>1 DEF Ordered
  <2>2. QED
    BY <1>5, <2>1, Zenon DEF Ordered
<1>8. QED
  BY <1>6, <1>7

LEMMA PutKeeps ==
  ASSUME CacheTypes, EntriesOk, Ordered, NEW s \in Subjects, NEW t \in Tokens,
         t.kept = 0, EntryOk(Entry(s, t), ended[s]),
         cache' = Put(s, t), ended' = ended
  PROVE  EntriesOk' /\ Ordered'
<1> DEFINE p == Put(s, t)
           n == Len(p) - 1
<1>1. /\ p \in Seq(Entries) /\ n \in Nat
      /\ p[Len(p)] = Entry(s, t)
  BY PutIs
<1>2. PICK f : Picks(f, n) /\ \A i \in 1..n : p[i] = cache[f[i]]
  BY PutIs
<1>3. p[Len(p)].key = s /\ p[Len(p)].token = t
  BY <1>1 DEF Entry, Key
<1> HIDE DEF p
<1>4. DOMAIN p = 1..Len(p) /\ Len(p) \in Nat /\ DOMAIN cache = 1..Len(cache)
  BY <1>1, LenProperties, CacheHas DEF CacheTypes
<1>5. /\ \A i \in DOMAIN p : i # Len(p) => i \in 1..n
      /\ \A i, j \in DOMAIN p : i < j => i # Len(p)
  BY <1>1, <1>4
<1> HIDE DEF n
<1>6. \A i \in 1..n : f[i] \in DOMAIN cache /\ p[i] = cache[f[i]]
  BY <1>2, <1>4 DEF Picks
<1>7. cache' = p
  BY DEF p
<1>8. EntriesOk'
  <2>1. ASSUME NEW i \in DOMAIN p
        PROVE  EntryOk(p[i], ended[p[i].key])
    <3>1. CASE i = Len(p)
      BY <1>1, <1>3, <3>1
    <3>2. CASE i # Len(p)
      BY <1>5, <1>6, <3>2 DEF EntriesOk
    <3>3. QED
      BY <3>1, <3>2
  <2>2. QED
    BY <1>7, <2>1, Zenon DEF EntriesOk, EntryOk
<1>9. Ordered'
  <2>1. ASSUME NEW i \in DOMAIN p, NEW j \in DOMAIN p, i < j
        PROVE  p[j].token.kept <= p[i].token.kept
    <3>1. i \in 1..n
      BY <1>5, <2>1
    <3>2. CASE j = Len(p)
      <4>1. cache[f[i]].token \in Tokens
        BY <1>4, <1>6, <3>1, CacheHas, EntryHas DEF CacheTypes
      <4>2. p[i].token.kept \in Nat
        BY <1>6, <3>1, <4>1, TokenHas
      <4>3. QED
        BY <1>3, <3>2, <4>2
    <3>3. CASE j # Len(p)
      <4>1. j \in 1..n
        BY <1>5, <3>3
      <4>2. f[i] < f[j]
        BY <1>2, <2>1, <3>1, <4>1 DEF Picks
      <4>3. QED
        BY <1>6, <3>1, <4>1, <4>2 DEF Ordered
    <3>4. QED
      BY <3>2, <3>3
  <2>2. QED
    BY <1>7, <2>1, Zenon DEF Ordered
<1>10. QED
  BY <1>8, <1>9

LEMMA StepRight ==
  ASSUME ExchangeTypeOK, RightInv, NEW c \in Calls, Step(c)
  PROVE  RightInv'
<1>1. CacheTypes /\ CallTypes /\ RestTypes /\ EntriesOk /\ CallsOk /\ Ordered
  BY TypeParts, Zenon DEF RightInv
<1>2. /\ Used(c) \/ Began(c) \/ Asked(c) \/ Issued(c) \/ Arrived(c) \/ Over(c)
      /\ ended' = ended
  BY StepIs, Zenon
<1>3. /\ wait[c] \in Nat /\ wait[c] <= Latency /\ Latency \in Nat
      /\ Ttl \in Nat /\ Ttl >= 1
  BY <1>1, CallHas, LongestIs
<1>4. /\ doing[c] # "idle" => subject[c] \in Subjects
      /\ doing[c] \in {"granted", "identifying"} => held[c] \in Tokens
  BY <1>1, CallHas, Zenon
<1>5. cache' = cache => EntriesOk' /\ Ordered'
  <2>1. ASSUME cache' = cache PROVE EntriesOk' /\ Ordered'
    BY <1>1, <1>2, <2>1, Zenon DEF EntriesOk, EntryOk, Ordered
  <2>2. QED
    BY <2>1
<1>6. CASE Used(c)
  <2>1. PICK s \in Subjects : \E t \in Cached(s) :
          Fresh(t) /\ Moved(c, "identifying", s, t, wait[c]) /\ cache' = cache
    BY <1>6, Zenon DEF Used
  <2>2. PICK t \in Cached(s) :
          Fresh(t) /\ Moved(c, "identifying", s, t, wait[c]) /\ cache' = cache
    BY <2>1
  <2>3. PICK i \in DOMAIN cache : cache[i].key = s /\ cache[i].token = t
    BY <1>1, CachedHas, Zenon
  <2>4. t \in Tokens
    <3>1. cache[i] \in Entries
      BY <1>1, CacheHas, Zenon DEF CacheTypes
    <3>2. QED
      BY <2>3, <3>1, EntryHas, Zenon
  <2>5. t.owner = s /\ ended[s] <= t.kept + Latency + 1
    BY <1>1, <2>2, <2>3 DEF EntriesOk, EntryOk, Fresh
  <2>6. t.kept \in Nat /\ t.life \in Nat /\ ended[s] \in Nat
    BY <1>1, <2>4, TokenHas, SessionHas
  <2>7. CallOk("identifying", s, t, wait[c], ended[s])
    BY <1>3, <2>2, <2>5, <2>6 DEF CallOk, Fresh
  <2>8. CallsOk'
    BY <1>1, <1>2, <2>2, <2>7, OthersStay
  <2>9. QED
    BY <1>5, <2>2, <2>8, Zenon DEF RightInv
<1>7. CASE Began(c)
  <2>1. PICK s \in Subjects, p \in {"asking", "discovering"} :
          /\ Moved(c, p, s, None, wait[c]) /\ cache' = Without(s)
    BY <1>7, Zenon DEF Began
  <2>2. CallsOk'
    BY <1>1, <1>2, <2>1, OthersStay
  <2>3. EntriesOk' /\ Ordered'
    BY <1>1, <1>2, <2>1, WithoutKeeps
  <2>4. QED
    BY <2>2, <2>3, Zenon DEF RightInv
<1>8. CASE Asked(c)
  <2>1. Moved(c, "asking", subject[c], None, wait[c]) /\ cache' = cache
    BY <1>8 DEF Asked
  <2>2. CallsOk'
    BY <1>1, <1>2, <2>1, OthersStay
  <2>3. QED
    BY <1>5, <2>1, <2>2, Zenon DEF RightInv
<1>9. CASE Issued(c)
  <2>1. PICK l \in Lives :
          /\ Moved(c, "granted", subject[c],
                   [owner |-> subject[c], life |-> l, kept |-> 0], wait[c])
          /\ cache' = cache
    BY <1>9, Zenon DEF Issued
  <2>2. subject[c] \in Subjects /\ ended[subject[c]] = 0
    BY <1>4, <1>9 DEF Issued
  <2> DEFINE t == [owner |-> subject[c], life |-> l, kept |-> 0]
  <2>3. t.owner = subject[c] /\ t.kept = 0
    OBVIOUS
  <2> HIDE DEF t
  <2>4. Moved(c, "granted", subject[c], t, wait[c])
    BY <2>1, Zenon DEF t
  <2>5. CallOk("granted", subject[c], t, wait[c], ended[subject[c]])
    BY <1>3, <2>2, <2>3 DEF CallOk
  <2>6. CallsOk'
    BY <1>1, <1>2, <2>4, <2>5, OthersStay
  <2>7. QED
    BY <1>5, <2>1, <2>6, Zenon DEF RightInv
<1>10. CASE Arrived(c)
  <2> DEFINE s == subject[c]
             h == held[c]
  <2>1. /\ Moved(c, "identifying", s, h, 0) /\ cache' = Put(s, h)
        /\ s \in Subjects /\ h \in Tokens
    BY <1>4, <1>10 DEF Arrived
  <2>2. h.owner = s /\ h.kept = 0 /\ ended[s] <= wait[c] + 1
    <3>1. doing[c] = "granted"
      BY <1>10 DEF Arrived
    <3>2. QED
      BY <1>1, <3>1 DEF CallsOk, CallOk
  <2>3. h.life \in Nat /\ h.life >= 1 /\ ended[s] \in Nat
    BY <1>1, <2>1, TokenHas, SessionHas
  <2> HIDE DEF s, h
  <2>4. CallOk("identifying", s, h, 0, ended[s])
    BY <1>3, <2>2, <2>3 DEF CallOk
  <2>5. CallsOk'
    BY <1>1, <1>2, <2>1, <2>4, OthersStay
  <2>6. EntryOk(Entry(s, h), ended[s])
    BY <1>3, <2>2, <2>3 DEF EntryOk, Entry, Key
  <2>7. EntriesOk' /\ Ordered'
    BY <1>1, <1>2, <2>1, <2>2, <2>6, PutKeeps
  <2>8. QED
    BY <2>5, <2>7, Zenon DEF RightInv
<1>11. CASE Over(c)
  <2>1. Moved(c, "idle", None, None, 0) /\ cache' = cache
    BY <1>11 DEF Over
  <2>2. CallsOk'
    BY <1>1, <1>2, <2>1, OthersStay
  <2>3. QED
    BY <1>5, <2>1, <2>2, Zenon DEF RightInv
<1>12. QED
  BY <1>2, <1>6, <1>7, <1>8, <1>9, <1>10, <1>11, Zenon

LEMMA EndSessionRight ==
  ASSUME ExchangeTypeOK, RightInv, NEW s \in Subjects, EndSession(s)
  PROVE  RightInv'
<1>1. /\ UNCHANGED <<cache, doing, subject, held, wait>>
      /\ ended' = [ended EXCEPT ![s] = 1]
      /\ CacheTypes /\ CallTypes /\ RestTypes /\ EntriesOk /\ CallsOk /\ Ordered
  BY TypeParts, Zenon DEF EndSession, RightInv
<1>2. \A r \in Subjects : ended'[r] = ended[r] \/ ended'[r] = 1
  BY <1>1, Zenon DEF RestTypes
<1>3. Latency \in Nat /\ Ttl \in Nat /\ Ttl >= 1
  BY LongestIs
<1>4. Ordered'
  BY <1>1, Zenon DEF Ordered
<1>5. EntriesOk'
  <2>1. ASSUME NEW i \in DOMAIN cache
        PROVE  EntryOk(cache[i], ended'[cache[i].key])
    <3>1. cache[i] \in Entries
      BY <1>1, CacheHas, Zenon DEF CacheTypes
    <3>2. cache[i].key \in Subjects /\ cache[i].token \in Tokens
      BY <3>1, EntryHas
    <3>3. cache[i].token.kept \in Nat
      BY <3>2, TokenHas
    <3>4. EntryOk(cache[i], ended[cache[i].key])
      BY <1>1 DEF EntriesOk
    <3>5. ended'[cache[i].key] = ended[cache[i].key] \/ ended'[cache[i].key] = 1
      BY <1>2, <3>2
    <3>6. QED
      BY <1>3, <3>3, <3>4, <3>5 DEF EntryOk
  <2>2. QED
    BY <1>1, <2>1, Zenon DEF EntriesOk, EntryOk
<1>6. CallsOk'
  <2>1. ASSUME NEW c \in Calls, doing[c] \in {"granted", "identifying"}
        PROVE  CallOk(doing[c], subject[c], held[c], wait[c], ended'[subject[c]])
    <3>1. wait[c] \in Nat
      BY <1>1, <1>3, CallHas
    <3>2. subject[c] \in Subjects
      BY <1>1, <2>1, CallHas
    <3>3. CallOk(doing[c], subject[c], held[c], wait[c], ended[subject[c]])
      BY <1>1, <2>1 DEF CallsOk
    <3>4. ended'[subject[c]] = ended[subject[c]] \/ ended'[subject[c]] = 1
      BY <1>2, <3>2
    <3>5. QED
      BY <1>3, <3>1, <3>3, <3>4 DEF CallOk
  <2>2. QED
    BY <1>1, <2>1, Zenon DEF CallsOk, CallOk
<1>7. QED
  BY <1>4, <1>5, <1>6, Zenon DEF RightInv

LEMMA TickRight ==
  ASSUME ExchangeTypeOK, RightInv, Tick
  PROVE  RightInv'
<1>1. CacheTypes /\ CallTypes /\ RestTypes /\ EntriesOk /\ CallsOk /\ Ordered
  BY TypeParts, Zenon DEF RightInv
<1>2. Latency \in Nat /\ Ttl \in Nat /\ Ttl >= 1 /\ Longest \in Nat /\ Ttl <= Longest
  BY LongestIs
<1>3. \A s \in Subjects : ended[s] \in Nat /\ ended'[s] \in Nat /\ ended'[s] <= ended[s] + 1
  BY <1>1, TickOfSessions, SessionHas, LongestIs DEF Oldest
<1>4. /\ DOMAIN cache' = DOMAIN cache /\ DOMAIN cache = 1..Len(cache)
      /\ Len(cache) \in Nat
  BY <1>1, TickOfCache, CacheHas, LenProperties DEF CacheTypes
<1>5. ASSUME NEW i \in DOMAIN cache
      PROVE  /\ cache[i].key \in Subjects /\ cache[i].token.kept \in Nat
             /\ cache'[i].key = cache[i].key
             /\ cache'[i].token.owner = cache[i].token.owner
             /\ cache'[i].token.kept =
                  IF cache[i].token.kept < Longest THEN cache[i].token.kept + 1
                  ELSE cache[i].token.kept
  <2>1. cache[i].key \in Subjects /\ cache[i].token \in Tokens
    BY <1>1, CacheHas, EntryHas DEF CacheTypes
  <2>2. cache'[i].key = cache[i].key /\ cache'[i].token = Kept(cache[i].token, Longest)
    BY <1>1, <1>4, TickOfCache, Zenon
  <2>3. Longest \in 0..(Longest + Latency)
    BY <1>2
  <2>4. QED
    BY <2>1, <2>2, <2>3, KeptIs, TokenHas
<1>6. EntriesOk'
  <2>1. ASSUME NEW i \in DOMAIN cache
        PROVE  EntryOk(cache'[i], ended'[cache'[i].key])
    <3>1. EntryOk(cache[i], ended[cache[i].key])
      BY <1>1 DEF EntriesOk
    <3>2. /\ ended[cache[i].key] \in Nat /\ ended'[cache[i].key] \in Nat
          /\ ended'[cache[i].key] <= ended[cache[i].key] + 1
      BY <1>3, <1>5
    <3>3. QED
      BY <1>2, <1>5, <3>1, <3>2 DEF EntryOk
  <2>2. QED
    BY <1>4, <2>1, Zenon DEF EntriesOk, EntryOk
<1>7. Ordered'
  <2>1. ASSUME NEW i \in DOMAIN cache, NEW j \in DOMAIN cache, i < j
        PROVE  cache'[j].token.kept <= cache'[i].token.kept
    <3>1. cache[j].token.kept <= cache[i].token.kept
      BY <1>1, <2>1 DEF Ordered
    <3>2. QED
      BY <1>2, <1>5, <3>1
  <2>2. QED
    BY <1>4, <2>1, Zenon DEF Ordered
<1>8. CallsOk'
  <2>1. ASSUME NEW c \in Calls, doing'[c] \in {"granted", "identifying"}
        PROVE  CallOk(doing'[c], subject'[c], held'[c], wait'[c], ended'[subject'[c]])
    <3>1. /\ doing'[c] = doing[c] /\ subject'[c] = subject[c]
          /\ doing[c] \in {"granted", "identifying"} /\ wait'[c] = wait[c] + 1
      BY <1>1, <2>1, TickOfCalls, Zenon
    <3>2. subject[c] \in Subjects /\ wait[c] \in Nat /\ held[c] \in Tokens
      BY <1>1, <1>2, <3>1, CallHas
    <3>3. held[c].kept \in Nat /\ held[c].life \in Nat
      BY <3>2, TokenHas
    <3>4. CallOk(doing[c], subject[c], held[c], wait[c], ended[subject[c]])
      BY <1>1, <3>1 DEF CallsOk
    <3>5. /\ ended[subject[c]] \in Nat /\ ended'[subject[c]] \in Nat
          /\ ended'[subject[c]] <= ended[subject[c]] + 1
      BY <1>3, <3>2
    <3>6. CASE doing[c] = "granted"
      <4>1. held'[c] = held[c]
        BY <1>1, <3>6, TickOfCalls
      <4>2. CallOk("granted", subject[c], held[c], wait[c] + 1, ended'[subject[c]])
        BY <3>2, <3>4, <3>5, <3>6 DEF CallOk
      <4>3. QED
        BY <3>1, <3>6, <4>1, <4>2
    <3>7. CASE doing[c] = "identifying"
      <4> DEFINE k == Kept(held[c], Longest + Latency)
      <4>1. held'[c] = k
        BY <1>1, <3>7, TickOfCalls
      <4>2. Longest + Latency \in 0..(Longest + Latency)
        BY <1>2
      <4>3. /\ k.owner = held[c].owner /\ k.life = held[c].life
            /\ k.kept = held[c].kept \/ k.kept = held[c].kept + 1
        BY <3>2, <4>2, KeptIs
      <4> HIDE DEF k
      <4>4. CallOk("identifying", subject[c], k, wait[c] + 1, ended'[subject[c]])
        BY <1>2, <3>2, <3>3, <3>4, <3>5, <3>7, <4>3 DEF CallOk
      <4>5. QED
        BY <3>1, <3>7, <4>1, <4>4
    <3>8. QED
      BY <3>1, <3>6, <3>7
  <2>2. QED
    BY <2>1, Zenon DEF CallsOk, CallOk
<1>9. QED
  BY <1>6, <1>7, <1>8, Zenon DEF RightInv

LEMMA RightInvariant == ExchangeSpec => []RightInv
<1>1. ExchangeInit => RightInv
  <2> SUFFICES ASSUME ExchangeInit PROVE RightInv
    OBVIOUS
  <2>1. DOMAIN cache = {}
    BY DEF ExchangeInit
  <2>2. \A c \in Calls : doing[c] = "idle"
    BY DEF ExchangeInit
  <2>3. EntriesOk /\ Ordered
    BY <2>1 DEF EntriesOk, Ordered
  <2>4. CallsOk
    BY <2>2 DEF CallsOk
  <2>5. QED
    BY <2>3, <2>4, Zenon DEF RightInv
<1>2. ExchangeTypeOK /\ RightInv /\ [ExchangeNext]_exchangeVars => RightInv'
  <2>1. ASSUME RightInv, UNCHANGED exchangeVars PROVE RightInv'
    BY <2>1, Zenon DEF RightInv, EntriesOk, EntryOk, CallsOk, CallOk, Ordered, exchangeVars
  <2>2. QED
    BY <2>1, StepRight, EndSessionRight, TickRight, Zenon DEF ExchangeNext
<1>3. QED
  BY <1>1, <1>2, TypeInvariant, PTL DEF ExchangeSpec

(* A tool is given a token that was exchanged for the upstream token of    *)
(* its own call, that has not been out of date for longer than a check     *)
(* takes, and of a session that was on, or over for no longer than an      *)
(* entry, an answer and a check last (_handle_token_exchange).             *)
THEOREM TokensAreRight == ExchangeSpec => []RightToken
<1>1. ExchangeTypeOK /\ RightInv => RightToken
  <2> SUFFICES ASSUME ExchangeTypeOK, RightInv, NEW c \in Calls, doing[c] = "identifying"
               PROVE  /\ held[c].owner = subject[c]
                      /\ held[c].kept < held[c].life + Latency
                      /\ ended[subject[c]] <= Ttl + 2 * Latency
    BY DEF RightToken
  <2>1. CallTypes /\ RestTypes /\ CallsOk
    BY TypeParts, Zenon DEF RightInv
  <2>2. CallOk("identifying", subject[c], held[c], wait[c], ended[subject[c]])
    BY <2>1 DEF CallsOk
  <2>3. subject[c] \in Subjects /\ held[c] \in Tokens /\ wait[c] \in 0..Latency
    BY <2>1, CallHas
  <2>4. /\ held[c].kept \in Nat /\ held[c].life \in Nat
        /\ ended[subject[c]] \in Nat /\ Latency \in Nat /\ Ttl \in Nat
    BY <2>1, <2>3, TokenHas, SessionHas, LongestIs
  <2>5. QED
    BY <2>2, <2>3, <2>4 DEF CallOk
<1>2. QED
  BY <1>1, TypeInvariant, RightInvariant, PTL

-----------------------------------------------------------------------------
(* What gives way.                                                         *)

LEMMA EntriesAre ==
  ASSUME NEW q, NEW e
  PROVE  e \in ToSet(q) <=> \E i \in DOMAIN q : q[i] = e
BY DEF ToSet

LEMMA KeysAre ==
  ASSUME NEW q, NEW k
  PROVE  k \in {f.key : f \in ToSet(q)} <=> \E i \in DOMAIN q : q[i].key = k
BY DEF ToSet

GivesWay(i) ==
  /\ Fresh(cache[i].token)
  /\ \A j \in DOMAIN cache' : cache'[j].key # cache[i].key

LEMMA GaveWay ==
  ASSUME ExchangeTypeOK, RightInv, [ExchangeNext]_exchangeVars,
         NEW i \in DOMAIN cache, GivesWay(i)
  PROVE  /\ Len(cache') = Capacity
         /\ \A j \in DOMAIN cache' : cache'[j].token.kept <= cache[i].token.kept
<1>1. CacheTypes /\ CallTypes /\ CallsOk /\ Ordered
  BY TypeParts, Zenon DEF RightInv
<1>2. DOMAIN cache = 1..Len(cache) /\ Len(cache) \in Nat
  BY <1>1, CacheHas DEF CacheTypes
<1>3. cache' # cache
  BY DEF GivesWay
<1>4. PICK c \in Calls : Step(c)
  <2>1. ASSUME Tick PROVE FALSE
    <3>1. cache' \in Seq(Entries) /\ Len(cache') = Len(cache)
          /\ cache'[i].key = cache[i].key
      BY <1>1, <1>2, <2>1, TickOfCache, Zenon
    <3>2. i \in DOMAIN cache'
      BY <1>2, <3>1, LenProperties
    <3>3. QED
      BY <3>1, <3>2 DEF GivesWay
  <2>2. ASSUME NEW s \in Subjects, EndSession(s) PROVE FALSE
    BY <1>3, <2>2 DEF EndSession
  <2>3. QED
    BY <1>3, <2>1, <2>2, Zenon DEF ExchangeNext, exchangeVars
<1>5. Began(c) \/ Arrived(c)
  BY <1>3, <1>4, StepIs, Zenon DEF Used, Asked, Issued, Over
<1>6. CASE Began(c)
  <2>1. PICK s \in Subjects : (\A t \in Cached(s) : ~Fresh(t)) /\ cache' = Without(s)
    BY <1>6, Zenon DEF Began
  <2>2. cache[i].key # s
    <3>1. ASSUME cache[i].key = s PROVE cache[i].token \in Cached(s)
      BY <3>1, CachedIs, Zenon
    <3>2. QED
      BY <2>1, <3>1 DEF GivesWay
  <2> DEFINE w == Without(s)
  <2>3. w \in Seq(Entries) /\ \E j \in 1..Len(w) : w[j] = cache[i]
    BY <1>1, <1>2, <2>2, WithoutIs
  <2> HIDE DEF w
  <2>4. \E j \in DOMAIN w : w[j] = cache[i]
    BY <2>3, LenProperties
  <2>5. cache' = w
    BY <2>1 DEF w
  <2>6. QED
    BY <2>4, <2>5 DEF GivesWay
<1>7. CASE Arrived(c)
  <2> DEFINE s == subject[c]
             t == held[c]
             p == Put(s, t)
             n == Len(p) - 1
  <2>1. doing[c] = "granted" /\ cache' = p
    BY <1>7 DEF Arrived
  <2>2. s \in Subjects /\ t \in Tokens /\ t.kept = 0
    BY <1>1, <2>1, CallHas DEF CallsOk, CallOk
  <2> HIDE DEF s, t
  <2>3. /\ p \in Seq(Entries) /\ n \in Nat
        /\ p[Len(p)] = Entry(s, t)
        /\ cache[i].key # s /\ (\A j \in 1..Len(p) : p[j] # cache[i]) =>
             /\ Len(p) = Capacity
             /\ \A j \in 1..n : \E k \in 1..Len(cache) : i < k /\ p[j] = cache[k]
    <3>1. Yields(p, s)
      BY <1>1, <2>2, PutIs, Zenon
    <3>2. p \in Seq(Entries) /\ n \in Nat /\ p[Len(p)] = Entry(s, t)
      BY <1>1, <2>2, PutIs
    <3> HIDE DEF p, n
    <3>3. cache[i].key # s /\ (\A j \in 1..Len(p) : p[j] # cache[i]) =>
            /\ Len(p) = Capacity
            /\ \A j \in 1..n : \E l \in 1..Len(cache) : i < l /\ p[j] = cache[l]
      BY <1>2, <3>1, Zenon DEF Yields, n
    <3>4. QED
      BY <3>2, <3>3, Zenon
  <2>4. p[Len(p)].key = s /\ p[Len(p)].token = t
    BY <2>3 DEF Entry, Key
  <2> HIDE DEF p
  <2>5. DOMAIN p = 1..Len(p) /\ Len(p) \in DOMAIN p
    BY <2>3, LenProperties
  <2>6. /\ cache[i].key # s
        /\ \A j \in 1..Len(p) : p[j] # cache[i]
    BY <2>1, <2>4, <2>5 DEF GivesWay
  <2>7. \A j \in 1..n : \E k \in DOMAIN cache : i < k /\ p[j] = cache[k]
    BY <1>2, <2>3, <2>6
  <2>8. ASSUME NEW j \in DOMAIN p
        PROVE  p[j].token.kept <= cache[i].token.kept
    <3>1. CASE j = Len(p)
      <4>1. cache[i].token \in Tokens
        BY <1>1, <1>2, CacheHas, EntryHas DEF CacheTypes
      <4>2. cache[i].token.kept \in Nat
        BY <4>1, TokenHas
      <4>3. QED
        BY <2>2, <2>4, <3>1, <4>2
    <3>2. CASE j # Len(p)
      <4>1. j \in 1..n
        BY <2>3, <2>5, <3>2
      <4>2. PICK k \in DOMAIN cache : i < k /\ p[j] = cache[k]
        BY <2>7, <4>1
      <4>3. QED
        BY <1>1, <4>2 DEF Ordered
    <3>3. QED
      BY <3>1, <3>2
  <2>9. QED
    BY <2>1, <2>3, <2>6, <2>8
<1>8. QED
  BY <1>5, <1>6, <1>7

(* An entry that could still be used is never removed for an older one,    *)
(* and never while there is room: the cache is kept in the order of the    *)
(* ages, also when what was there is put again (_exchange_cache).          *)
THEOREM OldestGoFirst == ExchangeSpec => EvictsOldest
<1>1. ExchangeTypeOK /\ RightInv /\ [ExchangeNext]_exchangeVars =>
        [\A e \in ToSet(cache) :
           Fresh(e.token) /\ e.key \notin {f.key : f \in ToSet(cache')} =>
             /\ Len(cache') = Capacity
             /\ \A f \in ToSet(cache') : f.token.kept <= e.token.kept]_cache
  <2> SUFFICES ASSUME ExchangeTypeOK, RightInv, [ExchangeNext]_exchangeVars,
                      NEW e \in ToSet(cache), Fresh(e.token),
                      e.key \notin {f.key : f \in ToSet(cache')}
               PROVE  /\ Len(cache') = Capacity
                      /\ \A f \in ToSet(cache') : f.token.kept <= e.token.kept
    OBVIOUS
  <2>1. PICK i \in DOMAIN cache : cache[i] = e
    BY EntriesAre, Zenon
  <2>2. GivesWay(i)
    BY <2>1, KeysAre, Zenon DEF GivesWay
  <2>3. /\ Len(cache') = Capacity
        /\ \A j \in DOMAIN cache' : cache'[j].token.kept <= cache[i].token.kept
    BY <2>2, GaveWay, Zenon
  <2>4. ASSUME NEW f \in ToSet(cache') PROVE f.token.kept <= e.token.kept
    <3>1. PICK j \in DOMAIN cache' : cache'[j] = f
      BY EntriesAre, Zenon
    <3>2. QED
      BY <2>1, <2>3, <3>1, Zenon
  <2>5. QED
    BY <2>3, <2>4
<1>2. QED
  BY <1>1, TypeInvariant, RightInvariant, PTL DEF ExchangeSpec, EvictsOldest
-----------------------------------------------------------------------------
(* Calls end.                                                              *)

(* The steps that a call has before it at most, by what it awaits.         *)
StepsLeft(c) ==
  CASE doing[c] = "discovering" -> 4
    [] doing[c] = "asking" -> 3
    [] doing[c] = "granted" -> 2
    [] doing[c] = "identifying" -> 1
    [] OTHER -> 0

NearsItsEnd(c) ==
  /\ doing[c] # "idle" /\ Step(c) => StepsLeft(c)' < StepsLeft(c)
  /\ doing[c] # "idle" => StepsLeft(c)' <= StepsLeft(c)

(* An exchange is over after four steps of its own at most: no other call  *)
(* that takes or replaces the entry of its upstream token, no eviction,    *)
(* expiry or end of a session sends it back to ask again                   *)
(* (AuthenticationMiddleware._handle_token_exchange).                      *)
THEOREM CallsNearTheirEnd == ExchangeSpec => [][\A c \in Calls : NearsItsEnd(c)]_exchangeVars
<1>1. ASSUME ExchangeTypeOK, [ExchangeNext]_exchangeVars,
             NEW c \in Calls, doing[c] # "idle"
      PROVE  /\ Step(c) => StepsLeft(c)' < StepsLeft(c)
             /\ StepsLeft(c)' <= StepsLeft(c)
  <2>0. CallTypes /\ doing[c] \in Pcs
    BY <1>1, TypeParts, CallHas, Zenon
  <2>1. ASSUME NEW d \in Calls, Step(d)
        PROVE  \E p \in Pcs : /\ doing' = [doing EXCEPT ![d] = p]
                              /\ doing[d] = "discovering" => p \in {"asking", "idle"}
                              /\ doing[d] = "asking" => p \in {"granted", "idle"}
                              /\ doing[d] = "granted" => p \in {"identifying", "idle"}
                              /\ doing[d] = "identifying" => p = "idle"
    <3>1. Used(d) \/ Began(d) \/ Asked(d) \/ Issued(d) \/ Arrived(d) \/ Over(d)
      BY <1>1, <2>1, StepIs, Zenon
    <3>2. QED
      BY <3>1 DEF Used, Began, Asked, Issued, Arrived, Over, Moved, Pcs
  <2>2. Step(c) => StepsLeft(c)' < StepsLeft(c)
    <3>1. SUFFICES ASSUME Step(c) PROVE StepsLeft(c)' < StepsLeft(c)
      OBVIOUS
    <3>2. PICK p \in Pcs : /\ doing' = [doing EXCEPT ![c] = p]
                           /\ doing[c] = "discovering" => p \in {"asking", "idle"}
                           /\ doing[c] = "asking" => p \in {"granted", "idle"}
                           /\ doing[c] = "granted" => p \in {"identifying", "idle"}
                           /\ doing[c] = "identifying" => p = "idle"
      BY <2>1, <3>1
    <3>3. doing'[c] = p
      BY <2>0, <3>2 DEF CallTypes
    <3>4. QED
      BY <1>1, <2>0, <3>2, <3>3 DEF StepsLeft, Pcs
  <2>3. ~Step(c) => doing'[c] = doing[c]
    <3>1. ASSUME NEW d \in Calls \ {c}, Step(d) PROVE doing'[c] = doing[c]
      <4>1. PICK p \in Pcs : doing' = [doing EXCEPT ![d] = p]
        BY <2>1, <3>1
      <4>2. QED
        BY <2>0, <4>1 DEF CallTypes
    <3>2. (Tick \/ (\E s \in Subjects : EndSession(s)) \/ UNCHANGED exchangeVars)
            => doing' = doing
      BY DEF Tick, EndSession, exchangeVars
    <3>3. QED
      BY <1>1, <3>1, <3>2 DEF ExchangeNext
  <2>4. StepsLeft(c) \in 0..4 /\ (doing'[c] = doing[c] => StepsLeft(c)' = StepsLeft(c))
    BY DEF StepsLeft
  <2>5. StepsLeft(c)' \in 0..4
    BY DEF StepsLeft
  <2>6. QED
    BY <2>2, <2>3, <2>4, <2>5
<1>2. ExchangeTypeOK /\ [ExchangeNext]_exchangeVars
        => [\A c \in Calls : NearsItsEnd(c)]_exchangeVars
  BY <1>1 DEF NearsItsEnd
<1>3. QED
  BY <1>2, TypeInvariant, PTL DEF ExchangeSpec
=============================================================================
