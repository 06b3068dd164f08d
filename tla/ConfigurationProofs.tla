----------------------- MODULE ConfigurationProofs -----------------------
(***************************************************************************)
(* The configuration watcher, for any number of watches, any values of the *)
(* sections, any overrides and any edits; and the resolver of the secrets  *)
(* in a configuration, for any backends, secrets and documents.            *)
(***************************************************************************)
EXTENDS Configuration, TLAPS, FiniteSetTheorems

(* What watch has loaded is there before it starts a thread, and the thread*)
(* that stop_watching waits for is one that was started.                   *)
CallerKnows ==
  /\ caller = "stat" => Absent \notin {current, served, started}
  /\ caller = "join" => watched # Absent

(* Without carelessness the only thread there may be is the one that is    *)
(* remembered, and watch is under way only while there is none.            *)
OnlyWatched ==
  ~careless => /\ Alive \subseteq {watched}
               /\ caller \in {"load", "stat"} => watched = Absent

(* What a thread hands to the callback has the sections that may not be    *)
(* reloaded as the configuration in force has them.                        *)
HandedOver ==
  ~careless => \A w \in Watchers, s \in NonReloadable :
    pc[w] = "callback" => hand[w][s] = started[s]

WatchInv == OnlyWatched /\ HandedOver /\ NeverReloaded

-----------------------------------------------------------------------------
(* Overriding and merging.                                                 *)

LEMMA AbsentApart ==
  /\ Absent \notin Values /\ Absent \notin Watchers /\ Absent \notin Configurations
BY ValueAssumption

LEMMA ApplyType ==
  ASSUME NEW c \in Configurations
  PROVE  ApplyEnvOverrides(c) \in Configurations
BY ValueAssumption DEF ApplyEnvOverrides, Configurations

(* Whatever a new file says may be reloaded, the sections that may not be  *)
(* stay as they are.                                                       *)
LEMMA MergeKeeps ==
  ASSUME NEW prev \in Configurations, NEW new \in Configurations
  PROVE  /\ Merge(prev, new) \in Configurations
         /\ \A s \in NonReloadable : Merge(prev, new)[s] = prev[s]
<1>1. NonReloadable \subseteq Sections
  BY DEF NonReloadable, Sections
<1>2. QED
  BY <1>1, Zenon DEF Merge, Configurations

-----------------------------------------------------------------------------
(* Types, in three parts: times, what is held where, and the rest.         *)

TimesOK ==
  /\ mtime \in 0..MaxTime /\ now \in 0..MaxTime /\ lastMtime \in 0..MaxTime
  /\ mtime <= now /\ lastMtime <= now

PlainTypes ==
  /\ file \in Configs \cup Broken
  /\ caller \in {"idle", "load", "stat", "join"}
  /\ watched \in Watchers \cup {Absent}
  /\ pc \in [Watchers -> {"unborn", "wait", "read", "merge", "callback", "ended", "killed"}]
  /\ stop \in BOOLEAN /\ hidden \in BOOLEAN /\ careless \in BOOLEAN
  /\ {current, served, started} \subseteq Configurations \cup {Absent}
  /\ hand \in [Watchers -> Configurations \cup {Absent}]

HeldWhereUsed ==
  \A w \in Watchers :
    /\ pc[w] \in {"merge", "callback"} <=> hand[w] # Absent
    /\ pc[w] # "unborn" => Absent \notin {current, served, started}

LEMMA TypeParts == TypeOK <=> TimesOK /\ PlainTypes /\ HeldWhereUsed
BY Zenon DEF TypeOK, TimesOK, PlainTypes, HeldWhereUsed

LEMMA InitTypes == Init => TypeOK /\ CallerKnows
<1> SUFFICES ASSUME Init PROVE TypeOK /\ CallerKnows
  OBVIOUS
<1>1. TimesOK
  BY BoundAssumption DEF Init, TimesOK
<1>2. PlainTypes
  BY Zenon DEF Init, PlainTypes
<1>3. HeldWhereUsed /\ CallerKnows
  BY DEF Init, HeldWhereUsed, CallerKnows
<1>4. QED
  BY <1>1, <1>2, <1>3, TypeParts, Zenon

(* The file and the time.                                                  *)
LEMMA FileTypes ==
  ASSUME TypeOK, CallerKnows, Edit \/ Remove \/ Tick
  PROVE  TypeOK' /\ CallerKnows'
<1> USE DEF fileVars, callVars, threadVars
<1>0. TimesOK /\ PlainTypes /\ HeldWhereUsed
  BY TypeParts
<1>1. TimesOK'
  BY <1>0, BoundAssumption DEF TimesOK, Edit, Remove, Tick
<1>2. hidden' \in BOOLEAN
  BY <1>0, Zenon DEF PlainTypes, Edit, Remove, Tick
<1>3. file' \in Configs \cup Broken
  BY <1>0, Zenon DEF PlainTypes, Edit, Remove, Tick, Broken
<1>4. UNCHANGED <<callVars, threadVars, current>>
  BY Zenon DEF Edit, Remove, Tick
<1>5. PlainTypes' /\ HeldWhereUsed' /\ CallerKnows'
  BY <1>0, <1>2, <1>3, <1>4, Zenon DEF PlainTypes, HeldWhereUsed, CallerKnows
<1>6. QED
  BY <1>1, <1>5, TypeParts, PTL

(* The thread that calls watch and stop_watching.                          *)
LEMMA CallerTypes ==
  ASSUME TypeOK, CallerKnows, Watch \/ Load \/ Start \/ StopWatching \/ Join
  PROVE  TypeOK' /\ CallerKnows'
<1> USE DEF fileVars, callVars, threadVars
<1>0. TimesOK /\ PlainTypes /\ HeldWhereUsed
  BY TypeParts
<1>1. TimesOK'
  BY <1>0 DEF TimesOK, Watch, Load, Start, StopWatching, Join
<1>2. /\ stop' \in BOOLEAN /\ hidden' \in BOOLEAN /\ careless' \in BOOLEAN
  BY <1>0, Zenon DEF PlainTypes, Watch, Load, Start, StopWatching, Join
<1>3. CASE Load /\ file \in Configs
  <2>1. /\ ApplyEnvOverrides(file) \in Configurations
        /\ ApplyEnvOverrides(file) # Absent
    BY <1>3, ApplyType, AbsentApart, ValueAssumption
  <2>2. /\ current' = ApplyEnvOverrides(file) /\ started' = ApplyEnvOverrides(file)
        /\ served' = ApplyEnvOverrides(file) /\ caller' = "stat"
        /\ UNCHANGED <<fileVars, stop, watched, careless, pc, hand, lastMtime>>
    BY <1>3, Zenon DEF Load
  <2>3. PlainTypes'
    BY <1>0, <1>2, <2>1, <2>2, Zenon DEF PlainTypes
  <2>4. HeldWhereUsed' /\ CallerKnows'
    BY <1>0, <2>1, <2>2 DEF HeldWhereUsed, CallerKnows
  <2>5. QED
    BY <1>1, <2>3, <2>4, TypeParts, PTL
<1>4. CASE Watch \/ (Load /\ file \notin Configs) \/ StopWatching \/ Join
  <2>1. UNCHANGED <<fileVars, threadVars, started, current>>
    BY <1>4, Zenon DEF Watch, Load, StopWatching, Join
  <2>2. /\ watched' \in {watched, Absent}
        /\ caller' \in {"load", "idle"} \/ (caller' = "join" /\ watched' # Absent)
    BY <1>4 DEF Watch, Load, StopWatching, Join
  <2>3. PlainTypes'
    BY <1>0, <1>2, <2>1, <2>2, Zenon DEF PlainTypes
  <2>4. HeldWhereUsed' /\ CallerKnows'
    BY <1>0, <2>1, <2>2 DEF HeldWhereUsed, CallerKnows
  <2>5. QED
    BY <1>1, <2>3, <2>4, TypeParts, PTL
<1>5. CASE Start
  <2>1. UNCHANGED <<fileVars, stop, started, careless, hand, served, current, hidden>>
    BY <1>5, Zenon DEF Start
  <2>2. \/ watched' = watched /\ pc' = pc
        \/ \E w \in Watchers : watched' = w /\ pc' = [pc EXCEPT ![w] = "wait"]
                                 /\ pc[w] = "unborn"
    BY <1>5, Zenon DEF Start, Goto
  <2>3. PlainTypes'
    BY <1>0, <1>5, <1>2, <2>1, <2>2, ZenonT(60) DEF PlainTypes, Start
  <2>4. HeldWhereUsed' /\ CallerKnows'
    BY <1>0, <1>5, <2>1, <2>2 DEF HeldWhereUsed, CallerKnows, PlainTypes, Start
  <2>5. QED
    BY <1>1, <2>3, <2>4, TypeParts, PTL
<1>6. QED
  BY <1>3, <1>4, <1>5, Zenon

(* The polling threads.                                                    *)
LEMMA ThreadTypes ==
  ASSUME TypeOK, CallerKnows, NEW w \in Watchers, Thread(w)
  PROVE  TypeOK' /\ CallerKnows'
<1> USE DEF fileVars, callVars, threadVars
<1>0. TimesOK /\ PlainTypes /\ HeldWhereUsed
  BY TypeParts
<1>1. TimesOK'
  <2>1. UNCHANGED fileVars /\ lastMtime' \in {lastMtime, mtime}
    BY Zenon DEF Thread, Poll, Read, MergeAndSwap, Callback
  <2>2. UNCHANGED mtime /\ UNCHANGED now
    BY <2>1
  <2>3. QED
    BY <1>0, <2>1, <2>2 DEF TimesOK
<1>2. hidden' \in BOOLEAN
  BY <1>0, Zenon DEF PlainTypes, Thread, Poll, Read, MergeAndSwap, Callback
<1>3. ASSUME NEW c \in Configurations \cup {Absent}, NEW d \in Configurations \cup {Absent},
             NEW s \in Configurations \cup {Absent},
             NEW step \in {"wait", "read", "merge", "callback", "ended", "killed"},
             UNCHANGED <<fileVars, callVars>>,
             step \in {"merge", "callback"} <=> c # Absent,
             pc[w] # "unborn", current # Absent => d # Absent, served # Absent => s # Absent,
             hand' = [hand EXCEPT ![w] = c], pc' = [pc EXCEPT ![w] = step],
             current' = d, served' = s
      PROVE  TypeOK' /\ CallerKnows'
  <2>1. PlainTypes'
    BY <1>0, <1>2, <1>3, Zenon DEF PlainTypes
  <2>2. HeldWhereUsed' /\ CallerKnows'
    BY <1>0, <1>3 DEF HeldWhereUsed, CallerKnows, PlainTypes
  <2>3. QED
    BY <1>1, <2>1, <2>2, TypeParts, PTL
<1>4. /\ current \in Configurations \cup {Absent} /\ served \in Configurations \cup {Absent}
      /\ hand[w] \in Configurations \cup {Absent} /\ hand = [hand EXCEPT ![w] = hand[w]]
  BY <1>0, Zenon DEF PlainTypes
<1>5. CASE Poll(w)
  <2>1. PICK step \in {"ended", "read"} : pc' = [pc EXCEPT ![w] = step]
    BY <1>5, Zenon DEF Poll, Goto
  <2>2. hand[w] = Absent /\ pc[w] = "wait"
    BY <1>0, <1>5 DEF Poll, HeldWhereUsed
  <2>3. UNCHANGED <<fileVars, callVars, hand, served, current>>
    BY <1>5, Zenon DEF Poll
  <2>4. QED
    BY <1>3, <1>4, <2>1, <2>2, <2>3
<1>6. CASE Read(w)
  <2>1. UNCHANGED <<fileVars, callVars, served, current>>
    BY <1>6, Zenon DEF Read
  <2>2. hand[w] = Absent /\ pc[w] = "read"
    BY <1>0, <1>6 DEF Read, HeldWhereUsed
  <2>3. CASE file \in Configs
    <3>1. ApplyEnvOverrides(file) \in Configurations /\ ApplyEnvOverrides(file) # Absent
      BY <2>3, ApplyType, AbsentApart, ValueAssumption
    <3>2. /\ hand' = [hand EXCEPT ![w] = ApplyEnvOverrides(file)]
          /\ pc' = [pc EXCEPT ![w] = "merge"]
      BY <1>6, <2>3, Zenon DEF Read, Goto
    <3>3. QED
      BY <1>3, <1>4, <2>1, <2>2, <3>1, <3>2
  <2>4. CASE file \notin Configs
    <3>1. PICK step \in {"wait", "killed"} : pc' = [pc EXCEPT ![w] = step] /\ hand' = hand
      BY <1>6, <2>4, Zenon DEF Read, Goto
    <3>2. QED
      BY <1>3, <1>4, <2>1, <2>2, <3>1
  <2>5. QED
    BY <2>3, <2>4
<1>7. CASE MergeAndSwap(w)
  <2>1. /\ hand[w] \in Configurations /\ current \in Configurations /\ pc[w] = "merge"
    BY <1>0, <1>4, <1>7 DEF MergeAndSwap, HeldWhereUsed
  <2>2. PICK merged \in Configurations : merged = Merge(current, hand[w])
    BY <2>1, MergeKeeps
  <2>3. /\ current' = merged /\ served' = served
        /\ hand' = [hand EXCEPT ![w] = merged]
        /\ UNCHANGED <<fileVars, callVars>>
    BY <1>7, <2>2, Zenon DEF MergeAndSwap
  <2>4. pc' = [pc EXCEPT ![w] = "callback"]
    BY <1>7, Zenon DEF MergeAndSwap, Goto
  <2>5. merged \in Configurations \cup {Absent} /\ merged # Absent /\ pc[w] # "unborn"
    BY <2>1, AbsentApart
  <2>6. "callback" \in {"merge", "callback"} <=> merged # Absent
    BY <2>5
  <2>7. QED
    BY <1>3, <1>4, <2>3, <2>4, <2>5, <2>6, Zenon
<1>8. CASE Callback(w)
  <2>1. PICK step \in {"wait", "killed"} : pc' = [pc EXCEPT ![w] = step]
    BY <1>8, Zenon DEF Callback, Goto
  <2>2. /\ served' = hand[w] /\ hand' = [hand EXCEPT ![w] = Absent]
        /\ UNCHANGED <<fileVars, callVars, current>>
    BY <1>8, Zenon DEF Callback
  <2>3. hand[w] # Absent /\ pc[w] = "callback"
    BY <1>0, <1>8 DEF Callback, HeldWhereUsed
  <2>4. QED
    BY <1>3, <1>4, <2>1, <2>2, <2>3
<1>9. QED
  BY <1>5, <1>6, <1>7, <1>8 DEF Thread

LEMMA NextTypes == TypeOK /\ CallerKnows /\ [Next]_vars => TypeOK' /\ CallerKnows'
<1> SUFFICES ASSUME TypeOK, CallerKnows, [Next]_vars PROVE TypeOK' /\ CallerKnows'
  OBVIOUS
<1>1. CASE UNCHANGED vars
  BY <1>1, Zenon DEF vars, fileVars, callVars, threadVars, TypeOK, CallerKnows
<1>2. CASE Next
  BY <1>2, FileTypes, CallerTypes, ThreadTypes, Zenon DEF Next
<1>3. QED
  BY <1>1, <1>2, Zenon

(* Every state of the watcher is of the types; whoever is to merge or to   *)
(* call back has something in hand, and something to merge it into.        *)
THEOREM TypeInvariant == Spec => [](TypeOK /\ CallerKnows)
BY InitTypes, NextTypes, PTL DEF Spec

-----------------------------------------------------------------------------
(* One thread at a time, and nothing reloaded that may not be.             *)

LEMMA InitWatch == Init => WatchInv
BY AbsentApart DEF Init, WatchInv, OnlyWatched, HandedOver, NeverReloaded, Alive

(* A step that leaves alone what is held, who is watched and where the     *)
(* threads are, and is as careless as before, or more, leaves the invariant*)
(* to what it says of watch.                                               *)
LEMMA SameHeld ==
  ASSUME WatchInv, careless => careless',
         UNCHANGED <<pc, hand, served, current, started, watched>>,
         caller' \in {"load", "stat"} => caller' = caller \/ careless' \/ watched = Absent
  PROVE  WatchInv'
BY DEF WatchInv, OnlyWatched, HandedOver, NeverReloaded, Alive

LEMMA FileWatch ==
  ASSUME WatchInv, Edit \/ Remove \/ Tick
  PROVE  WatchInv'
<1>1. UNCHANGED <<pc, hand, served, current, started, watched, careless, caller>>
  BY DEF Edit, Remove, Tick, callVars, threadVars
<1>2. QED
  BY <1>1, SameHeld

LEMMA CallerWatch ==
  ASSUME TypeOK, CallerKnows, WatchInv, Watch \/ Load \/ Start \/ StopWatching \/ Join
  PROVE  WatchInv'
<1> USE DEF fileVars, callVars, threadVars
<1>0. TimesOK /\ PlainTypes /\ HeldWhereUsed
  BY TypeParts
<1>1. CASE Watch
  <2>1. /\ UNCHANGED <<pc, hand, served, current, started, watched>>
        /\ careless' = (careless \/ watched # Absent)
    BY <1>1, Zenon DEF Watch
  <2>2. QED
    BY <2>1, SameHeld, Zenon
<1>2. CASE Load
  <2>1. CASE file \notin Configs
    <3>1. /\ UNCHANGED <<pc, hand, served, current, started, watched, careless>>
          /\ caller' = "idle"
      BY <1>2, <2>1, Zenon DEF Load
    <3>2. QED
      BY <3>1, SameHeld
  <2>2. CASE file \in Configs
    <3>1. /\ current' = started' /\ served' = started' /\ caller' = "stat"
          /\ UNCHANGED <<pc, hand, watched, careless>>
      BY <1>2, <2>2, Zenon DEF Load
    <3>2. ~careless => watched = Absent /\ Alive = {}
      BY <1>2, AbsentApart DEF Load, WatchInv, OnlyWatched, Alive
    <3>3. ~careless => \A w \in Watchers : pc[w] # "callback"
      BY <3>2 DEF Alive
    <3>4. QED
      BY <3>1, <3>2, <3>3 DEF WatchInv, OnlyWatched, HandedOver, NeverReloaded, Alive
  <2>3. QED
    BY <2>1, <2>2
<1>3. CASE Start
  <2>1. UNCHANGED <<started, careless, hand, served, current>> /\ caller' = "idle"
    BY <1>3 DEF Start
  <2>2. ~careless => Alive = {}
    BY <1>3, AbsentApart DEF Start, WatchInv, OnlyWatched, Alive
  <2>3. CASE file = Gone
    BY <1>3, <2>1, <2>3, SameHeld DEF Start
  <2>4. CASE file # Gone
    <3>1. PICK w \in Watchers : watched' = w /\ pc' = [pc EXCEPT ![w] = "wait"]
      BY <1>3, <2>4, Zenon DEF Start, Goto
    <3>2. \A v \in Watchers : pc'[v] = IF v = w THEN "wait" ELSE pc[v]
      BY <1>0, <3>1 DEF PlainTypes
    <3>3. Alive' \subseteq Alive \cup {w}
      BY <3>2 DEF Alive
    <3>4. OnlyWatched'
      BY <2>1, <2>2, <3>1, <3>3 DEF OnlyWatched
    <3>5. HandedOver' /\ NeverReloaded'
      BY <2>1, <3>2 DEF WatchInv, HandedOver, NeverReloaded
    <3>6. QED
      BY <3>4, <3>5 DEF WatchInv
  <2>5. QED
    BY <2>3, <2>4
<1>4. CASE StopWatching
  <2>1. /\ UNCHANGED <<pc, hand, served, current, started, watched, careless>>
        /\ caller' \in {"idle", "join"}
    BY <1>4 DEF StopWatching
  <2>2. QED
    BY <2>1, SameHeld
<1>5. CASE Join
  <2>1. /\ UNCHANGED <<pc, hand, served, current, started>>
        /\ careless' = (careless \/ watched \in Alive)
        /\ caller' = "idle" /\ watched' = Absent
    BY <1>5, Zenon DEF Join
  <2>2. ~careless' => ~careless /\ Alive = {}
    BY <2>1, Zenon DEF WatchInv, OnlyWatched
  <2>3. Alive' = Alive
    BY <2>1 DEF Alive
  <2>4. QED
    BY <2>1, <2>2, <2>3 DEF WatchInv, OnlyWatched, HandedOver, NeverReloaded
<1>6. QED
  BY <1>1, <1>2, <1>3, <1>4, <1>5

LEMMA ThreadWatch ==
  ASSUME TypeOK, CallerKnows, WatchInv, NEW w \in Watchers, Thread(w)
  PROVE  WatchInv'
<1> USE DEF fileVars, callVars, threadVars
<1>0. TimesOK /\ PlainTypes /\ HeldWhereUsed
  BY TypeParts
<1>1. /\ UNCHANGED <<caller, watched, started, careless>>
      /\ w \in Alive
      /\ \A v \in Watchers \ {w} : pc'[v] = pc[v] /\ hand'[v] = hand[v]
  BY <1>0 DEF PlainTypes, Alive, Thread, Poll, Read, MergeAndSwap, Callback, Goto
<1>2. OnlyWatched'
  BY <1>1 DEF WatchInv, OnlyWatched, Alive
<1>3. CASE Poll(w) \/ Read(w)
  <2>1. UNCHANGED <<served, current>> /\ pc'[w] # "callback"
    BY <1>0, <1>3 DEF PlainTypes, Poll, Read, Goto
  <2>2. HandedOver' /\ NeverReloaded'
    BY <1>1, <2>1 DEF WatchInv, HandedOver, NeverReloaded
  <2>3. QED
    BY <1>2, <2>2 DEF WatchInv
<1>4. CASE MergeAndSwap(w)
  <2>1. hand[w] \in Configurations /\ current \in Configurations
    BY <1>0, <1>4 DEF MergeAndSwap, HeldWhereUsed, PlainTypes
  <2>2. /\ current' = Merge(current, hand[w]) /\ served' = served
        /\ hand' = [hand EXCEPT ![w] = Merge(current, hand[w])]
    BY <1>4, Zenon DEF MergeAndSwap
  <2>3. \A s \in NonReloadable : current'[s] = current[s]
    BY <2>1, <2>2, MergeKeeps
  <2>4. hand'[w] = current'
    BY <1>0, <2>2 DEF PlainTypes
  <2>5. \A s \in NonReloadable : current[s] = started[s]
    BY <2>1, AbsentApart DEF WatchInv, NeverReloaded
  <2>6. HandedOver' /\ NeverReloaded'
    BY <1>1, <2>2, <2>3, <2>4, <2>5 DEF WatchInv, HandedOver, NeverReloaded
  <2>7. QED
    BY <1>2, <2>6 DEF WatchInv
<1>5. CASE Callback(w)
  <2>1. served' = hand[w] /\ UNCHANGED current /\ pc[w] = "callback" /\ pc'[w] # "callback"
    BY <1>0, <1>5 DEF PlainTypes, Callback, Goto
  <2>2. HandedOver' /\ NeverReloaded'
    BY <1>1, <2>1 DEF WatchInv, HandedOver, NeverReloaded
  <2>3. QED
    BY <1>2, <2>2 DEF WatchInv
<1>6. QED
  BY <1>3, <1>4, <1>5 DEF Thread

LEMMA NextWatch == TypeOK /\ CallerKnows /\ WatchInv /\ [Next]_vars => WatchInv'
<1> SUFFICES ASSUME TypeOK, CallerKnows, WatchInv, [Next]_vars PROVE WatchInv'
  OBVIOUS
<1>1. CASE UNCHANGED vars
  BY <1>1, SameHeld DEF vars, fileVars, callVars, threadVars
<1>2. CASE Next
  BY <1>2, FileWatch, CallerWatch, ThreadWatch, Zenon DEF Next
<1>3. QED
  BY <1>1, <1>2, Zenon

LEMMA WatchInvariant == Spec => []WatchInv
BY TypeInvariant, InitWatch, NextWatch, PTL DEF Spec

(* ConfigLoader._reload_config, _merge_configs: however many threads poll  *)
(* and merge, the configuration in force keeps its identity provider and   *)
(* its sessions; so does what the application is given, if it stops one    *)
(* watch before the next.  That takes the other two parts of the           *)
(* invariant: a merge that an older thread still holds would hand over     *)
(* the sections of an earlier load.                                        *)
THEOREM NothingForbiddenReloaded == Spec => []NeverReloaded
BY WatchInvariant, PTL DEF WatchInv

(* ConfigLoader.watch, stop_watching: without carelessness there is at most*)
(* one thread, and none once stop_watching has returned.                   *)
THEOREM OneThread == Spec => []OneWatcher
<1>1. ASSUME OnlyWatched PROVE OneWatcher
  <2> SUFFICES ASSUME ~careless
               PROVE  Cardinality(Alive) <= 1 /\ (watched = Absent => Alive = {})
    BY DEF OneWatcher
  <2>1. Alive = {} \/ Alive = {watched}
    BY <1>1 DEF OnlyWatched
  <2>2. Cardinality({}) = 0 /\ Cardinality({watched}) = 1
    BY FS_EmptySet, FS_Singleton, Zenon
  <2>3. watched = Absent => Alive = {}
    BY <1>1, AbsentApart DEF OnlyWatched, Alive
  <2>4. Cardinality(Alive) = 0 \/ Cardinality(Alive) = 1
    BY <2>1, <2>2, Zenon
  <2>5. QED
    BY <2>3, <2>4
<1>2. WatchInv => OneWatcher
  BY <1>1 DEF WatchInv
<1>3. QED
  BY <1>2, WatchInvariant, PTL

-----------------------------------------------------------------------------
(* Nothing missed.                                                         *)

OfFile == ApplyEnvOverrides(file)

(* What c says may be reloaded is in h.                                    *)
Holds(h, c) == \A s \in Reloadable(c) \ NonReloadable : h[s] = c[s]

(* While the modification time is as recorded and no edit is hidden, every *)
(* step of a reload has what the file says, from the read to the callback; *)
(* and so has watch, between its load and its thread.                      *)
UpToDate ==
  ~careless /\ ~hidden /\ file \in Configs =>
    /\ caller = "stat" => served = OfFile
    /\ mtime = lastMtime => \A w \in Watchers :
         /\ pc[w] = "wait" => Holds(served, OfFile)
         /\ pc[w] = "merge" => hand[w] = OfFile
         /\ pc[w] = "callback" => Holds(hand[w], OfFile)

LEMMA MergeTakes ==
  ASSUME NEW prev \in Configurations, NEW new \in Configurations
  PROVE  Holds(Merge(prev, new), new)
<1>1. new["hot_reload"] \in Values \cup {Absent}
  BY DEF Configurations, Sections
<1>2. Reloadable(new) \subseteq Sections
  BY <1>1, ValueAssumption DEF Reloadable, Sections
<1>3. QED
  BY <1>2, Zenon DEF Holds, Merge

(* Without carelessness, while one thread is alive no other is, and watch  *)
(* is not under way.                                                       *)
LEMMA AloneAtWork ==
  ASSUME WatchInv, ~careless, NEW w \in Watchers, w \in Alive
  PROVE  /\ caller \notin {"load", "stat"}
         /\ \A v \in Watchers \ {w} : v \notin Alive
BY AbsentApart DEF WatchInv, OnlyWatched, Alive

LEMMA FileUpToDate ==
  ASSUME TypeOK, WatchInv, UpToDate, Edit \/ Remove \/ Tick
  PROVE  UpToDate'
<1> USE DEF callVars, threadVars
<1>1. CASE Edit
  <2> SUFFICES ASSUME ~careless, ~hidden', mtime' = lastMtime'
               PROVE  \A w \in Watchers : pc[w] \notin {"wait", "merge", "callback"}
    BY <1>1 DEF Edit, Unnoticed, UpToDate
  <2>1. PICK v \in Alive : pc[v] = "read"
    BY <1>1 DEF Edit, Unnoticed
  <2>2. \A w \in Watchers \ {v} : w \notin Alive
    BY <2>1, AloneAtWork DEF Alive
  <2>3. QED
    BY <2>1, <2>2 DEF Alive
<1>2. CASE Remove
  <2>1. file' \notin Configs
    BY <1>2, ValueAssumption DEF Remove, Broken
  <2>2. QED
    BY <2>1 DEF UpToDate
<1>3. CASE Tick
  BY <1>3 DEF Tick, UpToDate, OfFile
<1>4. QED
  BY <1>1, <1>2, <1>3

LEMMA CallerUpToDate ==
  ASSUME TypeOK, WatchInv, UpToDate, Watch \/ Load \/ Start \/ StopWatching \/ Join
  PROVE  UpToDate'
<1> USE DEF fileVars, threadVars
<1>1. CASE Watch \/ StopWatching \/ Join
  <2>1. UNCHANGED <<file, mtime, lastMtime, hidden, pc, hand, served>> /\ caller' # "stat"
    BY <1>1 DEF Watch, StopWatching, Join
  <2>2. careless => careless'
    BY <1>1, Zenon DEF Watch, StopWatching, Join
  <2>3. QED
    BY <2>1, <2>2 DEF UpToDate, OfFile
<1>2. CASE Load
  <2>1. CASE file \in Configs
    <3>1. /\ UNCHANGED <<file, pc, careless>> /\ served' = OfFile
      BY <1>2, <2>1, Zenon DEF Load, OfFile
    <3>2. ~careless => \A w \in Watchers : w \notin Alive
      BY <1>2, AloneAtWork DEF Load
    <3>3. QED
      BY <3>1, <3>2 DEF UpToDate, OfFile, Alive
  <2>2. CASE file \notin Configs
    BY <1>2, <2>2 DEF Load, UpToDate
  <2>3. QED
    BY <2>1, <2>2
<1>3. CASE Start
  <2>1. /\ UNCHANGED <<file, mtime, careless, hand, served, hidden>>
        /\ caller = "stat" /\ caller' = "idle"
    BY <1>3 DEF Start
  <2>2. ~careless => \A w \in Watchers : w \notin Alive
    BY <2>1, AloneAtWork
  <2>3. \A w \in Watchers : pc'[w] = pc[w] \/ pc'[w] = "wait"
    BY <1>3 DEF Start, Goto, TypeOK
  <2>4. ~careless /\ ~hidden /\ file \in Configs => Holds(served, OfFile)
    BY <2>1 DEF UpToDate, Holds
  <2>5. QED
    BY <2>1, <2>2, <2>3, <2>4 DEF UpToDate, OfFile, Alive
<1>4. QED
  BY <1>1, <1>2, <1>3

LEMMA ThreadUpToDate ==
  ASSUME TypeOK, WatchInv, UpToDate, NEW w \in Watchers, Thread(w)
  PROVE  UpToDate'
<1> USE DEF fileVars, callVars, threadVars
<1>0. /\ pc \in [Watchers -> {"unborn", "wait", "read", "merge", "callback", "ended", "killed"}]
      /\ hand \in [Watchers -> Configurations \cup {Absent}]
      /\ pc[w] # "unborn" => current \in Configurations
      /\ pc[w] = "merge" => hand[w] \in Configurations
  BY DEF TypeOK
<1>1. /\ UNCHANGED <<file, mtime, caller, careless>>
      /\ w \in Alive
      /\ \A v \in Watchers \ {w} : pc'[v] = pc[v]
  BY <1>0 DEF Alive, Thread, Poll, Read, MergeAndSwap, Callback, Goto
<1>2. ~careless => caller # "stat" /\ \A v \in Watchers \ {w} : v \notin Alive
  BY <1>1, AloneAtWork
<1> SUFFICES ASSUME ~careless, ~hidden', file \in Configs
             PROVE  mtime = lastMtime' =>
                      /\ pc'[w] = "wait" => Holds(served', OfFile)
                      /\ pc'[w] = "merge" => hand'[w] = OfFile
                      /\ pc'[w] = "callback" => Holds(hand'[w], OfFile)
  BY <1>1, <1>2 DEF UpToDate, OfFile, Alive
<1>3. CASE Poll(w)
  BY <1>0, <1>3 DEF Poll, Goto
<1>4. CASE Read(w)
  BY <1>0, <1>4 DEF Read, Goto, OfFile
<1>5. CASE MergeAndSwap(w)
  <2>1. /\ pc'[w] = "callback" /\ hand'[w] = Merge(current, hand[w])
        /\ UNCHANGED <<lastMtime, hidden>> /\ pc[w] = "merge"
    BY <1>0, <1>5 DEF MergeAndSwap, Goto
  <2>2. mtime = lastMtime => hand[w] = OfFile
    BY <2>1 DEF UpToDate
  <2>3. Holds(Merge(current, hand[w]), hand[w])
    BY <1>0, <2>1, MergeTakes
  <2>4. QED
    BY <2>1, <2>2, <2>3
<1>6. CASE Callback(w)
  <2>1. /\ pc'[w] \in {"wait", "killed"} /\ served' = hand[w]
        /\ UNCHANGED <<lastMtime, hidden>> /\ pc[w] = "callback"
    BY <1>0, <1>6 DEF Callback, Goto
  <2>2. QED
    BY <2>1 DEF UpToDate
<1>7. QED
  BY <1>3, <1>4, <1>5, <1>6 DEF Thread

(* ConfigLoader.watch: no edit falls between a poll, its read and its      *)
(* callback so that the thread rests on an older file, but for those that  *)
(* leave the modification time as it was.  The time is recorded before the *)
(* file is read; that is what carries it.                                  *)
THEOREM NoEditMissed == Spec => []NothingMissed
<1>1. Init => UpToDate
  BY DEF Init, UpToDate
<1>2. TypeOK /\ WatchInv /\ UpToDate /\ [Next]_vars => UpToDate'
  <2> SUFFICES ASSUME TypeOK, WatchInv, UpToDate, [Next]_vars PROVE UpToDate'
    OBVIOUS
  <2>1. CASE UNCHANGED vars
    BY <2>1 DEF vars, fileVars, callVars, threadVars, UpToDate, OfFile
  <2>2. CASE Next
    BY <2>2, FileUpToDate, CallerUpToDate, ThreadUpToDate, Zenon DEF Next
  <2>3. QED
    BY <2>1, <2>2
<1>3. UpToDate => NothingMissed
  BY DEF UpToDate, NothingMissed, InForce, Holds, OfFile
<1>4. QED
  BY <1>1, <1>2, <1>3, TypeInvariant, WatchInvariant, PTL DEF Spec

-----------------------------------------------------------------------------
(* The resolver: what is kept is a secret and its age.                     *)

Kept == [value : Secrets, age : 0..CacheTtl]

(* A secret that is kept has been wrong for no longer than it is kept.     *)
NotOlderThanKept ==
  \A r \in References : kept[r] # Missing => wrongFor[r] <= kept[r].age

LEMMA MissingApart == Missing \notin Secrets /\ Missing \notin Kept
BY BackendAssumption DEF Kept

(* A backend answers with a secret or not at all.                          *)
LEMMA AnswerType ==
  ASSUME SecretTypeOK, NEW r \in References
  PROVE  Answer(r) \in Secrets \cup {Missing}
<1>1. r.name \in BackendNames /\ r.key \in SecretKeys
  BY DEF References
<1>2. backends[r.name] \in Backends \cup {NoBackend}
  BY <1>1 DEF SecretTypeOK
<1>3. ASSUME backends[r.name] \in Backends
      PROVE  holds[backends[r.name]][r.key] \in Secrets \cup {Missing}
  BY <1>1, <1>3 DEF SecretTypeOK
<1>4. QED
  BY <1>2, <1>3 DEF Answer

(* Resolving leaves in the cache what was there, or the answer at age 0.   *)
LEMMA SingleCases ==
  ASSUME SecretTypeOK, NEW r \in References
  PROVE  \/ /\ kept[r] \in Kept /\ kept[r].age < CacheTtl
            /\ ResolveSingle(r) = kept[r]
         \/ Answer(r) = Missing /\ ResolveSingle(r) = Missing
         \/ /\ Answer(r) \in Secrets
            /\ ResolveSingle(r) = [value |-> Answer(r), age |-> 0]
<1>1. kept[r] \in Kept \cup {Missing}
  BY DEF SecretTypeOK, Kept
<1>2. Answer(r) \in Secrets \cup {Missing}
  BY AnswerType
<1>3. CASE Fresh(r)
  BY <1>1, <1>3, Zenon DEF Fresh, ResolveSingle
<1>4. CASE ~Fresh(r) /\ Answer(r) = Missing
  BY <1>4, Zenon DEF ResolveSingle
<1>5. CASE ~Fresh(r) /\ Answer(r) # Missing
  BY <1>2, <1>5, Zenon DEF ResolveSingle
<1>6. QED
  BY <1>3, <1>4, <1>5

LEMMA SingleType ==
  ASSUME SecretTypeOK, NEW r \in References
  PROVE  ResolveSingle(r) \in Kept \cup {Missing}
<1>1. 0 \in 0..CacheTtl
  BY CacheTtlAssumption
<1>2. \A v \in Secrets : [value |-> v, age |-> 0] \in Kept
  BY <1>1 DEF Kept
<1>3. QED
  BY <1>2, SingleCases

(* What a configuration asks for are references.                           *)
LEMMA AskedAreReferences ==
  ASSUME NEW d \in Documents, NEW places \in SUBSET DOMAIN d
  PROVE  ResolveValue(d, places) \subseteq References
<1>1. d \in Seq(Occurrences)
  BY DocumentAssumption
<1>2. \A n \in DOMAIN d : d[n] \in Occurrences
  BY <1>1
<1>3. \A n \in DOMAIN d : d[n].ref \in References
  BY <1>2 DEF Occurrences
<1>4. QED
  BY <1>3, Zenon DEF ResolveValue

(* What a resolution does, told apart from what it asks for.               *)
LEMMA ResolvingDoes ==
  ASSUME NEW d \in Documents, ResolveConfig(d)
  PROVE  \E asked \in SUBSET References :
           /\ kept' = [r \in References |->
                         IF r \in asked THEN ResolveSingle(r) ELSE kept[r]]
           /\ resolved' = [taken |-> {[ref |-> r, value |-> ResolveSingle(r).value] :
                             r \in {q \in asked : ResolveSingle(q) # Missing}},
                           failed |-> {r \in asked : ResolveSingle(r) = Missing}]
           /\ wrongFor' = [r \in References |->
                             IF kept'[r] = Missing \/ kept'[r].value = Answer(r)
                             THEN 0 ELSE wrongFor[r]]
           /\ UNCHANGED <<backends, holds>>
<1> DEFINE shallow == {n \in DOMAIN d : d[n].at # "deeper"}
           asked == ResolveValue(d, shallow)
<1>1. asked \in SUBSET References
  BY AskedAreReferences
<1>2. asked \ {r \in asked : ResolveSingle(r) = Missing}
        = {q \in asked : ResolveSingle(q) # Missing}
  BY Zenon
<1>3. /\ kept' = [r \in References |->
                    IF r \in asked THEN ResolveSingle(r) ELSE kept[r]]
      /\ resolved' = [taken |-> {[ref |-> r, value |-> ResolveSingle(r).value] :
                        r \in asked \ {q \in asked : ResolveSingle(q) = Missing}},
                      failed |-> {r \in asked : ResolveSingle(r) = Missing}]
      /\ wrongFor' = [r \in References |->
                        IF kept'[r] = Missing \/ kept'[r].value = Answer(r)
                        THEN 0 ELSE wrongFor[r]]
      /\ UNCHANGED <<backends, holds>>
  BY Zenon DEF ResolveConfig
<1> HIDE DEF asked, shallow
<1>4. QED
  BY <1>1, <1>2, <1>3, Zenon

LEMMA SecretTypes ==
  ASSUME SecretTypeOK, [SecretNext]_resolverVars
  PROVE  SecretTypeOK'
<1>0. /\ backends \in [BackendNames -> Backends \cup {NoBackend}]
      /\ holds \in [Backends -> [SecretKeys -> Secrets \cup {Missing}]]
      /\ kept \in [References -> Kept \cup {Missing}]
      /\ wrongFor \in [References -> Nat]
  BY DEF SecretTypeOK, Kept
<1>1. NothingResolved \in [taken : SUBSET [ref : References, value : Secrets],
                           failed : SUBSET References]
  BY DEF NothingResolved
<1>2. ASSUME NEW d \in Documents, ResolveConfig(d) PROVE SecretTypeOK'
  <2>1. PICK asked \in SUBSET References :
           /\ kept' = [r \in References |->
                         IF r \in asked THEN ResolveSingle(r) ELSE kept[r]]
           /\ resolved' = [taken |-> {[ref |-> r, value |-> ResolveSingle(r).value] :
                             r \in {q \in asked : ResolveSingle(q) # Missing}},
                           failed |-> {r \in asked : ResolveSingle(r) = Missing}]
           /\ wrongFor' = [r \in References |->
                             IF kept'[r] = Missing \/ kept'[r].value = Answer(r)
                             THEN 0 ELSE wrongFor[r]]
           /\ UNCHANGED <<backends, holds>>
    BY <1>2, ResolvingDoes, Zenon
  <2>2. \A r \in References : ResolveSingle(r) \in Kept \cup {Missing}
    BY SingleType
  <2>3. kept' \in [References -> Kept \cup {Missing}]
    BY <1>0, <2>1, <2>2, Zenon
  <2>4. wrongFor' \in [References -> Nat]
    BY <1>0, <2>1
  <2>5. \A r \in asked : ResolveSingle(r) # Missing
                           => ResolveSingle(r).value \in Secrets
    BY <2>2 DEF Kept
  <2>6. /\ {[ref |-> r, value |-> ResolveSingle(r).value] :
              r \in {q \in asked : ResolveSingle(q) # Missing}}
             \in SUBSET [ref : References, value : Secrets]
        /\ {r \in asked : ResolveSingle(r) = Missing} \in SUBSET References
    BY <2>1, <2>5
  <2>7. resolved' \in [taken : SUBSET [ref : References, value : Secrets],
                       failed : SUBSET References]
    BY <2>1, <2>6, Zenon
  <2>8. QED
    BY <1>0, <2>1, <2>3, <2>4, <2>7, Zenon DEF SecretTypeOK, Kept
<1>3. ASSUME NEW n \in BackendNames, NEW b \in Backends, RegisterBackend(n, b)
      PROVE  SecretTypeOK'
  <2>1. backends' \in [BackendNames -> Backends \cup {NoBackend}]
    BY <1>0, <1>3 DEF RegisterBackend
  <2>2. QED
    BY <1>0, <1>1, <1>3, <2>1, Zenon DEF RegisterBackend, SecretTypeOK, Kept
<1>4. ASSUME NEW b \in Backends, NEW key \in SecretKeys,
             NEW to \in Secrets \cup {Missing}, Rotate(b, key, to)
      PROVE  SecretTypeOK'
  <2>1. holds' \in [Backends -> [SecretKeys -> Secrets \cup {Missing}]]
    BY <1>0, <1>4 DEF Rotate
  <2>2. QED
    BY <1>0, <1>1, <1>4, <2>1, Zenon DEF Rotate, SecretTypeOK, Kept
<1>5. ASSUME Older PROVE SecretTypeOK'
  <2>1. \A c \in Kept : c.age # CacheTtl => [c EXCEPT !.age = @ + 1] \in Kept
    BY CacheTtlAssumption DEF Kept
  <2>2. kept' \in [References -> Kept \cup {Missing}]
    <3>1. ASSUME NEW r \in References
          PROVE  (IF kept[r] = Missing \/ kept[r].age = CacheTtl THEN kept[r]
                  ELSE [kept[r] EXCEPT !.age = @ + 1]) \in Kept \cup {Missing}
      BY <1>0, <2>1
    <3>2. QED
      BY <1>5, <3>1, Zenon DEF Older
  <2>3. wrongFor' \in [References -> Nat]
    BY <1>0, <1>5, CacheTtlAssumption DEF Older
  <2>4. QED
    BY <1>0, <1>1, <1>5, <2>2, <2>3, Zenon DEF Older, SecretTypeOK, Kept
<1>6. ASSUME UNCHANGED resolverVars PROVE SecretTypeOK'
  BY <1>0, <1>6 DEF resolverVars, SecretTypeOK
<1>7. QED
  BY <1>2, <1>3, <1>4, <1>5, <1>6, Zenon DEF SecretNext

(* The resolver's cache holds a secret and its age under a reference, or   *)
(* nothing, whatever is registered and rotated (SecretResolver._cache).    *)
THEOREM SecretTypeInvariant == SecretSpec => []SecretTypeOK
<1>1. SecretInit => SecretTypeOK
  <2> SUFFICES ASSUME SecretInit PROVE SecretTypeOK
    OBVIOUS
  <2>1. /\ backends \in [BackendNames -> Backends \cup {NoBackend}]
        /\ holds \in [Backends -> [SecretKeys -> Secrets \cup {Missing}]]
    BY BackendAssumption DEF SecretInit
  <2>2. /\ kept \in [References -> [value : Secrets, age : 0..CacheTtl] \cup {Missing}]
        /\ wrongFor \in [References -> Nat]
    BY DEF SecretInit
  <2>3. resolved \in [taken : SUBSET [ref : References, value : Secrets],
                      failed : SUBSET References]
    BY DEF SecretInit, NothingResolved
  <2>4. QED
    BY <2>1, <2>2, <2>3, Zenon DEF SecretTypeOK
<1>2. SecretTypeOK /\ [SecretNext]_resolverVars => SecretTypeOK'
  BY SecretTypes
<1>3. QED
  BY <1>1, <1>2, PTL DEF SecretSpec

(* File and secrets keep their types, each whatever the other does.        *)
THEOREM ConfigurationTypes == ConfigurationSpec => []ConfigurationTypeOK
BY TypeInvariant, SecretTypeInvariant, PTL DEF ConfigurationSpec, ConfigurationTypeOK

(* The time that something kept is wrong starts at 0 and does not outrun   *)
(* the age: what is stored is right, and what is used again is not younger *)
(* for it.                                                                 *)
LEMMA AgeCovers ==
  ASSUME SecretTypeOK, NotOlderThanKept, [SecretNext]_resolverVars
  PROVE  NotOlderThanKept'
<1>0. /\ kept \in [References -> Kept \cup {Missing}]
      /\ wrongFor \in [References -> Nat]
  BY DEF SecretTypeOK, Kept
<1>2. ASSUME NEW d \in Documents, ResolveConfig(d) PROVE NotOlderThanKept'
  <2>1. PICK asked \in SUBSET References :
           /\ kept' = [r \in References |->
                         IF r \in asked THEN ResolveSingle(r) ELSE kept[r]]
           /\ wrongFor' = [r \in References |->
                             IF kept'[r] = Missing \/ kept'[r].value = Answer(r)
                             THEN 0 ELSE wrongFor[r]]
    BY <1>2, ResolvingDoes, Zenon
  <2>2. SUFFICES ASSUME NEW r \in References, kept'[r] # Missing
                 PROVE  wrongFor'[r] <= kept'[r].age
    BY DEF NotOlderThanKept
  <2>3. CASE kept'[r] = kept[r]
    <3>1. wrongFor[r] <= kept[r].age /\ kept[r] \in Kept
      BY <1>0, <2>2, <2>3 DEF NotOlderThanKept
    <3>2. wrongFor'[r] \in {0, wrongFor[r]}
      BY <2>1
    <3>3. QED
      BY <1>0, <2>3, <3>1, <3>2 DEF Kept
  <2>4. CASE kept'[r] # kept[r]
    <3>1. kept'[r] = ResolveSingle(r)
      BY <2>1, <2>4
    <3>2. ResolveSingle(r) = [value |-> Answer(r), age |-> 0]
      BY <2>2, <2>4, <3>1, SingleCases
    <3>3. wrongFor'[r] = 0 /\ kept'[r].age = 0
      BY <2>1, <3>1, <3>2
    <3>4. QED
      BY <3>3
  <2>5. QED
    BY <2>3, <2>4
<1>3. ASSUME UNCHANGED <<kept, wrongFor>> PROVE NotOlderThanKept'
  BY <1>3 DEF NotOlderThanKept
<1>4. ASSUME Older PROVE NotOlderThanKept'
  <2>1. SUFFICES ASSUME NEW r \in References, kept'[r] # Missing
                 PROVE  wrongFor'[r] <= kept'[r].age
    BY DEF NotOlderThanKept
  <2>2. /\ kept'[r] = IF kept[r] = Missing \/ kept[r].age = CacheTtl THEN kept[r]
                      ELSE [kept[r] EXCEPT !.age = @ + 1]
        /\ wrongFor'[r] \in {0, CacheTtl, wrongFor[r] + 1}
        /\ wrongFor'[r] = CacheTtl => wrongFor[r] \in {CacheTtl, CacheTtl - 1} \/ CacheTtl = 0
        /\ wrongFor[r] = CacheTtl => wrongFor'[r] \in {0, CacheTtl}
    BY <1>0, <1>4, CacheTtlAssumption DEF Older
  <2>3. kept[r] \in Kept /\ wrongFor[r] <= kept[r].age /\ wrongFor[r] \in Nat
    BY <1>0, <2>1, <2>2 DEF NotOlderThanKept
  <2>4. kept'[r].age = IF kept[r].age = CacheTtl THEN CacheTtl ELSE kept[r].age + 1
    BY <2>2, <2>3, MissingApart DEF Kept
  <2>5. kept[r].age \in 0..CacheTtl
    BY <2>3 DEF Kept
  <2>6. QED
    BY <2>2, <2>3, <2>4, <2>5, CacheTtlAssumption
<1>5. QED
  BY <1>2, <1>3, <1>4, Zenon
  DEF SecretNext, RegisterBackend, Rotate, resolverVars

LEMMA ResolvedIsFresh ==
  ASSUME SecretTypeOK, NotOlderThanKept, SecretsFresh, [SecretNext]_resolverVars
  PROVE  SecretsFresh'
<1>0. wrongFor \in [References -> Nat]
  BY DEF SecretTypeOK
<1>1. ASSUME resolved' = NothingResolved PROVE SecretsFresh'
  BY <1>1 DEF SecretsFresh, NothingResolved
<1>2. ASSUME NEW d \in Documents, ResolveConfig(d) PROVE SecretsFresh'
  <2>1. PICK asked \in SUBSET References :
           /\ kept' = [r \in References |->
                         IF r \in asked THEN ResolveSingle(r) ELSE kept[r]]
           /\ resolved' = [taken |-> {[ref |-> r, value |-> ResolveSingle(r).value] :
                             r \in {q \in asked : ResolveSingle(q) # Missing}},
                           failed |-> {r \in asked : ResolveSingle(r) = Missing}]
           /\ wrongFor' = [r \in References |->
                             IF kept'[r] = Missing \/ kept'[r].value = Answer(r)
                             THEN 0 ELSE wrongFor[r]]
           /\ UNCHANGED <<backends, holds>>
    BY <1>2, ResolvingDoes, Zenon
  <2>2. \A r : Answer(r)' = Answer(r)
    BY <2>1, Zenon DEF Answer
  <2>3. ASSUME NEW r \in asked, ResolveSingle(r) # Missing,
               ResolveSingle(r).value # Answer(r)
        PROVE  wrongFor'[r] < CacheTtl
    <3>1. kept[r] \in Kept /\ kept[r].age < CacheTtl /\ ResolveSingle(r) = kept[r]
      BY <2>1, <2>3, SingleCases
    <3>2. wrongFor[r] <= kept[r].age
      BY <2>1, <3>1, MissingApart DEF NotOlderThanKept
    <3>3. wrongFor'[r] = wrongFor[r]
      BY <2>1, <2>3
    <3>4. QED
      BY <1>0, <3>1, <3>2, <3>3, CacheTtlAssumption DEF Kept
  <2>4. ASSUME NEW r \in asked, ResolveSingle(r) = Missing PROVE Answer(r) = Missing
    <3>1. 0 \in 0..CacheTtl
      BY CacheTtlAssumption
    <3>2. \A v \in Secrets : [value |-> v, age |-> 0] \in Kept
      BY <3>1 DEF Kept
    <3>3. QED
      BY <2>1, <2>4, <3>2, SingleCases, MissingApart
  <2>5. \A t \in resolved'.taken : t.value # Answer(t.ref) => wrongFor'[t.ref] < CacheTtl
    <3>1. TAKE t \in resolved'.taken
    <3>2. PICK r \in asked : /\ ResolveSingle(r) # Missing
                            /\ t = [ref |-> r, value |-> ResolveSingle(r).value]
      BY <2>1, <3>1
    <3>3. t.ref = r /\ t.value = ResolveSingle(r).value
      BY <3>2
    <3>4. QED
      BY <2>3, <3>2, <3>3, Zenon
  <2>6. \A r \in resolved'.failed : Answer(r) = Missing
    BY <2>1, <2>4
  <2>7. QED
    BY <2>2, <2>5, <2>6, Zenon DEF SecretsFresh
<1>3. ASSUME UNCHANGED resolverVars PROVE SecretsFresh'
  <2>1. \A r : Answer(r)' = Answer(r)
    BY <1>3, Zenon DEF Answer, resolverVars
  <2>2. wrongFor' = wrongFor /\ resolved' = resolved
    BY <1>3 DEF resolverVars
  <2>3. QED
    BY <2>1, <2>2, Zenon DEF SecretsFresh
<1>4. QED
  BY <1>1, <1>2, <1>3, Zenon DEF SecretNext, RegisterBackend, Rotate, Older

(* A secret that was rotated, deleted or taken from under its name is not  *)
(* used cache_ttl later, however often it is asked for meanwhile, and a    *)
(* configuration is refused only for a secret that is missing now          *)
(* (SecretResolver._resolve_single).                                       *)
THEOREM NoSecretOutlivesItsTime == SecretSpec => []SecretsFresh
<1>1. SecretInit => NotOlderThanKept
  BY DEF SecretInit, NotOlderThanKept
<1>2. SecretInit => SecretsFresh
  BY DEF SecretInit, SecretsFresh, NothingResolved
<1>3. SecretTypeOK /\ NotOlderThanKept /\ SecretsFresh /\ [SecretNext]_resolverVars
        => NotOlderThanKept' /\ SecretsFresh'
  BY AgeCovers, ResolvedIsFresh
<1>4. QED
  BY <1>1, <1>2, <1>3, SecretTypeInvariant, PTL DEF SecretSpec
=============================================================================
