--------------------------- MODULE ConfigWatcher ---------------------------
(***************************************************************************)
(* config_loader.py: ConfigLoader loads the configuration file, and a      *)
(* thread of its own polls the file's modification time, reads the file    *)
(* again when that has changed, merges what may be reloaded into the       *)
(* configuration in force and hands the result to a callback.  The file is *)
(* edited by somebody else; one thread of the application calls watch and  *)
(* stop_watching.                                                          *)
(***************************************************************************)
EXTENDS Naturals, FiniteSets

CONSTANTS
  Watchers,    \* the polling threads that may be started, one per call of watch
  Values,      \* what a section may hold, before or after the overrides
  Declared,    \* the reloadable_sections of each, where it is a hot_reload section
  Environment, \* what the FASTAUTHMCP_ variables make of a section
  Configs,     \* the configurations that are written to the file
  MaxTime,     \* bound: the resolution of modification times ticks this often
  Absent,      \* a section that is not there
  Invalid,     \* a file that is no YAML, or no valid configuration
  Unreadable,  \* a file that cannot be opened, or is not UTF-8
  Gone         \* no file

Sections == {"auth", "sessions", "observability", "plugins", "hot_reload"}
NonReloadable == {"auth", "sessions"}
Configurations == [Sections -> Values \cup {Absent}]
Broken == {Invalid, Unreadable, Gone}

ASSUME BoundAssumption == MaxTime \in Nat
ASSUME ValueAssumption ==
  /\ Configs \subseteq Configurations
  /\ Declared \in [Values -> SUBSET Sections]
  /\ Environment \in [Values -> Values]
  /\ \A v \in Values : Declared[Environment[v]] = Declared[v] \* no list is overridden
  /\ Absent \notin Values \cup Watchers \cup Configurations
  /\ Broken \cap Configurations = {}

VARIABLES
  file,      \* what the file holds
  mtime,     \* its modification time
  now,       \* the time, in the resolution of modification times
  caller,    \* where the thread is that calls watch and stop_watching
  stop,      \* _watch_stop_event is set, or there is none yet
  current,   \* _current_config
  lastMtime, \* _last_mtime
  watched,   \* _watch_thread, or Absent
  pc,        \* where each polling thread is
  hand,      \* what it has read, or merged
  served,    \* the configuration the application has last been given
  started,   \* history: the one that watch has loaded
  hidden,    \* history: an edit after the last read left _last_mtime right
  careless   \* history: a watch without a stop before, or a stop that gave up

fileVars == <<file, mtime, now>>
callVars == <<caller, stop, watched, started, careless>>
threadVars == <<pc, hand, served>>
vars == <<fileVars, callVars, threadVars, current, lastMtime, hidden>>

Alive == {w \in Watchers : pc[w] \in {"wait", "read", "merge", "callback"}}
Goto(w, step) == pc' = [pc EXCEPT ![w] = step]

TypeOK ==
  /\ file \in Configs \cup Broken
  /\ mtime \in 0..MaxTime /\ now \in 0..MaxTime /\ lastMtime \in 0..MaxTime
  /\ mtime <= now /\ lastMtime <= now
  /\ caller \in {"idle", "load", "stat", "join"}
  /\ watched \in Watchers \cup {Absent}
  /\ pc \in [Watchers -> {"unborn", "wait", "read", "merge", "callback", "ended", "killed"}]
  /\ stop \in BOOLEAN /\ hidden \in BOOLEAN /\ careless \in BOOLEAN
  /\ {current, served, started} \subseteq Configurations \cup {Absent}
  /\ hand \in [Watchers -> Configurations \cup {Absent}]
  /\ \A w \in Watchers :
       /\ pc[w] \in {"merge", "callback"} <=> hand[w] # Absent
       /\ pc[w] # "unborn" => Absent \notin {current, served, started}

Init ==
  /\ file \in Configs \cup Broken
  /\ mtime = 0 /\ now = 0 /\ lastMtime = 0
  /\ caller = "idle" /\ stop = TRUE /\ watched = Absent
  /\ pc = [w \in Watchers |-> "unborn"]
  /\ hand = [w \in Watchers |-> Absent]
  /\ current = Absent /\ served = Absent /\ started = Absent
  /\ hidden = FALSE /\ careless = FALSE

-----------------------------------------------------------------------------
(* The file.                                                               *)

(* An edit goes unnoticed if it comes after the last read and leaves the   *)
(* modification time as the watcher has it.                                *)
Unnoticed ==
  \/ caller = "stat"
  \/ now = lastMtime /\ \A w \in Alive : pc[w] # "read"

(* Written in place or replaced; an editor that empties the file first     *)
(* writes twice, and an empty file is a configuration without sections.    *)
Edit ==
  /\ \E c \in Configs \cup {Invalid, Unreadable} : c # file /\ file' = c
  /\ mtime' = now
  /\ hidden' = (hidden \/ Unnoticed)
  /\ UNCHANGED <<now, callVars, threadVars, current, lastMtime>>

Remove ==
  /\ file # Gone
  /\ file' = Gone
  /\ UNCHANGED <<mtime, now, callVars, threadVars, current, lastMtime, hidden>>

Tick ==
  /\ now < MaxTime
  /\ now' = now + 1
  /\ UNCHANGED <<file, mtime, callVars, threadVars, current, lastMtime, hidden>>

-----------------------------------------------------------------------------
(* Loading and merging.                                                    *)

(* The variables override fields of the sections that are there.           *)
ApplyEnvOverrides(c) ==
  [s \in Sections |->
     IF c[s] = Absent THEN Absent ELSE Environment[c[s]]]

Reloadable(c) ==
  IF c["hot_reload"] = Absent THEN {"observability"} ELSE Declared[c["hot_reload"]]

(* Mutant: a section that was not there before is not taken out. *)
MergeKeepsNew(prev, new) ==
  [s \in Sections |->
     IF s \in NonReloadable /\ prev[s] # Absent THEN prev[s]
     ELSE IF s \in Reloadable(new) \cup NonReloadable THEN new[s] ELSE prev[s]]

(* What may be reloaded is what the new file says may be.                  *)
Merge(prev, new) ==
  [s \in Sections |-> IF s \in Reloadable(new) \ NonReloadable THEN new[s] ELSE prev[s]]

-----------------------------------------------------------------------------
(* watch and stop_watching.                                                *)

(* A file that is not there: watch raises, or returns with a warning.      *)
Watch ==
  /\ caller = "idle"
  /\ \E w \in Watchers : pc[w] = "unborn"
  /\ file # Gone
  /\ stop' = FALSE
  /\ careless' = (careless \/ watched # Absent)
  /\ caller' = "load"
  /\ UNCHANGED <<fileVars, threadVars, watched, started, current, lastMtime, hidden>>

(* Mutant: the thread is started though the file did not load. *)
LoadAnyway ==
  /\ caller = "load"
  /\ IF file \in Configs
       THEN LET c == ApplyEnvOverrides(file)
            IN  /\ current' = c /\ started' = c /\ served' = c
                /\ hidden' = FALSE
       ELSE UNCHANGED <<current, started, served, hidden>>
  /\ caller' = "stat"
  /\ UNCHANGED <<fileVars, stop, watched, careless, pc, hand, lastMtime>>

(* load raises if the file is broken. *)
Load ==
  /\ caller = "load"
  /\ IF file \in Configs
       THEN LET c == ApplyEnvOverrides(file)
            IN  /\ current' = c /\ started' = c /\ served' = c
                /\ hidden' = FALSE
                /\ caller' = "stat"
       ELSE /\ caller' = "idle"
            /\ UNCHANGED <<current, started, served, hidden>>
  /\ UNCHANGED <<fileVars, stop, watched, careless, pc, hand, lastMtime>>

(* getmtime raises if the file is gone by now. *)
Start ==
  /\ caller = "stat"
  /\ caller' = "idle"
  /\ IF file = Gone
       THEN UNCHANGED <<lastMtime, watched, pc>>
       ELSE /\ lastMtime' = mtime
            /\ \E w \in Watchers :
                 pc[w] = "unborn" /\ watched' = w /\ Goto(w, "wait")
  /\ UNCHANGED <<fileVars, stop, started, careless, hand, served, current, hidden>>

StopWatching ==
  /\ caller = "idle"
  /\ stop' = TRUE
  /\ caller' = IF watched = Absent THEN "idle" ELSE "join"
  /\ UNCHANGED <<fileVars, watched, started, careless, threadVars, current, lastMtime, hidden>>

(* Mutant: the thread is not waited for. *)
JoinAtOnce ==
  /\ caller = "join"
  /\ caller' = "idle" /\ watched' = Absent
  /\ UNCHANGED careless
  /\ UNCHANGED <<fileVars, stop, started, threadVars, current, lastMtime, hidden>>

(* After five seconds the thread is left alone: it is in the callback, or  *)
(* in a read, for nothing else takes that long.                            *)
Join ==
  /\ caller = "join"
  /\ pc[watched] \in {"ended", "killed", "read", "callback"}
  /\ careless' = (careless \/ watched \in Alive)
  /\ caller' = "idle" /\ watched' = Absent
  /\ UNCHANGED <<fileVars, stop, started, threadVars, current, lastMtime, hidden>>

-----------------------------------------------------------------------------
(* The polling thread.  Each time round it looks at whatever event is the  *)
(* loader's by then, not at the one it was started with.                   *)

Poll(w) ==
  /\ pc[w] = "wait"
  /\ IF stop THEN Goto(w, "ended") /\ UNCHANGED <<lastMtime, hidden>>
     ELSE /\ file # Gone /\ mtime # lastMtime
          /\ lastMtime' = mtime /\ hidden' = FALSE
          /\ Goto(w, "read")
  /\ UNCHANGED <<fileVars, callVars, hand, served, current>>

(* Nothing but a broken configuration is caught: the thread dies of a file *)
(* that is gone or cannot be read.                                         *)
Read(w) ==
  /\ pc[w] = "read"
  /\ IF file \in Configs
       THEN /\ hand' = [hand EXCEPT ![w] = ApplyEnvOverrides(file)]
            /\ Goto(w, "merge")
       ELSE /\ Goto(w, IF file = Invalid THEN "wait" ELSE "killed")
            /\ UNCHANGED hand
  /\ UNCHANGED <<fileVars, callVars, served, current, lastMtime, hidden>>

(* Mutant: the modification time is recorded once the file is merged. *)
MergeAndStat(w) ==
  /\ pc[w] = "merge"
  /\ LET merged == Merge(current, hand[w])
     IN  /\ current' = merged
         /\ hand' = [hand EXCEPT ![w] = merged]
  /\ lastMtime' = mtime
  /\ Goto(w, "callback")
  /\ UNCHANGED <<fileVars, callVars, served, hidden>>

MergeAndSwap(w) ==
  /\ pc[w] = "merge"
  /\ LET merged == Merge(current, hand[w])
     IN  /\ current' = merged
         /\ hand' = [hand EXCEPT ![w] = merged]
  /\ Goto(w, "callback")
  /\ UNCHANGED <<fileVars, callVars, served, lastMtime, hidden>>

(* The callback returns, or raises, which kills the thread. *)
Callback(w) ==
  /\ pc[w] = "callback"
  /\ served' = hand[w]
  /\ hand' = [hand EXCEPT ![w] = Absent]
  /\ \E end \in {"wait", "killed"} : Goto(w, end)
  /\ UNCHANGED <<fileVars, callVars, current, lastMtime, hidden>>

Thread(w) == Poll(w) \/ Read(w) \/ MergeAndSwap(w) \/ Callback(w)

Next ==
  \/ Edit \/ Remove \/ Tick
  \/ Watch \/ Load \/ Start \/ StopWatching \/ Join
  \/ \E w \in Watchers : Thread(w)

Spec == Init /\ [][Next]_vars

(* Threads run, and the callback comes back.  Nobody has to edit the file. *)
Fairness == \A w \in Watchers : WF_vars(Thread(w))
FairSpec == Spec /\ Fairness

-----------------------------------------------------------------------------
(* requirements.md, 12.4: whatever is written to the file, whatever it     *)
(* calls reloadable and whatever sections come and go, the identity        *)
(* provider and the session store stay as watch found them, in the         *)
(* configuration in force and in the one the application holds.            *)
NeverReloaded ==
  /\ current # Absent => \A s \in NonReloadable : current[s] = started[s]
  /\ ~careless /\ served # Absent =>
       \A s \in NonReloadable : served[s] = started[s]

(* An application that calls stop_watching before it calls watch again,    *)
(* with a callback that comes back within five seconds, never has two      *)
(* threads that poll, merge and call back next to each other; and none is  *)
(* left once stop_watching has returned.                                   *)
OneWatcher ==
  ~careless => /\ Cardinality(Alive) <= 1
               /\ watched = Absent => Alive = {}

(* The application holds what the file says of what it may reload.         *)
InForce ==
  LET c == ApplyEnvOverrides(file)
  IN  \A s \in Reloadable(c) \ NonReloadable : served[s] = c[s]

(* A thread that waits, and finds the file's modification time as it has   *)
(* recorded it, has missed nothing: what the file may reload is what the   *)
(* application holds, whichever edits fell between a poll, its read, its   *)
(* merge and its callback, unless the last of them is hidden.              *)
NothingMissed ==
  \A w \in Watchers :
    pc[w] = "wait" /\ mtime = lastMtime /\ file \in Configs /\ ~hidden /\ ~careless
      => InForce

(* requirements.md, 12.1 and 12.2: once nobody edits the file any more, a  *)
(* single thread that polls brings a valid file into force and keeps it    *)
(* there, whenever the edits and the polls fell, unless the last edit left *)
(* the recorded modification time as it was.                               *)
ValidFileTakesEffect ==
  <>[][FALSE]_file =>
    <>[](file \in Configs /\ ~hidden /\ ~careless /\ ~stop /\ Alive # {} => InForce)
=============================================================================
