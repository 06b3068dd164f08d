---------------------------- MODULE SharedFetch ----------------------------
(***************************************************************************)
(* What the key manager promises to those who need keys when it has none.  *)
(* They share one fetch: the first opens it, the others join, and all that *)
(* wait are told the same, once, when it closes.  One who gives up voids   *)
(* it for all of them, and it stays void until the fetch has run out; no   *)
(* second one runs beside it.  A refresh in the background tells nobody,   *)
(* and there is one at most of these as well.                              *)
(***************************************************************************)
CONSTANTS
  Calls,    \* those who need keys
  Fetchers  \* what a fetch is run by

VARIABLES
  shared,      \* who runs the shared fetch: one fetcher or none
  refreshing,  \* who runs the refresh: one fetcher or none
  void,        \* the shared fetch has been given up
  told         \* to each call: "nothing", "wait", or how its fetch closed

vars == <<shared, refreshing, void, told>>

Closings == {"resolved", "failed"}

Init ==
  /\ shared = {} /\ refreshing = {}
  /\ void = FALSE
  /\ told = [c \in Calls |-> "nothing"]

Tell(c, what) == told' = [told EXCEPT ![c] = what]

TellAll(what) == told' = [c \in Calls |-> IF told[c] = "wait" THEN what ELSE told[c]]

Open(c) ==
  /\ shared = {} /\ told[c] = "nothing"
  /\ \E f \in Fetchers \ refreshing : shared' = {f}
  /\ Tell(c, "wait")
  /\ UNCHANGED <<refreshing, void>>

Join(c) ==
  /\ shared # {} /\ told[c] = "nothing"
  /\ Tell(c, IF void THEN "aborted" ELSE "wait")
  /\ UNCHANGED <<shared, refreshing, void>>

GiveUp(c) ==
  /\ told[c] = "wait"
  /\ void' = TRUE
  /\ TellAll("aborted")
  /\ UNCHANGED <<shared, refreshing>>

(* When a void fetch closes, there is nobody to tell.                      *)
Close(how) ==
  /\ shared # {} /\ shared' = {}
  /\ void' = FALSE
  /\ TellAll(how)
  /\ UNCHANGED refreshing

(* What a call was told it takes note of, unless it gives up before.       *)
Hear(c) ==
  /\ \/ told[c] \in Closings \cup {"aborted"} /\ Tell(c, "nothing")
     \/ told[c] \in Closings /\ Tell(c, "aborted")
  /\ UNCHANGED <<shared, refreshing, void>>

Refresh ==
  /\ \/ refreshing = {} /\ \E f \in Fetchers \ shared : refreshing' = {f}
     \/ refreshing # {} /\ refreshing' = {}
  /\ UNCHANGED <<shared, void, told>>

Next ==
  \/ \E c \in Calls : Open(c) \/ Join(c) \/ GiveUp(c) \/ Hear(c)
  \/ \E how \in Closings : Close(how)
  \/ Refresh

Spec == Init /\ [][Next]_vars
=============================================================================
