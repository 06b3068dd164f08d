---------------------------- MODULE SessionLease ----------------------------
(***************************************************************************)
(* What the session store promises for its session IDs.  Each is issued    *)
(* once, its time runs from then on and is never set back, its token set   *)
(* may be replaced while that time lasts, and once it has ended it stays   *)
(* so.                                                                     *)
(***************************************************************************)
EXTENDS Naturals

CONSTANTS
  Ids,    \* session IDs
  Ttl,    \* SessionsConfig.ttl, in ticks
  Tokens  \* token sets

VARIABLES
  phase,  \* of each ID: "unissued", "live" or "ended"
  age,    \* since it was issued
  token   \* the token set it holds, while it is live

vars == <<phase, age, token>>

Init == phase = [s \in Ids |-> "unissued"]

Issue(s) ==
  phase[s] = "unissued" /\ phase'[s] = "live" /\ age'[s] = 0 /\ token'[s] \in Tokens

Replace(s) ==
  /\ phase[s] = "live" /\ phase'[s] = "live"
  /\ age[s] <= Ttl /\ age'[s] = age[s]
  /\ token'[s] \in Tokens

Age(s) ==
  /\ phase[s] = "live" /\ phase'[s] = "live"
  /\ age'[s] = age[s] + 1
  /\ token'[s] = token[s]

End(s) == phase[s] = "live" /\ phase'[s] = "ended"

(* What an ID that is not live would hold is of no account.                *)
Rest(s) ==
  /\ phase'[s] = phase[s]
  /\ phase[s] = "live" => age'[s] = age[s] /\ token'[s] = token[s]

Next == \A s \in Ids : Issue(s) \/ Replace(s) \/ Age(s) \/ End(s) \/ Rest(s)

Spec == Init /\ [][Next]_vars
=============================================================================
