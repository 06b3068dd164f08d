---------------------------- MODULE OneShotFuse ----------------------------
(***************************************************************************)
(* What the circuit breaker of resilience.py promises the identity         *)
(* provider: a fuse.  While it is intact any number of calls may be out.   *)
(* It blows when as many of them as it bears have failed with no success   *)
(* between, and not before.  A blown fuse lets one more call out, after    *)
(* which it is spent, and only an explicit reset replaces it.              *)
(***************************************************************************)
EXTENDS Naturals

CONSTANTS
  Calls,    \* the tasks that may have a call out
  Strength  \* the failures that blow the fuse

VARIABLES
  phase,    \* "intact", "blown" or "spent"
  strain,   \* the failures an intact fuse has borne since the last success
  out       \* the calls the provider has been sent and not answered

vars == <<phase, strain, out>>

Init == phase = "intact" /\ strain = 0 /\ out = {}

(* An intact fuse lets every call out.                                     *)
Launch(c) ==
  /\ phase = "intact"
  /\ c \notin out
  /\ out' = out \cup {c}
  /\ UNCHANGED <<phase, strain>>

(* A blown fuse lets one call out, and is then spent.                      *)
LaunchProbe(c) ==
  /\ phase = "blown"
  /\ c \notin out
  /\ out' = out \cup {c}
  /\ phase' = "spent"
  /\ UNCHANGED strain

(* A call comes back.  What it says counts while the fuse is intact, and   *)
(* for nothing afterwards.                                                 *)
Relieve == strain' = 0 /\ UNCHANGED phase

Strain ==
  /\ strain' = strain + 1
  /\ phase' = IF strain + 1 < Strength THEN "intact" ELSE "blown"

Return(c) ==
  /\ c \in out
  /\ out' = out \ {c}
  /\ \/ UNCHANGED <<phase, strain>>
     \/ phase = "intact" /\ (Relieve \/ Strain)

Replace ==
  /\ phase' = "intact" /\ strain' = 0
  /\ UNCHANGED out

Next ==
  \/ \E c \in Calls : Launch(c) \/ LaunchProbe(c) \/ Return(c)
  \/ Replace

Spec == Init /\ [][Next]_vars
=============================================================================
