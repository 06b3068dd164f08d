---------------------------- MODULE TokenLedger ----------------------------
(***************************************************************************)
(* What authentication promises of the token sets that are kept under one  *)
(* issuer's key.  Each that the provider issues is numbered anew and is    *)
(* due to be stored.  It is stored once or never, and when it has been     *)
(* replaced or deleted it does not come back.  A call is lent what is      *)
(* stored, and nothing else, until it gives it back.                       *)
(***************************************************************************)
EXTENDS Naturals

CONSTANTS
  Calls,   \* the tool calls
  Sets,    \* token sets, numbered by their access tokens
  Nothing  \* no token set

VARIABLES
  issued,  \* how many token sets the provider has issued
  due,     \* those on their way to the storage
  stored,  \* the one in the storage
  lent     \* what each call goes by

vars == <<issued, due, stored, lent>>

Init ==
  /\ issued = 0
  /\ due = {}
  /\ stored = Nothing
  /\ lent = [c \in Calls |-> Nothing]

Keep == UNCHANGED <<issued, due, stored>>

Issue ==
  /\ issued' = issued + 1
  /\ \E s \in Sets : s.access = issued' /\ due' = due \cup {s}
  /\ UNCHANGED stored

Store ==
  /\ stored' \in due
  /\ due' = due \ {stored'}
  /\ UNCHANGED issued

Delete == stored' = Nothing /\ UNCHANGED <<issued, due>>

(* An answer is lost, or its call is cancelled, or the process stops.      *)
Lose == due' \subseteq due /\ UNCHANGED <<issued, stored>>

(* Meanwhile calls take what is there now, or give back what they have.    *)
Lend == \A c \in Calls : lent'[c] \in {lent[c], stored', Nothing}

Next == Lend /\ (Keep \/ Issue \/ Store \/ Delete \/ Lose)

Spec == Init /\ [][Next]_vars
=============================================================================
