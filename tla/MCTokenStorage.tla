--------------------------- MODULE MCTokenStorage ---------------------------
(* Where token sets are kept: in files, by commands, and in the session    *)
(* store, each explored with the other two at rest.  Two processes share   *)
(* the directory and one entry, as two servers of one issuer do; the first *)
(* runs two operations at a time.  Two calls overlap, a session ID is      *)
(* given after another has ended, and there are token sets for a creation  *)
(* and two renewals.                                                       *)
EXTENDS TokenStorage, CommandLine, Sessions, TLC

CONSTANTS p1, p2, o1, o2, o3, issuer, c1, c2, i1, i2

MCProcesses == {p1, p2}
MCOperations == {o1, o2, o3}
MCRuns == (o1 :> p1) @@ (o2 :> p1) @@ (o3 :> p2)
MCNames == {issuer}
MCEntry == [p \in MCProcesses |-> issuer]

MCCalls == {c1, c2}
MCIds == {i1, i2}

MCInit == Init /\ CommandInit /\ SessionInit

(* The storage at rest while anything else runs. *)
Unused == ~encrypted /\ made = 0 /\ keyFile = Nothing /\ Init

MCNext ==
  \/ CommandInit /\ SessionInit /\ Next /\ UNCHANGED <<commandVars, sessionVars>>
  \/ SessionInit /\ Unused /\ CommandNext /\ UNCHANGED <<vars, sessionVars>>
  \/ CommandInit /\ Unused /\ SessionNext /\ UNCHANGED <<vars, commandVars>>

MCSpec == MCInit /\ [][MCNext]_<<vars, commandVars, sessionVars>>
=============================================================================
