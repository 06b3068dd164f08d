------------------------------ MODULE Sessions ------------------------------
(***************************************************************************)
(* InMemorySessionStore with the SessionMiddleware that uses it: a call    *)
(* restores its session, goes down to authentication and the tool, and on  *)
(* its way back creates a session or updates its own.  The store never     *)
(* suspends, so restoring is one step and what follows the call another;   *)
(* between the two the other calls run.  What the frames below put in the  *)
(* metadata is their affair: they may identify the caller, with a new      *)
(* token set or without one, return, or raise.                             *)
(***************************************************************************)
EXTENDS Naturals, FiniteSets

CONSTANTS
  Calls,      \* concurrent calls of tools
  Ids,        \* session IDs, of which each is given once (bound)
  Ttl,        \* SessionsConfig.ttl, in ticks
  MaxIssued,  \* bound: how many token sets the provider issues
  Nil         \* no session ID, no token set

ASSUME LeaseAssumption == Ttl \in Nat \ {0}
ASSUME IssuedAssumption == MaxIssued \in Nat
ASSUME NilAssumption == Nil \notin Ids

(* A token set is known by its number; its access token is a JWT or not.   *)
IssuedSets == [n : 1..MaxIssued, jwt : BOOLEAN]
Records == [token : IssuedSets, age : 0..(Ttl + 1)]

ASSUME NoTokenAssumption == Nil \notin IssuedSets \cup Records

VARIABLES
  sessions,  \* InMemorySessionStore._sessions: token set and age, or Nil
  given,     \* the IDs that have been given out
  count,     \* token sets issued so far
  place,     \* where each call is
  sessionId, \* original_session_id of a call
  had,       \* had_session
  identity,  \* ctx.identity is set
  metadata,  \* ctx.metadata["token_set"]
  renewed,   \* (history) a frame below has put a new token set there
  latest,    \* (history) what the last call to end gave the session
  crossed    \* (history) a call gave it one while another was on its way

store == <<sessions, given>>
call == <<place, sessionId, had, identity, metadata, renewed>>
history == <<latest, crossed>>
sessionVars == <<store, count, call, history>>

SessionTypeOK ==
  /\ sessions \in [Ids -> Records \cup {Nil}]
  /\ given \subseteq Ids
  /\ \A s \in Ids : sessions[s] # Nil => s \in given
  /\ count \in 0..MaxIssued
  /\ place \in [Calls -> {"idle", "below"}]
  /\ sessionId \in [Calls -> Ids \cup {Nil}]
  /\ had \in [Calls -> BOOLEAN]
  /\ identity \in [Calls -> BOOLEAN]
  /\ metadata \in [Calls -> IssuedSets \cup {Nil}]
  /\ renewed \in [Calls -> BOOLEAN]
  /\ latest \in [Ids -> IssuedSets \cup {Nil}]
  /\ crossed \in [Ids -> BOOLEAN]
  /\ \A c \in Calls :
       had[c] => sessionId[c] \in given /\ identity[c] /\ metadata[c] # Nil

SessionInit ==
  /\ sessions = [s \in Ids |-> Nil]
  /\ given = {}
  /\ count = 0
  /\ place = [c \in Calls |-> "idle"]
  /\ sessionId = [c \in Calls |-> Nil]
  /\ had = [c \in Calls |-> FALSE]
  /\ identity = [c \in Calls |-> FALSE]
  /\ metadata = [c \in Calls |-> Nil]
  /\ renewed = [c \in Calls |-> FALSE]
  /\ latest = [s \in Ids |-> Nil]
  /\ crossed = [s \in Ids |-> FALSE]

-----------------------------------------------------------------------------
(* The store.                                                              *)

Expired(s) == sessions[s].age > Ttl

(* get: the session, if there is one and its time is not over.             *)
Get(s) ==
  IF s = Nil \/ sessions[s] = Nil \/ Expired(s) THEN Nil ELSE sessions[s]

(* What get leaves in the store: an expired session is removed.            *)
Swept(s) ==
  IF s # Nil /\ sessions[s] # Nil /\ Expired(s)
  THEN [sessions EXCEPT ![s] = Nil] ELSE sessions

Invalidated(s) == [sessions EXCEPT ![s] = Nil]

(* Mutant: the time of a session starts anew with its token set. *)
Slide(s, t) == [sessions EXCEPT ![s] = [token |-> t, age |-> 0]]

Updated(s, t) == [sessions EXCEPT ![s].token = t]

Created(s, t) == [sessions EXCEPT ![s] = [token |-> t, age |-> 0]]

-----------------------------------------------------------------------------
(* The way down.                                                           *)

Enter(c, s) ==
  /\ place[c] = "idle"
  /\ place' = [place EXCEPT ![c] = "below"]
  /\ sessionId' = [sessionId EXCEPT ![c] = s]

(* The identity is read from the access token that the session holds.      *)
Restore(c, s) ==
  /\ Enter(c, s)
  /\ Get(s) # Nil
  /\ Get(s).token.jwt
  /\ had' = [had EXCEPT ![c] = TRUE]
  /\ identity' = [identity EXCEPT ![c] = TRUE]
  /\ metadata' = [metadata EXCEPT ![c] = Get(s).token]
  /\ UNCHANGED <<store, count, renewed, history>>

(* It cannot be read: the session is of no use.                            *)
Discard(c, s) ==
  /\ Enter(c, s)
  /\ Get(s) # Nil
  /\ ~Get(s).token.jwt
  /\ sessions' = Invalidated(s)
  /\ UNCHANGED <<given, count, had, identity, metadata, renewed, history>>

(* No session ID, or one that stands for none or for one that is over.     *)
BeginUnknown(c, s) ==
  /\ Enter(c, s)
  /\ Get(s) = Nil
  /\ sessions' = Swept(s)
  /\ UNCHANGED <<given, count, had, identity, metadata, renewed, history>>

-----------------------------------------------------------------------------
(* The frames below.                                                       *)

(* Authentication as it is wired: an identity, and no token set.           *)
Identify(c) ==
  /\ place[c] = "below" /\ ~identity[c]
  /\ identity' = [identity EXCEPT ![c] = TRUE]
  /\ UNCHANGED <<store, count, place, sessionId, had, metadata, renewed, history>>

(* Authentication as this middleware expects it: after a login or a        *)
(* refresh the new token set is in the metadata.                           *)
Renew(c) ==
  /\ place[c] = "below" /\ count < MaxIssued
  /\ count' = count + 1
  /\ identity' = [identity EXCEPT ![c] = TRUE]
  /\ \E jwt \in BOOLEAN :
       metadata' = [metadata EXCEPT ![c] = [n |-> count + 1, jwt |-> jwt]]
  /\ renewed' = [renewed EXCEPT ![c] = TRUE]
  /\ UNCHANGED <<store, place, sessionId, had, history>>

-----------------------------------------------------------------------------
(* The way back: _post_request.                                            *)

GoBack(c) ==
  /\ place[c] = "below"
  /\ place' = [place EXCEPT ![c] = "idle"]
  /\ sessionId' = [sessionId EXCEPT ![c] = Nil]
  /\ had' = [had EXCEPT ![c] = FALSE]
  /\ identity' = [identity EXCEPT ![c] = FALSE]
  /\ metadata' = [metadata EXCEPT ![c] = Nil]
  /\ renewed' = [renewed EXCEPT ![c] = FALSE]

(* next() raised, or was cancelled: nothing follows.                       *)
Raise(c) == GoBack(c) /\ UNCHANGED <<store, count, history>>

Unchanged(c) ==
  /\ GoBack(c)
  /\ ~had[c]
  /\ ~identity[c] \/ metadata[c] = Nil
  /\ UNCHANGED <<store, count, history>>

Create(c) ==
  /\ GoBack(c)
  /\ ~had[c] /\ identity[c] /\ metadata[c] # Nil
  /\ \E s \in Ids \ given :
       /\ sessions' = Created(s, metadata[c])
       /\ given' = given \cup {s}
       /\ latest' = [latest EXCEPT ![s] = metadata[c]]
  /\ UNCHANGED <<count, crossed>>

(* Mutant: only the absence of a token set counts as a difference.         *)
NeverDiffers(c) == metadata[c] = Nil

(* The token set in the metadata is not the one the session holds now: the *)
(* call has a new one, or another call has given the session a new one.    *)
Differs(c) == metadata[c] # Get(sessionId[c]).token

Others(c) == {d \in Calls \ {c} : had[d] /\ sessionId[d] = sessionId[c]}

Update(c) ==
  LET s == sessionId[c]
  IN /\ GoBack(c)
     /\ had[c]
     /\ Get(s) # Nil
     /\ sessions' = IF Differs(c) THEN Updated(s, metadata[c]) ELSE sessions
     /\ latest' = IF renewed[c] THEN [latest EXCEPT ![s] = metadata[c]] ELSE latest
     /\ crossed' = [crossed EXCEPT ![s] = @ \/ (renewed[c] /\ Others(c) # {})]
     /\ UNCHANGED <<given, count>>

(* The session ended while the call was below: its new token set is lost,  *)
(* and no new session is made.                                             *)
TooLate(c) ==
  /\ GoBack(c)
  /\ had[c]
  /\ Get(sessionId[c]) = Nil
  /\ sessions' = Swept(sessionId[c])
  /\ UNCHANGED <<given, count, history>>

-----------------------------------------------------------------------------
Age ==
  /\ sessions' = [s \in Ids |->
                    IF sessions[s] = Nil \/ Expired(s) THEN sessions[s]
                    ELSE [sessions[s] EXCEPT !.age = @ + 1]]
  /\ UNCHANGED <<given, count, call, history>>

SessionNext ==
  \/ \E c \in Calls :
       \/ \E s \in Ids \cup {Nil} :
            Restore(c, s) \/ Discard(c, s) \/ BeginUnknown(c, s)
       \/ Identify(c) \/ Renew(c)
       \/ Raise(c) \/ Unchanged(c) \/ Create(c) \/ Update(c) \/ TooLate(c)
  \/ Age

SessionSpec == SessionInit /\ [][SessionNext]_sessionVars

-----------------------------------------------------------------------------
(* Properties.                                                             *)

(* Each session is a lease: no call, however long it was below and         *)
(* whatever it brings back, revives a session that has ended, sets its     *)
(* time back, or gives a new token set to one whose time is over.          *)
Lease == INSTANCE SessionLease WITH
  phase <- [s \in Ids |-> IF s \notin given THEN "unissued"
                          ELSE IF sessions[s] # Nil THEN "live" ELSE "ended"],
  age <- [s \in Ids |-> IF sessions[s] # Nil THEN sessions[s].age ELSE 0],
  Tokens <- IssuedSets,
  token <- [s \in Ids |-> IF sessions[s] # Nil THEN sessions[s].token ELSE Nil]

Leases == Lease!Spec

(* A session holds the token set that the last call to renew it got, so    *)
(* that the next call can be restored with it, unless a renewal came back  *)
(* while another call of that session was on its way: that call writes     *)
(* back what it was restored with.                                         *)
LatestKept ==
  \A s \in Ids : sessions[s] # Nil /\ ~crossed[s] => sessions[s].token = latest[s]
=============================================================================
