---------------------------- MODULE RequestScope ----------------------------
(***************************************************************************)
(* Whom code runs for.  The identity, the access token and the request     *)
(* context are context variables: each asyncio task has its own, and a     *)
(* task that another one creates starts with a copy of them (of the        *)
(* reference to the request context, which is a dict).  The bridge of      *)
(* server.py gives a call a new request context and takes it away; the     *)
(* authentication frame sets the identity and the token and nobody takes   *)
(* them back; the test client sets both and puts back what was there.      *)
(* Calls nest where a tool calls a tool of another server in its own task, *)
(* as a server does with those mounted on it.                              *)
(***************************************************************************)
EXTENDS Naturals, Sequences, SequencesExt, FiniteSets

CONSTANTS
  Tasks,      \* asyncio tasks (bound: how many at once)
  Spawned,    \* those of them that a tool creates
  Users,      \* those who call tools
  Dicts,      \* dicts for request contexts, as many as can be in use
  Depth,      \* bound: how far the calls in each task nest
  TestToken,  \* "fastauthmcp-test-token"
  None

ASSUME DepthAssumption == Depth \in [Tasks -> Nat]
ASSUME DictsAssumption ==
  /\ IsFiniteSet(Dicts) /\ IsFiniteSet(Tasks)
  /\ Cardinality(Dicts) >= Cardinality(Tasks)
ASSUME DistinctAssumption == TestToken \notin Users /\ None \notin Users \cup {TestToken} \cup Dicts

(* A user's access token goes by the name of the user.                     *)
AccessTokens == Users \cup {TestToken}

VARIABLES
  identityVar,  \* _identity_context_var, in each task
  tokenVar,     \* _access_token_var
  requestVar,   \* _request_context_var: a dict, or None
  wrote,        \* who has set a key of each dict
  frames        \* the calls in progress in each task, the innermost last

contextVars == <<identityVar, tokenVar, requestVar>>
scopeVars == <<contextVars, wrote, frames>>

(* by: "bridge", "test", or "task" for what a call has left to run in the  *)
(* background.  user, token: for whom it runs, and with which token.       *)
(* saved: what the test client will put back.  own: (history) its request  *)
(* context is not the one of a call around or before it.  crossed:         *)
(* (history) a call nested in it has authenticated another user.           *)
Frames ==
  [by : {"bridge", "test", "task"},
   user : Users \cup {None}, token : AccessTokens \cup {None},
   saved : (Users \cup {None}) \X (AccessTokens \cup {None}),
   own : BOOLEAN, crossed : BOOLEAN]

ScopeTypeOK ==
  /\ identityVar \in [Tasks -> Users \cup {None}]
  /\ tokenVar \in [Tasks -> AccessTokens \cup {None}]
  /\ requestVar \in [Tasks -> Dicts \cup {None}]
  /\ wrote \in [Dicts -> SUBSET (Users \cup {None})]
  /\ DOMAIN frames = Tasks
  /\ \A t \in Tasks :
       /\ Len(frames[t]) <= Depth[t] /\ \A n \in DOMAIN frames[t] : frames[t][n] \in Frames
       /\ identityVar[t] = None <=> tokenVar[t] = None

ScopeInit ==
  /\ identityVar = [t \in Tasks |-> None]
  /\ tokenVar = [t \in Tasks |-> None]
  /\ requestVar = [t \in Tasks |-> None]
  /\ wrote = [d \in Dicts |-> {}]
  /\ frames = [t \in Tasks |-> <<>>]

Busy(t) == frames[t] # <<>>
Top(t) == Last(frames[t])

(* A dict that no task refers to any more is gone.                         *)
Kept(written, refers) ==
  [d \in Dicts |-> IF \E t \in Tasks : refers[t] = d THEN written[d] ELSE {}]

Refer(t, d) ==
  /\ requestVar' = [requestVar EXCEPT ![t] = d]
  /\ wrote' = Kept(wrote, requestVar')

Push(t, frame) ==
  /\ Len(frames[t]) < Depth[t]
  /\ frames' = [frames EXCEPT ![t] = Append(@, frame)]

Pop(t, crossed) ==
  LET around == Front(frames[t])
  IN  frames' = [frames EXCEPT ![t] =
        IF around = <<>> THEN <<>>
        ELSE [around EXCEPT ![Len(around)] =
                [Last(around) EXCEPT !.crossed = @ \/ crossed]]]

-----------------------------------------------------------------------------
(* The request context.                                                    *)

(* A dict that no other task refers to.                                    *)
NewDict(t) == CHOOSE d \in Dicts : \A o \in Tasks \ {t} : requestVar[o] # d

(* Mutant: a request context that is there is used on. *)
InitIfNone(t) ==
  IF requestVar[t] = None THEN Refer(t, NewDict(t)) ELSE UNCHANGED <<requestVar, wrote>>

InitRequestContext(t) ==
  /\ requestVar' = [requestVar EXCEPT ![t] = NewDict(t)]
  /\ wrote' = [Kept(wrote, requestVar') EXCEPT ![NewDict(t)] = {}]

ClearRequestContext(t) == Refer(t, None)

(* A tool sets a key.  Where there is no dict, one is made.                *)
SetContext(t) ==
  /\ Busy(t)
  /\ LET d == IF requestVar[t] # None THEN requestVar[t] ELSE NewDict(t)
     IN  /\ requestVar' = [requestVar EXCEPT ![t] = d]
         /\ wrote' = [wrote EXCEPT ![d] = @ \cup {Top(t).user}]
  /\ UNCHANGED <<identityVar, tokenVar, frames>>

-----------------------------------------------------------------------------
(* Calls through the bridge.                                               *)

(* Mutant: the access token is only set where there is none yet. *)
SetIdentityOnce(t, u) ==
  /\ identityVar' = [identityVar EXCEPT ![t] = u]
  /\ tokenVar' = [tokenVar EXCEPT ![t] = IF @ = None THEN u ELSE @]

(* _populate_identity.                                                     *)
SetIdentity(t, u) ==
  /\ identityVar' = [identityVar EXCEPT ![t] = u]
  /\ tokenVar' = [tokenVar EXCEPT ![t] = u]

(* A call of an authenticated user.                                        *)
Call(t, u) ==
  /\ Push(t, [by |-> "bridge", user |-> u, token |-> u,
              saved |-> <<None, None>>, own |-> TRUE, crossed |-> FALSE])
  /\ InitRequestContext(t)
  /\ SetIdentity(t, u)

(* A call to a server without an auth section runs for whoever the task    *)
(* runs for, if it runs for anyone.                                        *)
CallPlain(t) ==
  /\ Push(t, [by |-> "bridge", user |-> identityVar[t], token |-> tokenVar[t],
              saved |-> <<None, None>>, own |-> TRUE, crossed |-> FALSE])
  /\ InitRequestContext(t)
  /\ UNCHANGED <<identityVar, tokenVar>>

(* A nested call that authentication refuses: the tool is not run, and     *)
(* the request context of the call around it is gone as well.              *)
CallRefused(t) ==
  /\ Busy(t)
  /\ ClearRequestContext(t)
  /\ UNCHANGED <<identityVar, tokenVar, frames>>

(* What follows a call: the one around it, or the end of its task.         *)
Leave(t) ==
  IF Len(frames[t]) = 1
  THEN /\ identityVar' = [identityVar EXCEPT ![t] = None]
       /\ tokenVar' = [tokenVar EXCEPT ![t] = None]
  ELSE UNCHANGED <<identityVar, tokenVar>>

(* The tool has returned, raised or been cancelled, or what was left to    *)
(* run in the background has ended.                                        *)
Return(t) ==
  /\ Busy(t) /\ Top(t).by # "test"
  /\ Pop(t, Top(t).crossed \/ Top(t).token # frames[t][Len(frames[t]) - 1].token)
  /\ ClearRequestContext(t)
  /\ Leave(t)

-----------------------------------------------------------------------------
(* Calls through FastAuthMCPTestClient.call_tool, in tests.  Its pipeline  *)
(* has no bridge, so the request context stays what it is.                 *)
Test(t, u) ==
  /\ Busy(t) => Top(t).by = "test"
  /\ Push(t, [by |-> "test", user |-> u, token |-> TestToken,
              saved |-> <<identityVar[t], tokenVar[t]>>, own |-> FALSE, crossed |-> FALSE])
  /\ identityVar' = [identityVar EXCEPT ![t] = u]
  /\ tokenVar' = [tokenVar EXCEPT ![t] = TestToken]
  /\ UNCHANGED <<requestVar, wrote>>

TestReturns(t) ==
  /\ Busy(t) /\ Top(t).by = "test"
  /\ Pop(t, FALSE)
  /\ identityVar' = [identityVar EXCEPT ![t] = Top(t).saved[1]]
  /\ tokenVar' = [tokenVar EXCEPT ![t] = Top(t).saved[2]]
  /\ UNCHANGED <<requestVar, wrote>>

-----------------------------------------------------------------------------
(* A tool leaves something to run after it: a task with a copy of its      *)
(* context.                                                                *)
Spawn(t, b) ==
  /\ Busy(t) /\ b \in Spawned /\ ~Busy(b)
  /\ Push(b, [Top(t) EXCEPT !.by = "task", !.saved = <<None, None>>])
  /\ identityVar' = [identityVar EXCEPT ![b] = identityVar[t]]
  /\ tokenVar' = [tokenVar EXCEPT ![b] = tokenVar[t]]
  /\ requestVar' = [requestVar EXCEPT ![b] = requestVar[t]]
  /\ UNCHANGED wrote

-----------------------------------------------------------------------------
(* Properties.                                                             *)

(* What identity() and access_token() answer belongs together, and to the  *)
(* user whose call it is, in the background after it as well, unless a     *)
(* call nested in it has authenticated another user: then it is that user, *)
(* since the bridge does not put back what the call around it had.         *)
OwnUser ==
  \A t \in Tasks :
    Busy(t) /\ ~Top(t).crossed =>
      identityVar[t] = Top(t).user /\ tokenVar[t] = Top(t).token

(* Where the bridge has given a call its request context, get_context      *)
(* answers what that call has set, or nothing: never what a call around    *)
(* it, nested in it, beside it or before it has.                           *)
ContextApart ==
  \A t \in Tasks :
    Busy(t) /\ Top(t).own /\ requestVar[t] # None => wrote[requestVar[t]] \subseteq {Top(t).user}
=============================================================================
