--------------------------- MODULE TokenLifecycle ---------------------------
(***************************************************************************)
(* middleware/authentication.py with auth/oauth.py: the stored token set   *)
(* of one issuer, and the tool calls that read it, refresh it, acquire it  *)
(* or log in for it.  Every await is a point where other calls run: the    *)
(* storage read, the token request, the callback, the storage write.  A    *)
(* login runs in a shielded task of its own and outlives the call that     *)
(* started it; a refresh does not.                                         *)
(*                                                                         *)
(* The identity provider is external.  It issues token sets numbered in    *)
(* order, and knows which refresh tokens are live; one that rotates them   *)
(* retires the one it is given.   An operation of the storage is one step  *)
(* here.                                                                   *)
(***************************************************************************)
EXTENDS Naturals, FiniteSets

CONSTANTS
  Requests,      \* the tool calls in progress
  Deployments,   \* the configurations to run under
  MaxIssued,     \* bound: the provider issues this many tokens
  NoTokens,      \* the storage has no entry
  Free,          \* the callback port is not bound
  Stuck          \* it is bound by a listener that did not stop when told to

(* interactive: grant_type is authorization_code, else client_credentials; *)
(* rotates: the provider rotates refresh tokens.                           *)
ASSUME DeploymentAssumption ==
  Deployments \subseteq [interactive : BOOLEAN, rotates : BOOLEAN]
ASSUME BoundAssumption == MaxIssued \in Nat

(* A TokenSet: which access token, and which refresh token, 0 for none. *)
TokenSets == [access : 1..MaxIssued, refresh : 0..MaxIssued]

ASSUME NullAssumption ==
  /\ NoTokens \notin TokenSets
  /\ Free \notin Requests /\ Stuck \notin Requests /\ Free # Stuck

VARIABLES
  deployment,  \* the configuration, which does not change
  stored,      \* the token storage under this issuer's key
  discovered,  \* OAuthService._endpoints is not None
  port,        \* the flow that listens on callback_port
  pc,          \* where each tool call is in the middleware
  hand,        \* the token set each tool call holds
  flow,        \* where the login task of each tool call is
  won,         \* the token set each login task has been given
  issued,      \* the provider: how many access tokens it has issued
  expired,     \* the access tokens past their expires_at
  live,        \* the refresh tokens it still honours
  severed      \* history: the provider ended a session, or the answer that
               \* carried a new refresh token was lost

processVars == <<deployment, discovered, port, pc, hand, flow, won>>
idpVars == <<issued, expired, live>>
vars == <<stored, processVars, idpVars, severed>>

Working == {"read", "refreshing", "refreshed", "acquiring", "acquired", "login",
            "drop_login", "drop_acquire", "drop_fail",
            "tool", "tool_refreshed", "tool_acquired", "tool_login"}
Answers == {"ok", "provider_error", "auth_failed", "login_required",
            "tool_error", "internal_error", "cancelled"}
FlowSteps == {"none", "starting", "discovering", "waiting", "exchanging", "exchanged"}
InTool == {"tool", "tool_refreshed", "tool_acquired", "tool_login"}

TypeOK ==
  /\ deployment \in Deployments
  /\ stored \in TokenSets \cup {NoTokens}
  /\ discovered \in BOOLEAN
  /\ port \in Requests \cup {Free, Stuck}
  /\ pc \in [Requests -> {"idle"} \cup Working]
  /\ hand \in [Requests -> TokenSets \cup {NoTokens}]
  /\ flow \in [Requests -> FlowSteps]
  /\ won \in [Requests -> TokenSets \cup {NoTokens}]
  /\ issued \in 0..MaxIssued
  /\ expired \subseteq 1..MaxIssued
  /\ live \subseteq 1..MaxIssued
  /\ severed \in BOOLEAN
  /\ \A r \in Requests :
       /\ pc[r] \in {"refreshing", "refreshed"} =>
            hand[r] # NoTokens /\ hand[r].refresh # 0
       /\ pc[r] \in {"acquired"} \cup InTool => hand[r] # NoTokens
       /\ flow[r] = "exchanged" => won[r] # NoTokens

Init ==
  /\ deployment \in Deployments
  /\ stored = NoTokens
  /\ discovered = FALSE
  /\ port = Free
  /\ pc = [r \in Requests |-> "idle"]
  /\ hand = [r \in Requests |-> NoTokens]
  /\ flow = [r \in Requests |-> "none"]
  /\ won = [r \in Requests |-> NoTokens]
  /\ issued = 0
  /\ expired = {}
  /\ live = {}
  /\ severed = FALSE

(* The call is answered, in one way or another; the task is free again.    *)
Answer(r, kind) ==
  /\ kind \in Answers
  /\ pc' = [pc EXCEPT ![r] = "idle"]
  /\ hand' = [hand EXCEPT ![r] = NoTokens]

Goto(r, step) == pc' = [pc EXCEPT ![r] = step]
Valid(s) == s # NoTokens /\ s.access \notin expired
Alive(s) == s # NoTokens /\ s.refresh \in live

-----------------------------------------------------------------------------
(* __call__: read the storage, then decide on what was read.               *)

Read(r) ==
  /\ pc[r] = "idle" /\ flow[r] = "none"
  /\ hand' = [hand EXCEPT ![r] = stored]
  /\ Goto(r, "read")
  /\ UNCHANGED <<deployment, stored, discovered, port, flow, won, idpVars, severed>>

(* _is_token_valid: the tool runs with the stored token. *)
UseStored(r) ==
  /\ pc[r] = "read"
  /\ Valid(hand[r])
  /\ Goto(r, "tool")
  /\ UNCHANGED <<deployment, stored, discovered, port, hand, flow, won, idpVars, severed>>

BeginLogin(r) == Goto(r, "login") /\ flow' = [flow EXCEPT ![r] = "starting"]

(* No usable token: acquire one, or log in.  An expired set that cannot be *)
(* refreshed is deleted first.                                             *)
NothingStored(r) ==
  /\ pc[r] = "read"
  /\ hand[r] = NoTokens
  /\ IF deployment.interactive THEN BeginLogin(r) ELSE Goto(r, "acquiring") /\ UNCHANGED flow
  /\ UNCHANGED <<deployment, stored, discovered, port, hand, won, idpVars, severed>>

(* Mutant: an expired set is refreshed without asking whether it can be. *)
DecideToRefresh(r) ==
  /\ pc[r] = "read"
  /\ hand[r] # NoTokens /\ ~Valid(hand[r])
  /\ Goto(r, IF ~deployment.interactive THEN "drop_acquire" ELSE "refreshing")
  /\ UNCHANGED <<deployment, stored, discovered, port, hand, flow, won, idpVars, severed>>

(* Without discovered endpoints, as after a restart, a refresh fails at    *)
(* once with an AuthenticationError.                                       *)
DecideExpired(r) ==
  /\ pc[r] = "read"
  /\ hand[r] # NoTokens /\ ~Valid(hand[r])
  /\ Goto(r, IF ~deployment.interactive THEN "drop_acquire"
             ELSE IF hand[r].refresh = 0 THEN "drop_login"
             ELSE IF discovered THEN "refreshing" ELSE "drop_fail")
  /\ UNCHANGED <<deployment, stored, discovered, port, hand, flow, won, idpVars, severed>>

(* The delete names the key, not what was read under it. *)
Drop(r) ==
  /\ pc[r] \in {"drop_login", "drop_acquire", "drop_fail"}
  /\ stored' = NoTokens
  /\ CASE pc[r] = "drop_login" -> BeginLogin(r) /\ UNCHANGED hand
       [] pc[r] = "drop_acquire" -> Goto(r, "acquiring") /\ UNCHANGED <<hand, flow>>
       [] OTHER -> Answer(r, "auth_failed") /\ UNCHANGED flow
  /\ UNCHANGED <<deployment, discovered, port, won, idpVars, severed>>

-----------------------------------------------------------------------------
(* The provider's token endpoint. *)

New == issued + 1

Issue == issued < MaxIssued /\ issued' = New /\ UNCHANGED expired

(* A refresh: honoured if the refresh token is live.  A provider that does *)
(* not rotate sends none back, and _handle_refresh keeps the one it sent.  *)
ServeRefresh(r) ==
  /\ pc[r] = "refreshing"
  /\ Alive(hand[r])
  /\ Issue
  /\ LET old == hand[r].refresh
         new == IF deployment.rotates THEN New ELSE old
     IN  /\ hand' = [hand EXCEPT ![r] = [access |-> New, refresh |-> new]]
         /\ live' = (live \ {old}) \cup {new}
  /\ Goto(r, "refreshed")
  /\ UNCHANGED <<deployment, stored, discovered, port, flow, won, severed>>

(* invalid_grant is an HTTP 400, which _post_token_request turns into a    *)
(* ProviderError like any other failure: the stored set stays.             *)
RejectRefresh(r) ==
  /\ pc[r] = "refreshing"
  /\ ~Alive(hand[r])
  /\ Answer(r, "provider_error")
  /\ UNCHANGED <<deployment, stored, discovered, port, flow, won, idpVars, severed>>

(* client_credentials: discovery on the first use, and no refresh token. *)
ServeAcquire(r) ==
  /\ pc[r] = "acquiring"
  /\ Issue
  /\ discovered' = TRUE
  /\ hand' = [hand EXCEPT ![r] = [access |-> New, refresh |-> 0]]
  /\ Goto(r, "acquired")
  /\ UNCHANGED <<deployment, stored, port, flow, won, live, severed>>

(* Mutant: a refresh that fails puts back what it set out with. *)
TokenRequestRestores(r) ==
  /\ pc[r] \in {"refreshing", "refreshed", "acquiring", "acquired"}
  /\ stored' = IF pc[r] = "refreshing" THEN hand[r] ELSE stored
  /\ Answer(r, "provider_error")
  /\ discovered' \in {discovered, discovered \/ pc[r] = "acquiring"}
  /\ severed' = (severed \/ pc[r] = "refreshed")
  /\ UNCHANGED <<deployment, port, flow, won, idpVars>>

(* The provider is unreachable, before or after discovery, or its answer   *)
(* does not arrive.                                                        *)
TokenRequestFails(r) ==
  /\ pc[r] \in {"refreshing", "refreshed", "acquiring", "acquired"}
  /\ Answer(r, "provider_error")
  /\ discovered' \in {discovered, discovered \/ pc[r] = "acquiring"}
  /\ severed' = (severed \/ pc[r] = "refreshed")
  /\ UNCHANGED <<deployment, stored, port, flow, won, idpVars>>

(* Mutant: what is stored keeps the refresh token that was sent. *)
StoreWithOldRefresh(r) ==
  /\ pc[r] \in {"refreshed", "acquired"}
  /\ stored' = IF pc[r] = "refreshed" /\ stored # NoTokens
                 THEN [hand[r] EXCEPT !.refresh = stored.refresh] ELSE hand[r]
  /\ Goto(r, IF pc[r] = "refreshed" THEN "tool_refreshed" ELSE "tool_acquired")
  /\ UNCHANGED <<deployment, discovered, port, hand, flow, won, idpVars, severed>>

(* The answer is written to the storage, and the tool runs with it. *)
StoreAnswer(r) ==
  /\ pc[r] \in {"refreshed", "acquired"}
  /\ stored' = hand[r]
  /\ Goto(r, IF pc[r] = "refreshed" THEN "tool_refreshed" ELSE "tool_acquired")
  /\ UNCHANGED <<deployment, discovered, port, hand, flow, won, idpVars, severed>>

(* The storage raises (a keyring that is locked, a full disk): no handler  *)
(* catches it, and the call fails with what the pipeline makes of it.      *)
StorageRaises(r) ==
  /\ pc[r] \in {"refreshed", "acquired", "drop_login", "drop_acquire", "drop_fail"}
  /\ Answer(r, "internal_error")
  /\ severed' = (severed \/ pc[r] = "refreshed")
  /\ UNCHANGED <<deployment, stored, discovered, port, flow, won, idpVars>>

-----------------------------------------------------------------------------
(* _do_oauth_flow, in its shielded task. *)

(* Mutant: the call that waits is not told. *)
FlowFailsUnheard(r, kind) ==
  /\ flow' = [flow EXCEPT ![r] = "none"]
  /\ won' = [won EXCEPT ![r] = NoTokens]
  /\ UNCHANGED <<pc, hand>>

(* How a login that fails reaches the call that waits for it, if it does.  *)
FlowFails(r, kind) ==
  /\ flow' = [flow EXCEPT ![r] = "none"]
  /\ won' = [won EXCEPT ![r] = NoTokens]
  /\ IF pc[r] = "login" THEN Answer(r, kind) ELSE UNCHANGED <<pc, hand>>

Discover(r) ==
  /\ flow[r] = "starting"
  /\ ~discovered
  /\ flow' = [flow EXCEPT ![r] = "discovering"]
  /\ UNCHANGED <<deployment, stored, discovered, port, pc, hand, won, idpVars, severed>>

DiscoveryFails(r) ==
  /\ flow[r] = "discovering"
  /\ FlowFails(r, "provider_error")
  /\ UNCHANGED <<deployment, stored, discovered, port, idpVars, severed>>

HasEndpoints(r) ==
  /\ flow[r] = "discovering" \/ (flow[r] = "starting" /\ discovered)
  /\ discovered' = TRUE

(* shutdown gives the listener's thread two seconds: one that is blocked   *)
(* reading an idle connection keeps the port.                              *)
Shutdown == port' \in {Free, Stuck}

(* From the endpoints to the wait for the callback there is no await: the  *)
(* listener is started and tested, the browser opened.                     *)
Listen(r) ==
  /\ HasEndpoints(r)
  /\ port = Free
  /\ port' = r
  /\ flow' = [flow EXCEPT ![r] = "waiting"]
  /\ UNCHANGED <<deployment, stored, pc, hand, won, idpVars, severed>>

PortInUse(r) ==
  /\ HasEndpoints(r)
  /\ port # Free
  /\ FlowFails(r, "login_required")
  /\ UNCHANGED <<deployment, stored, port, idpVars, severed>>

SelfTestFails(r) ==
  /\ HasEndpoints(r)
  /\ port = Free
  /\ Shutdown
  /\ FlowFails(r, "login_required")
  /\ UNCHANGED <<deployment, stored, idpVars, severed>>

StuckListenerStops ==
  /\ port = Stuck
  /\ port' = Free
  /\ UNCHANGED <<deployment, stored, discovered, pc, hand, flow, won, idpVars, severed>>

(* The callback brings a code: the listener is shut down before it is used.*)
CallbackArrives(r) ==
  /\ flow[r] = "waiting"
  /\ Shutdown
  /\ flow' = [flow EXCEPT ![r] = "exchanging"]
  /\ UNCHANGED <<deployment, stored, discovered, pc, hand, won, idpVars, severed>>

(* Mutant: only a callback shuts the listener down. *)
CallbackFailsListening(r) ==
  /\ flow[r] = "waiting"
  /\ FlowFails(r, "login_required")
  /\ UNCHANGED <<deployment, stored, discovered, port, idpVars, severed>>

(* Timed out, denied, the wrong state, no code: shut down and give up. *)
CallbackFails(r) ==
  /\ flow[r] = "waiting"
  /\ Shutdown
  /\ FlowFails(r, "login_required")
  /\ UNCHANGED <<deployment, stored, discovered, idpVars, severed>>

(* The code is exchanged, for a token set with or without a refresh token. *)
ServeExchange(r) ==
  /\ flow[r] = "exchanging"
  /\ Issue
  /\ \E new \in {0, New} :
       /\ won' = [won EXCEPT ![r] = [access |-> New, refresh |-> new]]
       /\ live' = live \cup ({new} \ {0})
  /\ flow' = [flow EXCEPT ![r] = "exchanged"]
  /\ UNCHANGED <<deployment, stored, discovered, port, pc, hand, severed>>

(* The provider refuses the code, or its answer is lost; or the storage    *)
(* raises.                                                                 *)
ExchangeFails(r) ==
  /\ flow[r] \in {"exchanging", "exchanged"}
  /\ \/ FlowFails(r, "provider_error")
     \/ flow[r] = "exchanged" /\ FlowFails(r, "internal_error")
  /\ UNCHANGED <<deployment, stored, discovered, port, idpVars, severed>>

(* The login is stored whether or not its call still waits for it. *)
StoreLogin(r) ==
  /\ flow[r] = "exchanged"
  /\ stored' = won[r]
  /\ flow' = [flow EXCEPT ![r] = "none"]
  /\ won' = [won EXCEPT ![r] = NoTokens]
  /\ IF pc[r] = "login"
       THEN Goto(r, "tool_login") /\ hand' = [hand EXCEPT ![r] = won[r]]
       ELSE UNCHANGED <<pc, hand>>
  /\ UNCHANGED <<deployment, discovered, port, idpVars, severed>>

-----------------------------------------------------------------------------
(* The rest of the chain, and the tool, run inside next().                 *)

ToolReturns(r) ==
  /\ pc[r] \in InTool
  /\ Answer(r, "ok")
  /\ UNCHANGED <<deployment, stored, discovered, port, flow, won, idpVars, severed>>

(* Unless the stored token was used as it was, next() is called inside the *)
(* try: a ProviderError or an AuthenticationError from the rest of the     *)
(* chain (a plugin's hook; FastMCP wraps what the tool itself raises) is   *)
(* taken for one of the token request's, and after a refresh an            *)
(* AuthenticationError deletes what was stored.                            *)
Mistaken ==
  [tool |-> {}, tool_refreshed |-> {"provider_error"},
   tool_acquired |-> {"auth_failed", "provider_error"},
   tool_login |-> {"login_required", "provider_error"}]

ToolRaises(r) ==
  /\ pc[r] \in InTool
  /\ \/ \E kind \in Mistaken[pc[r]] \cup {"tool_error"} : Answer(r, kind)
     \/ pc[r] = "tool_refreshed" /\ Goto(r, "drop_fail") /\ UNCHANGED hand
  /\ UNCHANGED <<deployment, stored, discovered, port, flow, won, idpVars, severed>>

(* The client gives up on the call: whatever it awaits is abandoned, an    *)
(* answer on its way with it, but not the login.                           *)
Cancel(r) ==
  /\ pc[r] \in Working
  /\ Answer(r, "cancelled")
  /\ severed' = (severed \/ pc[r] = "refreshed")
  /\ UNCHANGED <<deployment, stored, discovered, port, flow, won, idpVars>>

(* The process stops and starts again: only the storage survives. *)
Restart ==
  /\ discovered' = FALSE
  /\ port' = Free
  /\ pc' = [r \in Requests |-> "idle"]
  /\ hand' = [r \in Requests |-> NoTokens]
  /\ flow' = [r \in Requests |-> "none"]
  /\ won' = [r \in Requests |-> NoTokens]
  /\ severed' = (severed \/ \E r \in Requests : pc[r] = "refreshed")
  /\ UNCHANGED <<deployment, stored, idpVars>>

Expire ==
  /\ \E a \in (1..issued) \ expired : expired' = expired \cup {a}
  /\ UNCHANGED <<stored, processVars, issued, live, severed>>

(* The provider ends a session: the user's, or for being too old. *)
Revoke ==
  /\ \E t \in live : live' = live \ {t}
  /\ severed' = TRUE
  /\ UNCHANGED <<stored, processVars, issued, expired>>

CallStep(r) ==
  \/ UseStored(r) \/ NothingStored(r) \/ DecideExpired(r) \/ Drop(r)
  \/ ServeRefresh(r) \/ RejectRefresh(r) \/ ServeAcquire(r)
  \/ TokenRequestFails(r) \/ StoreAnswer(r) \/ StorageRaises(r)
  \/ ToolReturns(r) \/ ToolRaises(r)

FlowStep(r) ==
  \/ Discover(r) \/ DiscoveryFails(r)
  \/ Listen(r) \/ PortInUse(r) \/ SelfTestFails(r)
  \/ CallbackArrives(r) \/ CallbackFails(r)
  \/ ServeExchange(r) \/ ExchangeFails(r) \/ StoreLogin(r)

Next ==
  \/ \E r \in Requests : Read(r) \/ CallStep(r) \/ FlowStep(r) \/ Cancel(r)
  \/ StuckListenerStops \/ Restart \/ Expire \/ Revoke

(* The event loop runs every task that can run; token requests and the     *)
(* wait for the callback have timeouts.                                    *)
Fairness == \A r \in Requests : WF_vars(CallStep(r)) /\ WF_vars(FlowStep(r))

Spec == Init /\ [][Next]_vars

FairSpec == Spec /\ Fairness

(* Calls keep coming, and after a time nobody cancels or restarts them and *)
(* the storage works.  (A refresh that is refused, one that finds no       *)
(* provider and one that is cancelled are one and the same step.)          *)
Trouble ==
  \/ Restart
  \/ \E r \in Requests :
       StorageRaises(r) \/ (Cancel(r) /\ pc[r] # "refreshing")

DemandSpec ==
  /\ FairSpec
  /\ \A r \in Requests : WF_vars(Read(r))
  /\ <>[][~Trouble]_vars

-----------------------------------------------------------------------------
(* Refresh tokens that rotate are not lost by calls that race: until the   *)
(* provider ends the session or an answer is lost on its way, the stored   *)
(* refresh token is one it still honours, or a call holds the one that     *)
(* replaces it and is about to store it.                                   *)
SessionSurvives ==
  /\ ~severed
  /\ stored # NoTokens /\ stored.refresh # 0
  => Alive(stored) \/ \E r \in Requests : pc[r] = "refreshed" /\ Alive(hand[r])

CanRefresh(s) == s # NoTokens /\ s.refresh # 0

(* The callback port belongs to a login exactly while that login waits for *)
(* its callback, however the call that began it ends.                      *)
PortHeldWhileWaiting ==
  \A r \in Requests : port = r <=> flow[r] = "waiting"

(* The token sets that have been issued and are about to be stored, and    *)
(* what each call goes by.                                                 *)
Storing == {r \in Requests : pc[r] \in {"refreshed", "acquired"}}
LoggedIn == {r \in Requests : flow[r] = "exchanged"}
Due == {hand[r] : r \in Storing} \cup {won[r] : r \in LoggedIn}
Lent == [r \in Requests |-> IF pc[r] \in {"read"} \cup InTool THEN hand[r] ELSE NoTokens]

(* Whatever calls race, fail and are cancelled, every token set is stored  *)
(* once or never, one that has been replaced or deleted does not come back *)
(* (an answer that is late brings a new one), and a tool runs with what    *)
(* was in the storage while its call was there.                            *)
Ledger == INSTANCE TokenLedger WITH
  Calls <- Requests, Sets <- TokenSets, Nothing <- NoTokens, due <- Due, lent <- Lent

LedgerSpec == Ledger!Spec

(* Every call is answered: whatever fails, races or is cancelled, no call  *)
(* waits for ever for a token, a login or a lock.                          *)
CallsAnswered ==
  \A r \in Requests : (pc[r] \in Working) ~> (pc[r] \notin Working)

-----------------------------------------------------------------------------
(* What the documents say, and the code does not do.                       *)

(* requirements.md 3.5: when the access token has expired and there is a   *)
(* refresh token, it is refreshed before the request is processed.         *)
ExpiredIsRefreshed ==
  [][\A r \in Requests :
       DecideExpired(r) /\ CanRefresh(hand[r]) => pc'[r] = "refreshing"]_vars

(* requirements.md 7.4: a session whose refresh token is expired or        *)
(* revoked is invalidated, so that the user can log in again.              *)
SessionOver == CanRefresh(stored) /\ ~Alive(stored) /\ ~Valid(stored)

DeadSessionEnds == SessionOver ~> ~SessionOver
=============================================================================
