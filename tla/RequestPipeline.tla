-------------------------- MODULE RequestPipeline --------------------------
(***************************************************************************)
(* A tool call on its way through the server: the bridge of server.py, the *)
(* chain of middleware that _build_pipeline assembles (observability,      *)
(* session, authentication, authorization, the plugins' before hooks), the *)
(* tool, the way back through the same frames with a response or with an   *)
(* exception, the after hooks, and the exception handlers.                 *)
(*                                                                         *)
(* How the authentication frame comes by a token is the subject of         *)
(* TokenLifecycle; here it yields an identity, an error response or an     *)
(* exception.  The bridge makes a context without metadata, so the session *)
(* frame finds no session to restore and no token set to keep, and a token *)
(* exchange no upstream token.  A cancellation is not an Exception: no     *)
(* handler sees it.                                                        *)
(***************************************************************************)
EXTENDS Naturals, Sequences, FiniteSets

CONSTANTS
  Calls,       \* the tool calls in progress
  Configs,     \* the configurations to run under
  Plugins,     \* the plugins that a file names, in its order
  Tools,       \* the tools
  Policies,    \* the policies the decorators attach to each of them
  Identities,  \* the identities a token may carry
  NoOne        \* no identity

(* observability, sessions: the section is missing, it says enabled: false,*)
(* or neither.  auth: the grant_type, or "none".  plugins: the section is  *)
(* missing, names no plugin, or names the Plugins.                         *)
Sections == {"absent", "disabled", "enabled"}
ASSUME ConfigAssumption ==
  Configs \subseteq [observability : Sections, sessions : Sections,
                     plugins : {"absent", "empty", "named"},
                     auth : {"none", "authorization_code", "token_exchange"}]
ASSUME PluginAssumption ==
  Plugins \in Seq([before : BOOLEAN, after : BOOLEAN, on_exception : BOOLEAN])
ASSUME IdentityAssumption == NoOne \notin Identities

Exceptions == {"provider", "authentication", "timeout", "other"}
Responses == {"result", "error"}

VARIABLES
  config,    \* the configuration, which does not change
  stage,     \* what each call is doing
  at,        \* the frame or the hook it is in
  tool,      \* the tool it is for
  identity,  \* ctx.identity
  caught,    \* the exceptions the authentication frame takes for its own
  outcome,   \* the response or the exception that travels
  ran,       \* history: the tool was called
  logged,    \* history: the status of each log entry of the call
  trail      \* history: the after hooks and exception handlers that were called

callVars == <<stage, at, tool, identity, caught, outcome, ran, logged, trail>>
vars == <<config, callVars>>

-----------------------------------------------------------------------------
(* _build_pipeline: which frames there are, and in which order.            *)

Frame(kind) == <<[kind |-> kind, plugin |-> 0]>>
Nth(n) == [kind |-> "plugin", plugin |-> n]

If(condition, frames) == IF condition THEN frames ELSE <<>>

(* The classes of builtin.py, which only pass on what is disabled.         *)
Builtin(section, kind) ==
  CASE section = "absent" -> <<>>
    [] section = "disabled" -> Frame("disabled")
    [] section = "enabled" -> Frame(kind)

Named == IF config.plugins = "named" THEN Plugins ELSE <<>>

(* The plugins that have the hook, each at its place among them.           *)
PluginsWith(hook) ==
  LET having == {n \in DOMAIN Named : Named[n][hook]}
      Place(n) == Cardinality({m \in having : m <= n})
  IN  [i \in 1..Cardinality(having) |-> CHOOSE n \in having : Place(n) = i]

(* Mutant: the plugins' hooks come before the frames that authenticate. *)
BeforePluginsFirst ==
  LET hooks == PluginsWith("before")
  IN  Builtin(config.observability, "observability")
        \o If(config.auth # "token_exchange", Builtin(config.sessions, "session"))
        \o [n \in DOMAIN hooks |-> Nth(hooks[n])]
        \o If(config.auth # "none", Frame("authentication") \o Frame("authorization"))

Before ==
  LET hooks == PluginsWith("before")
  IN  Builtin(config.observability, "observability")
        \o If(config.auth # "token_exchange", Builtin(config.sessions, "session"))
        \o If(config.auth # "none", Frame("authentication") \o Frame("authorization"))
        \o [n \in DOMAIN hooks |-> Nth(hooks[n])]
After == PluginsWith("after")
Handlers == PluginsWith("on_exception")

(* The tool functions that AuthorizationMiddleware has.  The pipeline is   *)
(* built when no tool is registered yet, be it by the constructor or by    *)
(* enable_fastauthmcp, and for the empty dict that it is given the frame   *)
(* takes one of its own (tool_functions or {}), which nothing ever fills.  *)
toolFunctions == {}

KnownPolicies(t) == IF t \in toolFunctions THEN Policies[t] ELSE {}

(* AuthzPolicy.evaluate: one of the roles or groups, all of the scopes.    *)
Evaluate(policy, who) ==
  CASE policy.kind = "roles" -> policy.values \cap who.roles # {}
    [] policy.kind = "groups" -> policy.values \cap who.groups # {}
    [] policy.kind = "scopes" -> policy.values \subseteq who.scopes

Allowed(who, policies) ==
  policies = {} \/ (who # NoOne /\ \A p \in policies : Evaluate(p, who))

-----------------------------------------------------------------------------
TypeOK ==
  /\ config \in Configs
  /\ stage \in [Calls -> {"idle", "down", "up", "raising", "after", "handling", "done"}]
  /\ \A c \in Calls :
       /\ at[c] \in 0..CASE stage[c] = "down" -> Len(Before) + 1
                         [] stage[c] \in {"up", "raising"} -> Len(Before)
                         [] stage[c] = "after" -> Len(After)
                         [] stage[c] = "handling" -> Len(Handlers) + 1
                         [] OTHER -> 0
       /\ outcome[c] \in CASE stage[c] \in {"idle", "down"} -> {"none"}
                           [] stage[c] \in {"raising", "handling"} -> Exceptions
                           [] OTHER -> Responses
  /\ tool \in [Calls -> Tools]
  /\ identity \in [Calls -> Identities \cup {NoOne}]
  /\ caught \in [Calls -> SUBSET Exceptions]
  /\ ran \in [Calls -> BOOLEAN]
  /\ logged \in [Calls -> Seq({"success", "error"})]
  /\ trail \in [Calls -> Seq([hook : {"after", "on_exception"}, plugin : DOMAIN Plugins])]

Init ==
  /\ config \in Configs
  /\ stage = [c \in Calls |-> "idle"]
  /\ at = [c \in Calls |-> 0]
  /\ tool \in [Calls -> Tools]
  /\ identity = [c \in Calls |-> NoOne]
  /\ caught = [c \in Calls |-> {}]
  /\ outcome = [c \in Calls |-> "none"]
  /\ ran = [c \in Calls |-> FALSE]
  /\ logged = [c \in Calls |-> <<>>]
  /\ trail = [c \in Calls |-> <<>>]

Move(c, s, n, what) ==
  /\ stage' = [stage EXCEPT ![c] = s]
  /\ at' = [at EXCEPT ![c] = n]
  /\ outcome' = [outcome EXCEPT ![c] = what]

Descend(c) == Move(c, "down", at[c] + 1, "none")
Respond(c, what) == Move(c, "up", at[c] - 1, what)
Raise(c, what) == Move(c, "raising", at[c] - 1, what)

In(c, s, kind) ==
  stage[c] = s /\ at[c] \in DOMAIN Before /\ Before[at[c]].kind = kind

(* on_call_tool: a new context; _run_before_chain enters the first frame.  *)
Arrive(c) ==
  /\ stage[c] = "idle"
  /\ Move(c, "down", 1, "none")
  /\ \E t \in Tools : tool' = [tool EXCEPT ![c] = t]
  /\ identity' = [identity EXCEPT ![c] = NoOne]
  /\ caught' = [caught EXCEPT ![c] = {}]
  /\ ran' = [ran EXCEPT ![c] = FALSE]
  /\ logged' = [logged EXCEPT ![c] = <<>>]
  /\ trail' = [trail EXCEPT ![c] = <<>>]
  /\ UNCHANGED config

(* Observability opens a span, the session frame finds no session id.      *)
Enter(c) ==
  /\ \E kind \in {"observability", "session", "disabled"} : In(c, "down", kind)
  /\ Descend(c)
  /\ UNCHANGED <<config, tool, identity, caught, ran, logged, trail>>

(* A valid stored token is used outside any try; a token that is refreshed *)
(* or acquired, inside the one that catches what its request raises, and   *)
(* one that a login yields, inside one that catches its timeout as well.   *)
Authenticate(c) ==
  /\ In(c, "down", "authentication")
  /\ config.auth # "token_exchange"
  /\ \E who \in Identities : identity' = [identity EXCEPT ![c] = who]
  /\ \E own \in {{}, {"provider", "authentication"}, {"provider", "authentication", "timeout"}} :
       caught' = [caught EXCEPT ![c] = own]
  /\ Descend(c)
  /\ UNCHANGED <<config, tool, ran, logged, trail>>

Refuse(c) ==
  /\ In(c, "down", "authentication")
  /\ Respond(c, "error")
  /\ UNCHANGED <<config, tool, identity, caught, ran, logged, trail>>

(* The token storage raises. *)
AuthenticationRaises(c) ==
  /\ In(c, "down", "authentication")
  /\ config.auth # "token_exchange"
  /\ Raise(c, "other")
  /\ UNCHANGED <<config, tool, identity, caught, ran, logged, trail>>

Authorize(c) ==
  /\ In(c, "down", "authorization")
  /\ IF Allowed(identity[c], KnownPolicies(tool[c])) THEN Descend(c) ELSE Respond(c, "error")
  /\ UNCHANGED <<config, tool, identity, caught, ran, logged, trail>>

(* A before hook calls next, answers itself, or raises. *)
BeforeHook(c) ==
  /\ In(c, "down", "plugin")
  /\ \/ Descend(c)
     \/ \E what \in Responses : Respond(c, what)
     \/ \E what \in Exceptions : Raise(c, what)
  /\ UNCHANGED <<config, tool, identity, caught, ran, logged, trail>>

(* The end of the chain: FastMCP calls the tool, and wraps what it raises. *)
RunTool(c) ==
  /\ stage[c] = "down" /\ at[c] = Len(Before) + 1
  /\ ran' = [ran EXCEPT ![c] = TRUE]
  /\ Respond(c, "result") \/ Raise(c, "other")
  /\ UNCHANGED <<config, tool, identity, caught, logged, trail>>

-----------------------------------------------------------------------------
(* The way back.                                                           *)

(* Mutant: only a response is logged, the finally clause is left out. *)
LogReturn(c) ==
  /\ In(c, "up", "observability") \/ In(c, "raising", "observability")
  /\ logged' = [logged EXCEPT ![c] =
                  IF stage[c] = "up" THEN Append(@, "success") ELSE @]
  /\ Move(c, stage[c], at[c] - 1, outcome[c])
  /\ UNCHANGED <<config, tool, identity, caught, ran, trail>>

(* Observability logs either way, and passes on what it was given. *)
Log(c) ==
  /\ In(c, "up", "observability") \/ In(c, "raising", "observability")
  /\ logged' = [logged EXCEPT ![c] =
                  Append(@, IF stage[c] = "up" THEN "success" ELSE "error")]
  /\ Move(c, stage[c], at[c] - 1, outcome[c])
  /\ UNCHANGED <<config, tool, identity, caught, ran, trail>>

(* The frames that do nothing on the way back.  The session frame makes no *)
(* session: the authentication frame leaves no token set in the metadata.  *)
PassBack(c) ==
  /\ \/ \E kind \in {"disabled", "session", "authentication", "authorization"} :
          In(c, "up", kind)
     \/ \E kind \in {"disabled", "session", "authorization"} : In(c, "raising", kind)
     \/ In(c, "raising", "authentication") /\ outcome[c] \notin caught[c]
  /\ Move(c, stage[c], at[c] - 1, outcome[c])
  /\ UNCHANGED <<config, tool, identity, caught, ran, logged, trail>>

(* An exception from further in, taken for a failure of the token request. *)
Catch(c) ==
  /\ In(c, "raising", "authentication")
  /\ outcome[c] \in caught[c]
  /\ Respond(c, "error")
  /\ UNCHANGED <<config, tool, identity, caught, ran, logged, trail>>

(* A before hook gets a response or an exception back from next. *)
BackInHook(c) ==
  /\ In(c, "up", "plugin") \/ In(c, "raising", "plugin")
  /\ \/ \E what \in Responses : Respond(c, what)
     \/ \E what \in Exceptions : Raise(c, what)
  /\ UNCHANGED <<config, tool, identity, caught, ran, logged, trail>>

(* Mutant: the after hooks are counted from one too many. *)
LeaveChainOff(c) ==
  /\ at[c] = 0
  /\ \/ stage[c] = "up" /\ Move(c, "after", Len(After) + 1, outcome[c])
     \/ stage[c] = "raising" /\ Move(c, "handling", 1, outcome[c])
  /\ UNCHANGED <<config, tool, identity, caught, ran, logged, trail>>

(* execute: the chain has returned, or raised. *)
LeaveChain(c) ==
  /\ at[c] = 0
  /\ \/ stage[c] = "up" /\ Move(c, "after", Len(After), outcome[c])
     \/ stage[c] = "raising" /\ Move(c, "handling", 1, outcome[c])
  /\ UNCHANGED <<config, tool, identity, caught, ran, logged, trail>>

Called(c, hook, n) ==
  trail' = [trail EXCEPT ![c] = Append(@, [hook |-> hook, plugin |-> n])]

(* _run_after_hooks: the last registered first. *)
AfterHook(c) ==
  /\ stage[c] = "after" /\ at[c] > 0
  /\ Called(c, "after", After[at[c]])
  /\ \/ \E what \in Responses : Move(c, "after", at[c] - 1, what)
     \/ \E what \in Exceptions : Move(c, "handling", 1, what)
  /\ UNCHANGED <<config, tool, identity, caught, ran, logged>>

(* Mutant: an exception handler that raises is called again. *)
HandleAgain(c) ==
  /\ stage[c] = "handling" /\ at[c] \in DOMAIN Handlers
  /\ Called(c, "on_exception", Handlers[at[c]])
  /\ \/ Move(c, "handling", at[c] + 1, outcome[c])
     \/ \E what \in Responses : Move(c, "done", 0, what)
     \/ UNCHANGED <<stage, at, outcome>>
  /\ UNCHANGED <<config, tool, identity, caught, ran, logged>>

(* _handle_exception: the handlers in order, until one has an answer.  One *)
(* that raises ends them with a generic error.                             *)
Handle(c) ==
  /\ stage[c] = "handling" /\ at[c] \in DOMAIN Handlers
  /\ Called(c, "on_exception", Handlers[at[c]])
  /\ \/ Move(c, "handling", at[c] + 1, outcome[c])
     \/ \E what \in Responses : Move(c, "done", 0, what)
  /\ UNCHANGED <<config, tool, identity, caught, ran, logged>>

(* Mutant: an exception that no handler answers is left at that. *)
FinishAnswered(c) ==
  /\ stage[c] = "after" /\ at[c] = 0 /\ Move(c, "done", 0, outcome[c])
  /\ UNCHANGED <<config, tool, identity, caught, ran, logged, trail>>

(* All after hooks have run, or no handler had an answer. *)
Finish(c) ==
  /\ \/ stage[c] = "after" /\ at[c] = 0 /\ Move(c, "done", 0, outcome[c])
     \/ stage[c] = "handling" /\ at[c] = Len(Handlers) + 1 /\ Move(c, "done", 0, "error")
  /\ UNCHANGED <<config, tool, identity, caught, ran, logged, trail>>

Answer(c) ==
  /\ stage[c] = "done"
  /\ Move(c, "idle", 0, "none")
  /\ UNCHANGED <<config, tool, identity, caught, ran, logged, trail>>

(* The frame that is left by the cancellation still logs: as a success,    *)
(* since the exception is none that it catches.                            *)
Cancel(c) ==
  /\ stage[c] \notin {"idle", "done"}
  /\ LET open == stage[c] \in {"down", "up", "raising"} /\ config.observability = "enabled"
                 /\ at[c] >= IF stage[c] = "down" THEN 2 ELSE 1
     IN  logged' = [logged EXCEPT ![c] = IF open THEN Append(@, "success") ELSE @]
  /\ Move(c, "idle", 0, "none")
  /\ UNCHANGED <<config, tool, identity, caught, ran, trail>>

Step(c) ==
  \/ Enter(c) \/ Authenticate(c) \/ Refuse(c) \/ AuthenticationRaises(c) \/ Authorize(c)
  \/ BeforeHook(c) \/ RunTool(c) \/ Log(c) \/ PassBack(c) \/ Catch(c) \/ BackInHook(c)
  \/ LeaveChain(c) \/ AfterHook(c) \/ Handle(c) \/ Finish(c) \/ Answer(c)

Next == \E c \in Calls : Arrive(c) \/ Step(c) \/ Cancel(c)

Spec == Init /\ [][Next]_vars

(* Middleware, hooks and tools return. *)
FairSpec == Spec /\ \A c \in Calls : WF_vars(Step(c))

-----------------------------------------------------------------------------
(* A tool runs only for an identity that satisfies every policy that its   *)
(* decorators attach to it.  README.md:70 promises it; for the code it does*)
(* not hold, see toolFunctions.                                            *)
ToolOnlyIfAllowed ==
  \A c \in Calls :
    ran[c] /\ config.auth # "none" => Allowed(identity[c], Policies[tool[c]])

(* Where auth is configured, neither a tool nor a plugin's before hook is  *)
(* entered for a caller who has not been identified, on whatever way the   *)
(* frames before it and after it return or raise: who has no token is      *)
(* answered without them, and the call is not passed on.                   *)
IdentifiedFirst ==
  \A c \in Calls :
    config.auth # "none"
    /\ (ran[c] \/ \E s \in {"down", "up", "raising"} : In(c, s, "plugin"))
      => identity[c] # NoOne

(* Every call that ends has one log entry, whether it was answered by the  *)
(* tool, by a frame, by a hook or after an exception, or was cancelled     *)
(* (unless that was before it was begun): none is counted twice.           *)
LoggedOnce ==
  \A c \in Calls : config.observability = "enabled" =>
    /\ Len(logged[c]) <= 1
    /\ stage[c] \in {"after", "handling", "done"} => Len(logged[c]) = 1

Backwards(s) == [n \in DOMAIN s |-> s[Len(s) + 1 - n]]

Events(hook, plugins) ==
  [n \in DOMAIN plugins |-> [hook |-> hook, plugin |-> plugins[n]]]

(* After hooks run in the reverse order of registration, and exception     *)
(* handlers in the order of registration; each at most once in a call, and *)
(* no after hook once there has been an exception.                         *)
HooksInOrder ==
  \A c \in Calls :
    \E n \in 0..Len(After), m \in 0..Len(Handlers) :
      trail[c] = SubSeq(Events("after", Backwards(After)), 1, n)
                   \o SubSeq(Events("on_exception", Handlers), 1, m)

(* Every call is answered, with a response and never with an exception,    *)
(* unless it is cancelled.                                                 *)
CallsAnswered == \A c \in Calls : stage[c] # "idle" ~> stage[c] \in {"done", "idle"}
=============================================================================
