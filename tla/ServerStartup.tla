---------------------------- MODULE ServerStartup ----------------------------
(***************************************************************************)
(* How a server comes to serve: FastAuthMCP.__init__, or                   *)
(* enable_fastauthmcp on an application that may be serving already,       *)
(* composed with RequestPipeline.  Both read the configuration, load the   *)
(* plugins it names one by one, build the pipeline and, last, attach the   *)
(* bridge.  None of this awaits, so that no call comes between two steps;  *)
(* any of them may raise, and the operator may try again.                  *)
(***************************************************************************)
EXTENDS RequestPipeline

CONSTANT MaxUsed \* bound: how many plugins are registered with use()

ASSUME UsedAssumption == MaxUsed \in Nat

VARIABLES
  phase,      \* what the server is doing
  found,      \* there is a configuration file
  registered, \* the length of _plugins
  wired,      \* how many of these _build_pipeline has put in the pipeline
  bridge      \* the bridge is on the application

startupVars == <<phase, found, registered, wired, bridge>>
serverVars == <<startupVars, vars>>

Phases == {"down", "loading", "built", "up", "failed"}

ServerTypeOK ==
  /\ TypeOK
  /\ phase \in Phases
  /\ found \in BOOLEAN
  /\ registered \in 0..(Len(Plugins) + MaxUsed)
  /\ wired \in 0..Len(Plugins)
  /\ bridge \in BOOLEAN

ServerInit ==
  /\ Init
  /\ phase = "down"
  /\ found = FALSE
  /\ registered = 0
  /\ wired = 0
  /\ bridge = FALSE

(* The plugins section; without a file every section is missing.           *)
Refs == IF found THEN Named ELSE <<>>

(* _is_passthrough: there is no section, be it a disabled or an empty one. *)
Passthrough ==
  ~found \/ (config.auth = "none" /\ config.observability = "absent"
             /\ config.sessions = "absent" /\ config.plugins = "absent")

Fail == phase' = "failed" /\ registered' = 0 /\ UNCHANGED <<found, wired, bridge>>

(* The file is found, and valid; it is not found; or it is invalid.        *)
LoadConfig ==
  /\ phase \in {"down", "failed"}
  /\ \/ phase' = "loading" /\ found' \in BOOLEAN /\ UNCHANGED <<registered, wired, bridge>>
     \/ Fail

(* Imported, made by its factory and checked; or a ConfigurationError.     *)
LoadPlugin ==
  /\ phase = "loading" /\ registered < Len(Refs)
  /\ \/ registered' = registered + 1 /\ UNCHANGED <<phase, found, wired, bridge>>
     \/ Fail

(* A certificate, its key or the CA bundle is missing or not to be used.   *)
TLSContextFails == found /\ config.auth # "none" /\ Fail

(* Mutant: plugins that cannot be loaded are left out. *)
BuildWithSome ==
  /\ phase = "loading"
  /\ \/ phase' = "built" /\ wired' = registered /\ UNCHANGED <<found, registered, bridge>>
     \/ TLSContextFails

(* The frames and plugins, in their order (RequestPipeline: Before, After).*)
BuildPipeline ==
  /\ phase = "loading" /\ registered = Len(Refs)
  /\ \/ phase' = "built" /\ wired' = registered /\ UNCHANGED <<found, registered, bridge>>
     \/ TLSContextFails

AddBridge ==
  /\ phase = "built"
  /\ phase' = "up"
  /\ bridge' = ~Passthrough
  /\ UNCHANGED <<found, registered, wired>>

(* use(): the plugin is kept, the pipeline stays as it was built.          *)
Use ==
  /\ phase = "up" /\ registered < Len(Refs) + MaxUsed
  /\ registered' = registered + 1
  /\ UNCHANGED <<phase, found, wired, bridge>>

(* run() has returned: another process may start anew.                     *)
Stop ==
  /\ phase = "up" /\ \A c \in Calls : stage[c] = "idle"
  /\ phase' = "down" /\ found' = FALSE
  /\ registered' = 0 /\ wired' = 0 /\ bridge' = FALSE

Startup ==
  /\ LoadConfig \/ LoadPlugin \/ BuildPipeline \/ AddBridge \/ Use \/ Stop
  /\ UNCHANGED vars

(* FastMCP routes every call of a tool through the bridge, if it is there. *)
Serve == phase = "up" /\ bridge /\ Next /\ UNCHANGED startupVars

ServerNext == Startup \/ Serve

ServerSpec == ServerInit /\ [][ServerNext]_serverVars
ServerFairness == \A c \in Calls : WF_serverVars(Step(c) /\ UNCHANGED startupVars)

-----------------------------------------------------------------------------
(* Properties.                                                             *)

Configured ==
  found /\ (\/ config.auth # "none" \/ config.observability # "absent"
            \/ config.sessions # "absent" \/ config.plugins # "absent")

(* All or nothing: wherever the start fails, the application is as it was, *)
(* and one that comes up with anything configured has every call go        *)
(* through a pipeline with all the plugins that its file names.            *)
AllOrNothing ==
  /\ bridge => phase = "up" /\ wired = Len(Named)
  /\ phase = "up" => (bridge <=> Configured)
=============================================================================
