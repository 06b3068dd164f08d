------------------------------ MODULE MCServer ------------------------------
(* Two plugins, the first with every hook, the second with those of the    *)
(* way back; a tool with two policies and one with none; and identities    *)
(* that satisfy both policies, one of them, and neither; every             *)
(* configuration.                                                          *)
EXTENDS ServerStartup

CONSTANTS guarded, unguarded

MCPlugins ==
  <<[before |-> TRUE, after |-> TRUE, on_exception |-> TRUE],
    [before |-> FALSE, after |-> TRUE, on_exception |-> TRUE]>>

Who(roles, scopes) == [roles |-> roles, groups |-> {}, scopes |-> scopes]
MCIdentities ==
  {Who({"admin"}, {"read", "write"}), Who({"admin"}, {"read"}), Who({}, {})}

MCTools == {guarded, unguarded}
MCPolicies ==
  [t \in MCTools |->
     IF t = guarded
       THEN {[kind |-> "roles", values |-> {"admin", "owner"}],
             [kind |-> "scopes", values |-> {"read", "write"}]}
       ELSE {}]

MCConfigs ==
  [observability : Sections, sessions : Sections, plugins : {"absent", "empty", "named"},
   auth : {"none", "authorization_code", "token_exchange"}]

MCSpec == ServerSpec /\ ServerFairness
=============================================================================
