CONSTANTS
  guarded = guarded
  unguarded = unguarded
  NoOne = NoOne
  Calls = {c1}
  Configs <- MCConfigs
  Plugins <- MCPlugins
  Tools <- MCTools
  Policies <- MCPolicies
  Identities <- MCIdentities
  MaxUsed = 1
SPECIFICATION MCSpec
INVARIANT ToolOnlyIfAllowed
