CONSTANTS
  w1 = w1
  w2 = w2
  a = a
  b = b
  x = x
  Absent = Absent
  Invalid = Invalid
  Unreadable = Unreadable
  Gone = Gone
  Watchers <- MCWatchers
  Values <- MCValues
  Declared <- MCDeclared
  Environment <- MCEnvironment
  Configs <- MCConfigs
  MaxTime = 2
  BackendNames = {"env", "vault"}
  Backends = {e, v}
  EnvBackend = e
  NoBackend = NoBackend
  SecretKeys = {"key"}
  Secrets = {s1, s2}
  Missing = Missing
  Documents <- MCDocuments
  CacheTtl = 2
SPECIFICATION MCSpec
INVARIANTS
  ConfigurationTypeOK
  NeverReloaded
  OneWatcher
  SecretsFresh
  NothingMissed
PROPERTY
  ValidFileTakesEffect
