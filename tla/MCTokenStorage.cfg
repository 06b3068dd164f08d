CONSTANTS
  p1 = p1
  p2 = p2
  o1 = o1
  o2 = o2
  o3 = o3
  issuer = issuer
  Nothing = Nothing
  Empty = Empty
  Torn = Torn
  Plain = Plain
  Processes <- MCProcesses
  Operations <- MCOperations
  Runs <- MCRuns
  Names <- MCNames
  Entry <- MCEntry
  Tokens = {t1, t2}
  MaxKeys = 2
  Shells = {s1, s2}
  MaxLogins = 2
  NoEntry = NoEntry
  c1 = c1
  c2 = c2
  i1 = i1
  i2 = i2
  Nil = Nil
  Calls <- MCCalls
  Ids <- MCIds
  Ttl = 2
  MaxIssued = 3
SPECIFICATION MCSpec
INVARIANTS
  TypeOK
  SealedUnderTheKey
  LastStoreIsReadable
  ExitsTrue
  LatestKept
PROPERTY Leases
