CONSTANTS
  r1 = r1
  r2 = r2
  t1 = t1
  t2 = t2
  NoKeys = NoKeys
  NoTask = NoTask
  Requests <- MCRequests
  Tasks <- MCTasks
  LastGen = 1
  Ttl = 1
  MaxStaleness = 2
  MaxRetries = 1
  Latency = 1
SPECIFICATION FairSpec
INVARIANTS
  TypeOK
  RetiredKeyUnused
PROPERTIES
  FlightSpec
  WaitersAnswered
