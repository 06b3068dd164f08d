CONSTANTS
  r1 = r1
  r2 = r2
  t1 = t1
  t2 = t2
  NoKeys = NoKeys
  NoTask = NoTask
  Requests <- MCRequests
  Tasks <- MCTasks
  LastGen = 0
  Ttl = 1
  MaxStaleness = 2
  MaxRetries = 0
  Latency = 1
SPECIFICATION DemandSpec
PROPERTY StalenessEnds
