CONSTANTS
  r1 = r1
  r2 = r2
  NoTokens = NoTokens
  Free = Free
  Stuck = Stuck
  Requests <- MCRequests
  Deployments <- MCDeployments
  MaxIssued = 2
  c1 = c1
  c2 = c2
  s1 = s1
  s2 = s2
  s3 = s3
  None = None
  Calls <- MCCalls
  Subjects <- MCSubjects
  Mortal <- MCMortal
  Lives <- MCLives
  Capacity = 2
  Ttl = 2
  Latency = 1
SPECIFICATION MCSpec
INVARIANTS
  TypeOK
  SessionSurvives
  PortHeldWhileWaiting
  ExchangeTypeOK
  RightToken
PROPERTIES
  LedgerSpec
  CallsAnswered
  EvictsOldest
  ExchangesEnd
