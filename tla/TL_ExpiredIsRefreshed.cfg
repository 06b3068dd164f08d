CONSTANTS
  r1 = r1
  r2 = r2
  NoTokens = NoTokens
  Free = Free
  Stuck = Stuck
  Requests <- MCRequests
  Deployments <- MCDeployments
  MaxIssued = 2
SPECIFICATION Spec
PROPERTY ExpiredIsRefreshed
