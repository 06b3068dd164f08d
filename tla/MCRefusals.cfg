CONSTANTS
  c1 = c1
  c2 = c2
  c3 = c3
  Calls <- MCCalls
  Threshold = 3
  Cooldown = 2
  u1 = u1
  u2 = u2
  fetch = fetch
  blocked = blocked
  Anonymous = Anonymous
  Unset = Unset
  Callers <- MCCallers
  Rpm <- MCRpm
  PerUser = TRUE
  Unit = 3
  Burst = 2
  Window = 3
SPECIFICATION MCSpec
INVARIANTS
  RefusalsTypeOK
  LimitHolds
PROPERTIES
  FuseSpec
  CooldownEnds
  DeniedFairly
