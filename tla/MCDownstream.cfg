CONSTANTS
  t1 = t1
  t2 = t2
  u1 = u1
  u2 = u2
  a1 = a1
  a2 = a2
  read = read
  write = write
  Tasks = {t1, t2}
  Spawned = {t2}
  Users = {u1, u2}
  Dicts = {d1, d2}
  Depth <- MCDepth
  TestToken = testToken
  None = None
  orders = orders
  Mapped <- MCMapped
  NoMapping = NoMapping
  Upstream = {u1, u2}
  Audiences = {a1, a2}
  Scopes = {read, write}
  Unnamed = Unnamed
  Configured = write
  ToolNames = {orders}
  MaxSize = 1
  DefaultTtl = 1
  Secret = TRUE
  Lifetimes = {0}
  Offered <- MCOffered
SPECIFICATION Spec
SYMMETRY MCSymmetry
INVARIANTS
  TypeOK
  OwnUser
  ContextApart
  OwnCredentials
