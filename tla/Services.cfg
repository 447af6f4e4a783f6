CONSTANTS
  None = None
  Nil = Nil
  d1 = d1
  d2 = d2
  o1 = o1
  o2 = o2
  u1 = u1
  c1 = c1
  c2 = c2
  s1 = s1
  v1 = v1
  v2 = v2
  on = on
  upperOff = upperOff
  off = off
  b1 = b1
  b2 = b2
  Horizon = 2
  MaxTime = 2
  Devices = {d1}
  Orgs = {o1}
  OrgOf <- MCOrgOf
  Keys = {k1, k2}
  JobIds = {j1, j2}
  TTLs = {1, 2}
  Lease = 1
  MaxAttempts = 3
  MTokens = {t1, t2}
  MDevices = {d1, d2}
  MTTLs = {1}
  MSkew = 1
  MThreads = 2
  Scanned = {d1}
  Threads = {p1, p2}
  Titles = {s1}
  Versions = {v1, v2}
  Clients = {c1, c2}
  Deployments <- MCDeployments
  Headers <- MCHeaders
  Limit = 2
  Window = 2
  MaxRequests = 6
  Assessed = {d1}
  Policies <- MCPolicies
  Fields = {"bitlocker"}
  Values = {on, off, upperOff}
  Fold <- MCFold
  Cooldown = 2
  MaxAsked = 3
  Paths = {a}
  Uploads = {u1, u2}
  Downloads = {r1}
  Deletes = {q1, q2}
  Sizes = {1, 2, 3}
  MaxSize = 2
  MayDelete = TRUE
  Chunks = {b1, b2}
  MaxChunks = 3
  MaxLength = 2
  Users = {u1}
  Organizations = {o1, o2}
  Calls = {c1}
SPECIFICATION Spec
INVARIANTS ServicesTypeOK ChangesCompose NotificationsMatchChanges LimitIsPerClient
INVARIANTS RemediationsAreSpaced DownloadsAreWhole UploadsAreAccountedFor
INVARIANTS CompleteStreamsAreExact CommandsNeedMembership
PROPERTIES  MemoryImplementsDeviceRegistry
CHECK_DEADLOCK FALSE
