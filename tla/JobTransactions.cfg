CONSTANTS
  d1 = d1
  o1 = o1
  Devices = {d1}
  Orgs = {o1, o2}
  OrgOf <- MCOrgOf
  Keys = {k1, k2}
  JobIds = {j1, j2}
  Sessions = {s1, s2}
  TTLs = {2}
  Lease = 1
  MaxAttempts = 2
  MaxTime = 2
  None = None
SYMMETRY MCSymmetry
SPECIFICATION Spec
INVARIANTS TypeOK ReplayFindsJob NoLostUpdate
PROPERTIES ImplementsJobStore
CHECK_DEADLOCK FALSE
