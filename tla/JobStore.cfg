CONSTANTS
  d1 = d1
  o1 = o1
  Devices = {d1}
  Orgs = {o1}
  OrgOf <- MCOrgOf
  Keys = {k1, k2}
  JobIds = {j1, j2}
  TTLs = {5}
  Lease = 1
  MaxAttempts = 2
  MaxTime = 4
  None = None
SYMMETRY MCSymmetry
SPECIFICATION Spec
INVARIANTS TypeOK AttemptsBounded AuditAccountsForJobs OneJobPerKey
PROPERTIES OutcomeIsFinal LeasesDoNotOverlap
CHECK_DEADLOCK FALSE
