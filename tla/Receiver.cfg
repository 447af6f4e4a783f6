CONSTANTS
  o1 = o1
  j1 = j1
  Devices = {d1}
  Orgs = {o1}
  OrgOf <- MCOrgOf
  Keys = {k1, k2}
  JobIds = {j1, j2}
  Refreshes = {j1}
  TTLs = {3}
  Lease = 1
  MaxAttempts = 2
  MaxTime = 2
  MaxFaults = 2
  None = None
SPECIFICATION ReceiverSpec
INVARIANTS ReceiverTypeOK AttemptsLostToFaults AcknowledgedWithInventory
PROPERTIES QueuedJobIsAnswered
CHECK_DEADLOCK FALSE
