CONSTANTS
  Tokens = {tk1, tk2}
  DeviceIds = {d1, d2}
  Serials = {sn1}
  Hashes = {h1, h2}
  Sessions = {s1, s2}
  TTLs = {1}
  Skew = 0
  MaxTime = 1
  None = None
SYMMETRY MCSymmetry
SPECIFICATION Spec
INVARIANTS TypeOK
PROPERTIES ImplementsDeviceRegistry InventoryIsKept
CHECK_DEADLOCK FALSE
