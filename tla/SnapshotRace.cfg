CONSTANTS
  Tokens = {tk1}
  DeviceIds = {d1}
  Serials = {sn1}
  Hashes = {h1, h2}
  Sessions = {s1, s2}
  TTLs = {1}
  Skew = 0
  MaxTime = 1
  None = None
SYMMETRY MCSymmetry
SPECIFICATION Spec
INVARIANTS OneCurrentSnapshot
CHECK_DEADLOCK FALSE
