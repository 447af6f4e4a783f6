CONSTANTS
  o1 = o1
  o2 = o2
  Orgs = {o1, o2}
  LockKey <- MCDistinct
  Sessions = {s1, s2}
  Events = {1, 2, 3}
  MaxTime = 4
  Genesis = Genesis
SYMMETRY MCSymmetry
SPECIFICATION Spec
INVARIANTS ChainIsALine
CHECK_DEADLOCK FALSE
