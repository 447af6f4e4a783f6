CONSTANTS
  a1 = a1
  a2 = a2
  tk1 = tk1
  tk2 = tk2
  sn1 = sn1
  sn2 = sn2
  blank = blank
  Agents = {a1, a2}
  TokenOf <- MCTokenOf
  SerialOf <- MCBlankSerials
  Tokens = {tk1, tk2}
  DeviceIds = {d1, d2}
  Serials = {blank}
  Hashes = {h1}
  TTLs = {1}
  Skew = 1
  MaxTime = 0
  None = None
  MaxBreaks = 0
  MaxExceptions = 0
  MaxStops = 0
SPECIFICATION AgentSpec
PROPERTIES TokenEnrollsItsAgent
CHECK_DEADLOCK FALSE
