CONSTANTS
  a1 = a1
  a2 = a2
  tk1 = tk1
  tk2 = tk2
  sn1 = sn1
  sn2 = sn2
  blank = blank
  Agents = {a1}
  TokenOf <- MCTokenOfOne
  SerialOf <- MCSerialOfOne
  Tokens = {tk1}
  DeviceIds = {d1, d2}
  Serials = {sn1, sn2}
  Hashes = {h1}
  TTLs = {1}
  Skew = 1
  MaxTime = 1
  None = None
  MaxBreaks = 0
  MaxExceptions = 1
  MaxStops = 0
SPECIFICATION AgentSpec
PROPERTIES HeartbeatsContinue
CHECK_DEADLOCK FALSE
