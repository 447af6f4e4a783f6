CONSTANTS
  a1 = a1
  a2 = a2
  tk1 = tk1
  tk2 = tk2
  sn1 = sn1
  sn2 = sn2
  blank = blank
  Agents = {a1}
  TokenOf <- MCTokenOfOne
  SerialOf <- MCSerialOfOne
  Tokens = {tk1}
  DeviceIds = {d1, d2}
  Serials = {sn1, sn2}
  Hashes = {h1}
  TTLs = {1, 2}
  Skew = 1
  MaxTime = 2
  None = None
  MaxBreaks = 2
  MaxExceptions = 2
  MaxStops = 2
SPECIFICATION AgentSpec
INVARIANTS AgentTypeOK StoredCredentialIsItsOwn OrphansComeFromFaults OneDevicePerToken
 
CHECK_DEADLOCK FALSE
