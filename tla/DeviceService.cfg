CONSTANTS
  d1 = d1 r1 = r1
  Device = {d1}
  Place = {r1}
  Region = {}
  Port = {80, 443}
  ProxyPort = {3000, 3001}
  MaxMounted = 0
  Absent = Absent
  Interference <- Crashes
SPECIFICATION ServicesCalm
INVARIANTS ServicesTypeOK OwnTargets
PROPERTIES Routed
