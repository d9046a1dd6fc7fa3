CONSTANTS
  d1 = d1 d2 = d2 r1 = r1
  Device = {d1, d2}
  Place = {r1}
  Region = {r1}
  Port = {80}
  ProxyPort = {3000, 3001}
  MaxMounted = 0
  Absent = Absent
  Interference = {}
SPECIFICATION Spec
INVARIANTS PortsUnique
