CONSTANTS
  d1 = d1 d2 = d2 r1 = r1 s1 = s1 s2 = s2 k1 = k1 k2 = k2 k3 = k3
  Device = {d1, d2}
  Region = {r1}
  ServerKey = {s1, s2}
  DeviceKey = {k1, k2, k3}
  MaxReplaced = 1
  MaxMounted = 1
  Absent = Absent
  Interference <- All
SPECIFICATION CalmSpec
INVARIANTS TypeOK OneServerKey EndsAgree
PROPERTIES Pushes Connects
