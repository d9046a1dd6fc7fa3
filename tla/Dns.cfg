CONSTANTS
  o1 = o1
  Owner = {o1}
  Address = {1, 2}
  Choices <- Lists
  MaxLate = 2
  Interference <- All
SPECIFICATION CalmSpec
INVARIANTS TypeOK Confirmed NoGhost
PROPERTIES Follows RegionFollows
