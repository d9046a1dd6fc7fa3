CONSTANTS
  MaxPods = 1
  Interference <- All
SPECIFICATION CalmSpec
INVARIANTS TypeOK NoLeak
PROPERTIES Attaches Deletes
