CONSTANTS
  MaxPods = 2
  Interference <- OwnerOnly
SPECIFICATION Spec
INVARIANTS OneCreate
CHECK_DEADLOCK FALSE
