CONSTANTS
  Threshold = 80
  Buffer = 0
  p1 = p1 p2 = p2 n1 = n1 n2 = n2 n3 = n3 n4 = n4
  Pool = {p1}
  Name = {n1, n2, n3, n4}
  MemoryOf <- SameMemory
  Bounds <- TwoNodes
  Usages <- Quiet
  MaxLag = 1
  Interference <- All
SYMMETRY Symmetric
SPECIFICATION Spec
INVARIANTS TypeOK Overshoot FewShareIndex FewOrphans
