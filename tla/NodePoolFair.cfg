CONSTANTS
  Threshold = 80
  Buffer = 0
  p1 = p1 p2 = p2 n1 = n1 n2 = n2 n3 = n3 n4 = n4
  Pool = {p1, p2}
  Name = {n1, n2, n3}
  MemoryOf <- SameMemory
  Bounds <- AllBounds
  Usages <- Stateful3
  MaxLag = 0
  Interference <- All
SPECIFICATION EdgeSpec
PROPERTIES FloorKept Settles ReachesMin PoolsGo
