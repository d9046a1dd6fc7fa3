CONSTANTS
  Threshold = 80
  Buffer = 0
  Sizes <- EqualSizes
  Usages <- MCUsages
  Bounds <- MCBounds
SPECIFICATION CalmSpec
INVARIANTS TypeOK StatefulFirst NoFlapping
PROPERTIES StatefulKept DeleteKeepsRoom Settles
