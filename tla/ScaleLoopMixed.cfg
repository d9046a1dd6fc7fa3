CONSTANTS
  Threshold = 80
  Buffer = 0
  Sizes <- MixedSizes
  Usages <- FewUsages
  Bounds <- FewBounds
SPECIFICATION Spec
PROPERTIES DeleteKeepsRoom
