SPECIFICATION MCSpec
CONSTANTS
  AllocSet = 8
  MaxMade = 26
  MaxClosed = 2
  DescLen = 4
  MaxBits = 3
PROPERTIES
  OpenGetsOwnSlot
  GrowsOnlyWhenFull
  WalkIsComplete
  OperatesOnce
