SPECIFICATION FairSpec
CONSTANTS
  r1 = r1
  r2 = r2
  w1 = w1
  w2 = w2
  Operation <- MCOperation
  Class <- MCClass
  ClassOf <- MCClassOf
  ClassLimit <- MCClassLimit
  MaxActive = 2
  MaxQueued = 3
INVARIANTS
  TypeOK
  NoHoarding
  GaugeWithinLimits
  SlotsAreInProgress
PROPERTIES
  BoundedSpec
  Served
