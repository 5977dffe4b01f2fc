SPECIFICATION FairSpec
CONSTANTS
  Regular = {r1, r2, r3}
  Control = {c1, c2}
  MaxWorkers = 2
INVARIANTS
  TypeOK
  ControlSlotReserved
  GaugeWithinPool
PROPERTIES
  BoundedSpec
  ControlRuns
