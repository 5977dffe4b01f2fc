SPECIFICATION Spec
CONSTANTS
  Transaction = {t1, t2, t3}
  Prober = {p1}
INVARIANTS
  TypeOK
  CountExact
  DrainedForGood
PROPERTIES
  DrainingIsFinal
CHECK_DEADLOCK FALSE
