SPECIFICATION Spec
CONSTANTS
  Transaction = {t1, t2}
  Prober = {p1}
INVARIANT
  DrainObservesOrRejects
CHECK_DEADLOCK FALSE
