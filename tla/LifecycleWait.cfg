SPECIFICATION FairSpec
CONSTANTS
  Transaction = {t1, t2}
  Prober = {p1}
PROPERTY
  WaitReturns
CHECK_DEADLOCK FALSE
