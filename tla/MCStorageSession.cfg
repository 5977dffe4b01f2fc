SPECIFICATION Spec
CONSTANTS
  Op = {o1, o2, o3}
  Canceller = {c1}
  NoOp = NoOp
INVARIANTS
  TypeOK
  ReusedConnectionIsClean
  AnswersAreTrue
  DrainShareExact
  ReadOnlyWritesNothing
PROPERTIES
  QuarantineIsFinal
CHECK_DEADLOCK FALSE
