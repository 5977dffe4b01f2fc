SPECIFICATION Spec
CONSTANTS
  Op = {o1, o2}
  Canceller = {c1}
  NoOp = NoOp
INVARIANT CommitNotCancelled
CHECK_DEADLOCK FALSE
