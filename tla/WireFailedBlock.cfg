SPECIFICATION Spec
CONSTANTS
  Session = {s1}
  Preparable = {"write"}
  MaxPrepared = 1
  MaxActive = 2
  ReaderLimit = 2
  WriterLimit = 1
INVARIANT
  FailedBlockRefusesWork
