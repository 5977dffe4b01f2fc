SPECIFICATION Spec
CONSTANTS
  s1 = s1
  s2 = s2
  Session = {s1, s2}
  Preparable = {"begin", "write", "read", "fetch", "close"}
  MaxPrepared = 1
  MaxActive = 2
  ReaderLimit = 2
  WriterLimit = 1
SYMMETRY Symmetry
INVARIANTS
  TypeOK
  StatusMatchesStorage
  OneStream
  FailedBlockPublishesNothing
  PermitsAccounted
