SPECIFICATION FairSpec
CONSTANTS
  Session = {s1}
  Preparable = {}
  MaxPrepared = 1
  MaxActive = 1
  ReaderLimit = 1
  WriterLimit = 1
PROPERTY
  FailedBlockEnds
