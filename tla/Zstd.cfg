SPECIFICATION FairSpec
CONSTANTS
  Streams <- MCStreams
  Capacity = 2
  Chunk = 3
  MaxBytes = 5
  Faults = {TRUE, FALSE}
CHECK_DEADLOCK FALSE
INVARIANTS
  OutputBounded
  ReturnMeansWhole
  VerdictExact
  NoOrphan
PROPERTY
  BothEnd
