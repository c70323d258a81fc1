SPECIFICATION ReaderSpec
CONSTANTS
  Installer = {p1, p2}
  d1 = d1
  Dest = {d1}
  Byte = {1, 2, 3}
  Hole = 0
  Nil = Nil
  Jobs <- TwoReleases
  Sources <- ReleaseSources
  Decode <- MCDecode
  PriorFile <- Prior
  MaxCompressed = 2
  MaxRaw = 2
  Exclusive = TRUE
  Faults = FALSE
  Reader = {r1}
  ReaderJobs <- AllReaders
  Database <- Databases
  MinSize = 1
  OpenLimit = 2
  InfoLimit = 2
CHECK_DEADLOCK FALSE
INVARIANT
  VerifiedReadsManifest
