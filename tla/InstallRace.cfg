SPECIFICATION Spec
CONSTANTS
  Installer = {p1, p2}
  d1 = d1
  Dest = {d1}
  Byte = {1, 2, 3}
  Hole = 0
  Nil = Nil
  Jobs <- RaceJobs
  Sources <- RaceSources
  Decode <- NoArchive
  PriorFile <- Prior
  MaxCompressed = 2
  MaxRaw = 2
  Exclusive = FALSE
  Faults = TRUE
INVARIANTS
  OnlyVerifiedBytes
  LitterHasOwner
CHECK_DEADLOCK FALSE
