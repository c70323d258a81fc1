SPECIFICATION Spec
CONSTANTS
  Installer = {p1}
  d1 = d1
  Dest = {d1}
  Byte = {1, 2, 3}
  Hole = 0
  Nil = Nil
  Jobs <- NamedJobs
  Sources <- RaceSources
  Decode <- NoArchive
  PriorFile <- Prior
  MaxCompressed = 2
  MaxRaw = 2
  Exclusive = TRUE
  Faults = FALSE
INVARIANTS
  GoodSourceInstalls
CHECK_DEADLOCK FALSE
