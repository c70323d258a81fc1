SPECIFICATION Spec
CONSTANTS
  Dags <- MCDags
  MaxDepth = 1
  Nothing = Nothing
  Builtin <- MCBuiltin
  Supplied <- MCSupplied
  Orders = {0, 1, 2, 4}
  Mus <- MCMus
  MaxOrder = 3
  Points = {"in", "out", "edge"}
  Enclosure <- MCEnclosure
  MaxEdits = 2
  None = None
  Rows <- MCRows
  Lanes <- MCLanes
  Chain <- MCChain
  PaperRadii <- MCPaper
  Candidates <- MCCandidates
  StepLimits = {0, 1, 4, 5}
  MaxSteps = 4
  OtherFields <- MCOtherFields
  OtherKeys <- MCOtherKeys
  MaxChanges = 2
  Unset = Unset
  Faults = {"altered", "schema", "overlapping", "missing", "broken", "undecodable"}
  MaxFaults = 1
  MaxCalls = 2
  ClassCoeffs <- MCClassCoeffs
  Bounded = {"bell"}
  Certificates <- MCCertificates
  Arguments <- MCArguments
  Tour <- MCTour
\* A call, a payload and a command come to an end.
CHECK_DEADLOCK FALSE
INVARIANT JsonFailures
