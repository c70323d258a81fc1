SPECIFICATION Spec
CONSTANTS
  Writer = {w1, w2}
  Verifier = {v1}
  Name = {1, 2}
  Content <- MCContent
  Absent = Absent
  Partial = Partial
  Requests <- MCRequests
  Prior <- MCPrior
  MaxArtifacts = 2
  MaxArtifact = 2
  MaxTotal = 3
  MaxChanges = 1
SYMMETRY Symmetry
CHECK_DEADLOCK FALSE
INVARIANTS
  ManifestWhole
  TempHasOwner
  WrittenVerifies
  AcceptedWasTrue
