SPECIFICATION Spec
CONSTANTS
  None = None
  NaN = NaN
  Functions <- MCFunctions
  Q = 8
  Digits = 3
  Polynomials <- MCPolynomials
  Grid <- MCGrid
  Curves <- MCCurves
  Samples <- MCSamples
  NBits = 3
  N = 8
  Streams <- MCStreams
  Lattices <- MCLattices
  Boxes <- MCBoxes
  White = 2
  Images <- MCImages
  Windows = {1, 3, 5, 7}
  Taps = {3, 5, 7}
  Sides <- MCSides
  Gains = {1, 2}
\* A question is answered once.
CHECK_DEADLOCK FALSE
INVARIANT BuiltRecordsValid
