CONSTANTS
  None = None
  Word = 8
  SkipSamples = 2
  Frame450Start = 1
  SamplesPerFrame = 1
  Users = {u1, u2}
  Contents <- Discs
  Bodies <- RipBodies
  Ids <- IdsOf
  MaxRuns = 2
SPECIFICATION Spec
INVARIANTS TracesToBody
PROPERTIES ImplementsVerdictLog
SYMMETRY UserSymmetry
CHECK_DEADLOCK FALSE
