\* The algorithms, over every small input.
CONSTANTS
  None = None
  Unreadable = Unreadable
  Word = 8
  SkipSamples = 2
  Frame450Start = 1
  SamplesPerFrame = 1
  LeadIn = 2
  ExtraGap = 2
  Second = 2
  Samples = {0, 6}
  Splits <- TwoAndThree
  Submissions <- Versions
SPECIFICATION Spec
INVARIANTS ChecksumsHold TrueShiftFound CandidatesTellApart 
CHECK_DEADLOCK FALSE
