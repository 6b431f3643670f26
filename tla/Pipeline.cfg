\* The usual kinds of reply.
CONSTANTS
  None = None
  Running = Running
  Open = Open
  Toc <- OneTrack
  Candidates <- Usual
  Givens <- Barcodes
  MaxHits = 2
SPECIFICATION FairSpec
INVARIANTS EvidenceKept FallbacksWhenNeeded LowIffTied DifferencesRecorded
PROPERTIES ImplementsFrontier AttemptEnds
CHECK_DEADLOCK FALSE
