\* Two libraries with the same ids, two sounds.
CONSTANTS
  None = None
  Databases = {"home", "work"}
  Rips <- TwoRips
  PcmSamplesPerSector = 2
  MaxVoices = 2
SPECIFICATION Spec
INVARIANTS StripIsHeard
CHECK_DEADLOCK FALSE
