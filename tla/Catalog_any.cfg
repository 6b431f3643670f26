\* Anything the providers may say, anything the user may correct.
CONSTANTS
  t1 = t1
  t2 = t2
  Tocs = {t1, t2}
  Candidates <- Mixed
  Corrections <- Identity
  None = None
  MaxAlbums = 3
  MaxReleases = 3
  MaxOverrides = 1
SPECIFICATION Spec
INVARIANTS ReferencesHold 
PROPERTIES DiscsStay
SYMMETRY Discs
CHECK_DEADLOCK FALSE
