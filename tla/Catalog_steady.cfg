\* MusicBrainz releases that stay where they are.
CONSTANTS
  t1 = t1
  t2 = t2
  Tocs = {t1, t2}
  Candidates <- Steady
  Corrections <- Wording
  None = None
  MaxAlbums = 3
  MaxReleases = 3
  MaxOverrides = 1
SPECIFICATION Spec
INVARIANTS ReidentifiesCleanly
PROPERTIES AuthoritySurvives
SYMMETRY Discs
CHECK_DEADLOCK FALSE
