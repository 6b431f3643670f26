\* One worker scans and identifies; edits, crashes and restarts.
CONSTANTS
  p1 = p1
  p2 = p2
  Programs = {p1}
  Ingesters <- Desktop
  Files = {f1}
  Tocs = {t1, t2}
  None = None
  MaxStamp = 2
  MaxRows = 1
  MaxAttempts = 3
  MaxCrashes = 2
SPECIFICATION FairSpec
INVARIANTS RipTypeOK CacheSound 
PROPERTIES EvidenceAppendOnly 
CHECK_DEADLOCK FALSE
