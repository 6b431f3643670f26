CONSTANTS
  None = None
  c1 = c1
  c2 = c2
  c3 = c3
  Calls <- Both
  Provider <- AllTower
  Asked <- Self
  Rounds <- OneRound
  Hit <- Hits
  Burst <- One
  Interval <- TwoUnits
  Window <- TwoUnits
  SearchTtl = 1
  ReleaseTtl = 1
  Statuses <- Replies
  Errors = {"Timeout"}
  MaxCrashes = 2
SPECIFICATION Spec
INVARIANTS ServedIsFetched AbsenceIsSaid PolicyHeld
