\* Two libraries, one after the other.
CONSTANTS
  None = None
  Databases = {"home", "work"}
  Libraries <- TwoLibraries
  Filters <- ByCountry
  YearTexts <- Typed
  SortKeys = {"title"}
  MaxSessions = 2
  MaxFetches = 1
SPECIFICATION Spec
INVARIANTS   AuditAgrees
CHECK_DEADLOCK FALSE
