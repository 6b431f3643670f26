\* Sessions over three generations, with failed resets and switches.
CONSTANTS
  QueueCap = 1
  MaxJobs = 2
  MaxItems = 1
  MaxGen = 3
SPECIFICATION AppSpec
INVARIANTS GenerationsApart 
CHECK_DEADLOCK FALSE
