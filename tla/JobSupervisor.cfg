\* Every interleaving of the client and the worker over two jobs.
CONSTANTS
  QueueCap = 2
  MaxJobs = 2
  MaxItems = 2
SPECIFICATION MCFairSpec
INVARIANTS TypeOK OneOutcome JobsInOrder 
PROPERTIES QuietWhenClosed NobodyWaitsForGood ImplementsSequentialJobs
CHECK_DEADLOCK FALSE
