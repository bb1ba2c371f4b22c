SPECIFICATION FairSpec
CONSTANTS
  MaxScheduledTasks = 3
  IsrTasks = {1}
  MaxTime = 2
  MaxCalls = 3
INVARIANTS NoSpuriousRun FreshNotBeforeTime
PROPERTY EventuallyRuns
CHECK_DEADLOCK FALSE
