SPECIFICATION Spec
CONSTANTS
  MaxLogs = 3
  MaxEvents = 8
  MaxCrashes = 2
  MaxFaults = 2
INVARIANTS
  InRegionUnlessFaulty
  DurableListed
  ResetIsFinal
PROPERTY
  IsBoundedLog
CHECK_DEADLOCK FALSE
