SPECIFICATION Spec
CONSTANTS
  Trips = {"over_current", "over_voltage"}
  Blocks = {"active_power"}
  LoadLimits = {"over_current", "active_power"}
  TripDuration = 2
  TimerRange = 4
  connect_timeout = 3
INVARIANTS
  DisconnectionLasts
PROPERTIES
  TripsOnTime
  ClosesAfterDelay
  ClosesInTheEnd
