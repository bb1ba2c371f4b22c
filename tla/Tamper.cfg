CONSTANTS
  MaxOpenings = 2
  MaxMoves = 1
  MaxFails = 1
  MaxErrors = 1
  MaxClears = 1
SPECIFICATION Spec
INVARIANT TypeOK OpeningKept
PROPERTY OpeningNoticed CoverLatched
