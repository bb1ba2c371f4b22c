SPECIFICATION UartFairSpec
CONSTANTS
  Max_Buff_Length = 3
  MaxBytes = 7
  MaxFrame = 4
  MaxReceived = 1
INVARIANTS UartTypeOK WireInOrder
PROPERTY Drains
CHECK_DEADLOCK FALSE
