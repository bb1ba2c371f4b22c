CONSTANTS
  MaxRxBufferLength = 3
  Sizes <- MCSizes
  MaxFaults = 1
SPECIFICATION ReceiverSpec
INVARIANTS ReceiverTypeOK 
PROPERTIES CleanHandled Resynchronises
