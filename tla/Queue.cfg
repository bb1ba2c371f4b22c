SPECIFICATION QueueSpec
CONSTANTS
  Max_Buff_Length = 4
  Bytes = {0, 1}
PROPERTY ImplementsFifo
