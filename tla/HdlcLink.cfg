CONSTANTS
  Modulus = 3
  MAX_SEGGY_LEN = 2
  Parts <- MCParts
  Damaged <- MCDamaged
  MaxLosses = 1
  MaxRepeats = 1
  MaxTimeouts = 1
SPECIFICATION Spec
INVARIANT TypeOK ExecutesWhole
PROPERTY DeliversInOrder Connects
