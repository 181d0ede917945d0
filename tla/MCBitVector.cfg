CONSTANTS
  NumBits <- MCNumBits
  W <- MCW
  MaxLen <- MCMaxLen
SPECIFICATION Spec
INVARIANT TypeOK
PROPERTY GetFreeRangeSound
