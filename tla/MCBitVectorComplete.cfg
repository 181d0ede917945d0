CONSTANTS
  NumBits <- MCNumBits
  W <- MCW
  MaxLen <- MCMaxLen
SPECIFICATION Spec
PROPERTY GetFreeRangeComplete
