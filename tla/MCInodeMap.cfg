CONSTANTS
  t1 = t1
  t2 = t2
  Threads <- MCThreads1
  NumInodes = 10
  W = 4
  MapBlockBits = 8
  NumMapBlocks = 2
  MaxHeld = 10
SPECIFICATION Spec
INVARIANT TypeOK
INVARIANT InodesExclusive
INVARIANT DiskMirrorsMemory
