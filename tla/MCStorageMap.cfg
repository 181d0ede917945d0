CONSTANTS
  c1 = c1
  c2 = c2
  Callers <- MCCallers
  W <- MCW
  NumBlocks <- MCNumBlocks
  BlockSize <- MCBlockSize
  AllocLens <- MCAllocLens
  FreeLens <- MCFreeLens
  MaxHeld <- MCMaxHeld
  IOErrors = FALSE
SYMMETRY Symmetry
SPECIFICATION Spec
INVARIANT TypeOK
INVARIANT NoDoubleAllocation
INVARIANT UsedBlocksAccurate
INVARIANT DiskMirrorsMemory
INVARIANT NoBitmapOverflow
PROPERTY GrantIsFreeAndWithinRequest
PROPERTY NonExactAllocSucceeds
PROPERTY AllocatorRefined
