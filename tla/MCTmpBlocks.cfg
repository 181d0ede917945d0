\* Three callers, chunks of 3 slots, requests of 1 and 2 slots (and 4, over
\* the chunk size), at most 3 chunks: runs that do not fit after frees in
\* the middle of a chunk, and chunks malloc'ed on demand.  malloc succeeds.
SPECIFICATION Spec
CONSTANTS
  c1 = c1
  c2 = c2
  c3 = c3
  NUM_TMP_BLOCKS = 3
  Callers <- MCCallers
  Lens = {1, 2, 4}
  MaxChunks = 3
  MallocFails = FALSE
  MaxHeld = 1
INVARIANT TypeOK
INVARIANT TmpBlocksExclusive
PROPERTY GrowsOnlyWhenExhausted
PROPERTY CallsReturn
