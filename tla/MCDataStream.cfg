\* Two files over a 6-block volume with 2-byte blocks, 1 direct slot and
\* 2 pointers per indirect block (direct tier bytes 0..1, indirect tier
\* 2..5).  The bitmap's 6 bits round to 0 blocks (6 \div 8 = 0), so only
\* block 0 is reserved and 5 are free.  Growth to 8 runs into the unmapped
\* double-indirect range (E2BIG part way), and ENOSPC when both files
\* compete for the 5 free blocks (4 each for size 6).  A write of 2 bytes
\* at 1 starts inside a block, crosses a boundary and makes an odd size.
\* Shrinks are to 2 (the top of the direct tier) and, by free_data_stream,
\* to 0: a shrink into the indirect tier leaves a freed pointer behind
\* (MCDataStreamShrinkInd.cfg).  Reads at 0, 1, 3 and 7 start at and
\* inside a block, inside the indirect tier and near the end of the
\* largest size.
SPECIFICATION Spec
CONSTANTS
  f1 = f1
  f2 = f2
  NumBlocks = 6
  W = 4
  BlockSize = 2
  NumDirect = 1
  PtrsPerBlock = 2
  Files <- MCFiles2
  SetSizes = {2, 8}
  WritePos = {1}
  WriteLens = {2}
  ReadPos = {0, 1, 3, 7}
  ReadLens = {2}
  SuperWord = 0
SYMMETRY Symmetry
INVARIANT TypeOK
INVARIANT UsedBlocksAccurate
INVARIANT ReadReturnsContent
PROPERTY WritesStayInFile
 
