\* One file, 2-byte blocks: written to 2 bytes, shrunk to 1 byte, written
\* again.  shrink_dstream rounds new_size - 1 up, so a size of 1 keeps no
\* block, and the next write goes to block 0.
SPECIFICATION Spec
CONSTANTS
  f1 = f1
  f2 = f2
  NumBlocks = 8
  W = 4
  BlockSize = 2
  NumDirect = 1
  PtrsPerBlock = 2
  Files <- MCFiles1
  SetSizes = {1}
  WritePos = {0}
  WriteLens = {1, 2}
  ReadPos = {}
  ReadLens = {}
  SuperWord = 0
PROPERTY WritesStayInFile
