\* fsh with a file descriptor: root and one more inode, 8 blocks of 16
\* bytes; open, make, close, wrtest, rdtest, seek and trunc beside rm,
\* rmall and lat_fs.
CONSTANTS
  NumBlocks = 8
  W = 4
  BlockSize = 16
  NumDirect = 4
  PtrsPerBlock = 2
  Inodes <- MCInodes
  Root = 1
  Names <- MCNames
  NameLen <- MCNameLen
  InumBytes = 8
  Parents <- MCRootOnly
  MaxChanges = 1
  MallocFails = FALSE
  LatNames <- MCLatNames
  LatSizes <- MCLatSizes
  TestLens <- MCTestLens
  SeekPos <- MCSeekPos
  TruncSizes <- MCTruncSizes
SPECIFICATION ShellSpec
INVARIANT OpenFileKept
INVARIANT UnlinkedFreedAtClose
