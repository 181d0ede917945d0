\* The directory volume of MCDirectory.cfg driven by fsh alone: root and
\* two more inodes, 8 blocks of 16 bytes, names a and b.
CONSTANTS
  NumBlocks = 8
  W = 4
  BlockSize = 16
  NumDirect = 4
  PtrsPerBlock = 2
  Inodes <- MCInodes
  Root = 1
  Names <- MCNames
  NameLen <- MCNameLen
  InumBytes = 8
  Parents <- MCRootOnly
  MaxChanges = 1
  MallocFails = FALSE
  LatNames <- MCLatNames
  LatSizes <- MCLatSizes
  TestLens <- MCNoArgs
  SeekPos <- MCNoArgs
  TruncSizes <- MCNoArgs
SPECIFICATION ShellSpec
INVARIANT ShellTypeOK
INVARIANT RmallRemovesFiles
PROPERTY LatFsRestoresVolume
PROPERTY CommandsReturn
