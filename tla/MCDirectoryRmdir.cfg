\* As MCDirectory.cfg, but entries are also created in subdirectories:
\* rmdir of a directory holding one 16-byte entry (size 48, not above
\* MKDIR_BUFSIZE = 48) removes it and orphans the entry's inode.
CONSTANTS
  NumBlocks = 8
  W = 4
  BlockSize = 16
  NumDirect = 4
  PtrsPerBlock = 2
  Inodes <- MCInodes
  Root = 1
  Names <- MCNames
  NameLen <- MCNameLen
  InumBytes = 8
  Parents <- MCAllDirs
  MaxChanges = 1
  MallocFails = FALSE
SPECIFICATION Spec
INVARIANT NamespaceConsistent
