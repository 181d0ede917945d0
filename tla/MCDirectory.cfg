\* Root and two more inodes, 8 blocks of 16 bytes (6 free after the
\* superblock and the bitmap), 4 direct slots and an indirect block of 2;
\* entries are created in the root only; one change between readdirs.
CONSTANTS
  NumBlocks = 8
  W = 4
  BlockSize = 16
  NumDirect = 4
  PtrsPerBlock = 2
  Inodes <- MCInodes
  Root = 1
  Names <- MCNames
  NameLen <- MCNameLen
  InumBytes = 8
  Parents <- MCRootOnly
  MaxChanges = 1
  MallocFails = FALSE
SPECIFICATION Spec
INVARIANT TypeOK
INVARIANT DirsWellFormed
INVARIANT NamespaceConsistent
INVARIANT ReaddirComplete
PROPERTY NamespaceRefined
