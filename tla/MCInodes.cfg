SPECIFICATION Spec
CONSTANTS
  PARTITION_SIZE = 6
  SLOTS = 2
  I_LIST_SIZE = 1
  D_BLOCK_SIZE = 4
  INODES_PER_BLOCK = 3
  DIRECT = 2
  FileIdx <- MCDirect
  FileTypes <- MCDirTypes
  StoredMData <- MCMData
  DataContents <- MCContents
INVARIANT TypeOK
INVARIANT HeldNotFree
INVARIANT OneOwner
PROPERTY StoreSpec
