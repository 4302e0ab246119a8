SPECIFICATION Spec
CONSTANTS
  PARTITION_SIZE = 7
  SLOTS = 3
  I_LIST_SIZE = 1
  D_BLOCK_SIZE = 5
  INODES_PER_BLOCK = 3
  DIRECT = 2
  FileIdx <- MCWithIndirect
  FileTypes <- MCFileTypes
  StoredMData = {}
  DataContents = {}
PROPERTY AllocRemoves
