SPECIFICATION Spec
CONSTANTS
  PARTITION_SIZE = 8
  SLOTS = 2
  I_LIST_SIZE = 1
  D_BLOCK_SIZE = 6
  INODES_PER_BLOCK = 3
  DIRECT = 1
  FileIdx <- MCWithDouble
  FileTypes <- MCFileTypes
  StoredMData = {}
  DataContents = {}
INVARIANT ListReadable
