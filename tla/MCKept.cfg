SPECIFICATION Spec
CONSTANTS
  PARTITION_SIZE = 6
  SLOTS = 2
  I_LIST_SIZE = 1
  D_BLOCK_SIZE = 4
  INODES_PER_BLOCK = 4
  DIRECT = 1
  WORD_SIZE = 8
  USHORT_BLOCKS = 3
  Names <- MCNames
  LongNames <- MCLongNames
  Paths <- MCPaths
  Data <- MCData
  Tails <- MCTails
PROPERTY GivenUpIsUnallocated
