SPECIFICATION Spec
CONSTANTS
  PARTITION_SIZE = 6
  SLOTS = 2
  I_LIST_SIZE = 1
  D_BLOCK_SIZE = 4
  INODES_PER_BLOCK = 3
  DIRECT = 2
  WORD_SIZE = 8
  h1 = h1
  h2 = h2
  Handles = {h1, h2}
  Offsets <- MCOffsets
  Sizes = {1}
  Data <- MCOneData
  Exclusive = FALSE
PROPERTY AddressesStay
