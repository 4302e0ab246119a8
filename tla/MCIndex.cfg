SPECIFICATION Spec
CONSTANTS
  BLOCK_SIZE = 4096
  BLOCK_ADDR_SIZE = 8
  DIRECT_NUM = 12
  INT_MAX = 2147483647
  OFF_MAX = 2147483647
  Starts <- MCStarts
INVARIANT IndexDocumented
