SPECIFICATION RetryingSpec
CONSTANTS
  PARTITION_SIZE = 8
  SLOTS = 3
  I_LIST_SIZE = 1
  D_BLOCK_SIZE = 6
  DataContents <- MCContents
INVARIANT TypeOK
INVARIANT AllocatedNotFree
INVARIANT ListedOnce
INVARIANT ListIsChain
PROPERTY HeldDataKept
PROPERTY PoolSpec
PROPERTY RetrySucceeds
