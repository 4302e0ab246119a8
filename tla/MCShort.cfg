SPECIFICATION Spec
CONSTANTS
  PARTITION_SIZE = 9
  SLOTS = 3
  I_LIST_SIZE = 1
  D_BLOCK_SIZE = 2
  DataContents <- MCContents
INVARIANT HeadIsBlockOrNull
