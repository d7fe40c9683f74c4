SPECIFICATION Spec
CONSTANTS
  DescBlocks = 3
  Blocks <- MCBlocks
  ZeroBlocks <- MCZeroBlocks
  NX_MAGIC = 1
  MinBlockSize = 4
  MaxBlockSize = 8
  MaxCpmCount = 2
  None = None
INVARIANTS LiveIsNewest MappingsAreLive RefusalHasAReason
CHECK_DEADLOCK FALSE
