SPECIFICATION RingSpec
CONSTANTS
  DescBlocks = 6
  Blocks <- MCBlocks
  ZeroBlocks <- MCZeroBlocks
  NX_MAGIC = 1
  MinBlockSize = 4
  MaxBlockSize = 8
  MaxCpmCount = 2
  None = None
  MaxMaps = 2
  MaxXid = 6
INVARIANTS OpensLastCommitted SpacemanOfCommitted RereadIsVerified
CHECK_DEADLOCK FALSE
