SPECIFICATION NodeSpec
CONSTANTS
  BlockLen = 25
  BTN_DATA_OFF = 3
  BTREE_INFO_LEN = 2
  TOC_FIXED_LEN = 2
  TOC_VAR_LEN = 4
  MAX_BTN_NKEYS = 9
  FixedKeyLen = 2
  FixedLeafLen = 2
  FixedBranchLen = 1
  Headers <- MCHeaders
  Lens = {1, 2}
  MaxRecords = 3
  BadNumbers = {0, 1, 5, 30}
INVARIANT MalformedIsEmpty
CHECK_DEADLOCK FALSE
