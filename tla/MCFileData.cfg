SPECIFICATION AdapterSpec
CONSTANTS
  Files <- MCFiles
  BlockSize = 2
  ImageBlocks = 6
  MaxFileBytes = 10
  MaxU64 = 40
  ChunkSize = 2
  MAX_XF_NUM_EXTS = 8
  Windowed <- MCWindowed
  MaxStreamId = 2
  BufLens = {1, 2, 4}
INVARIANTS StreamIsExact RefusesOnlyDamage RoundTrip FieldsAsWritten WindowsAreTheStream
CHECK_DEADLOCK FALSE
