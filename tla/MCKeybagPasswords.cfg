SPECIFICATION Spec
CONSTANTS
  Images <- MCShared
  Requests <- MCRequests
  MaxEntries = 6
  None = None
INVARIANT EveryPasswordUnlocks
CHECK_DEADLOCK FALSE
