SPECIFICATION ForensicSpec
CONSTANTS
  Images <- MCImages
  Requests <- MCRequests
  MaxEntries = 6
  None = None
  Containers <- MCContainers
  MaxReapLists = 2
  NoReaper = NoReaper
INVARIANTS KeyIsTheVolumes PasswordUnlocks StateIsObserved DisorderIsNoticed QueueIsReported
PROPERTY Terminates
CHECK_DEADLOCK FALSE
