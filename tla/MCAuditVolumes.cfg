SPECIFICATION FairSpec
CONSTANTS
  Containers <- MCUnparsed
  MaxReapLists = 2
  NoReaper = NoReaper
INVARIANT EveryVolumeIsAudited
CHECK_DEADLOCK FALSE
