SPECIFICATION VfsFairSpec
CONSTANTS
  Workers = {w1, w2}
  Live = Live
  Snap = Snap
  Mounts <- MCMounts
  Oids = {1}
  Methods = {"read_xattr_at", "unallocated"}
  MaxCalls = 2
  SpacemanOf <- MCSpacemanOf
  XidOf <- MCXidOf
  None = None
INVARIANTS LockHeldInside ReadsAreOwn
PROPERTIES PoisonIsFinal EveryCallReturns
CHECK_DEADLOCK FALSE
