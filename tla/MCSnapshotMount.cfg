SPECIFICATION Spec
CONSTANTS
  Oids = {o1, o2}
  Blocks = {2, 3, 4, 5, 6, 7, 8}
  TreeRoot = 9
  MaxXid = 5
  Encryption = {TRUE, FALSE}
  None = None
  FoundTrees <- MCFoundTrees
  NameA = a
  NameB = b
  NameC = c
  NoName = NoName
  Names <- MCNames
  MaxSnapTreeDepth = 3
SYMMETRY MCSymmetry
INVARIANTS ListsEverySnapshot NameResolves SoundTreeIsRead NothingUnverified PointInTime RefusesOnlyUnknown
CHECK_DEADLOCK FALSE
