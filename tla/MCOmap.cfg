SPECIFICATION Spec
CONSTANTS
  Images <- MCImages
  MaxBtreeDepth = 3
  LastPaddr = 7
INVARIANTS ResolvesNewest NeverFabricated EveryTurnReadsANewBlock
PROPERTY ImplementsStore
CHECK_DEADLOCK FALSE
