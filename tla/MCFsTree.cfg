SPECIFICATION FairSpec
CONSTANTS
  Volumes <- MCVolumes
  Requests <- MCRequests
  MaxFstreeDepth = 3
  RootDir = 2
INVARIANTS WalkComplete ListingInOrder PathResolution RefusesOnlyAbsent FaultsStayLocal
PROPERTY Terminates
CHECK_DEADLOCK FALSE
