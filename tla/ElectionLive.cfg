SPECIFICATION FairSpec
CONSTANTS
  Servers = {1, 2}
  Crashed = {}
  MaxVersion = 0
  OpenMembership = TRUE
  Reliable = FALSE
  MaxElections = 2
  MaxCrashes = 0
  Capacity <- MCCapacity
INVARIANT PrimaryOpen
PROPERTIES ElectionEnds SplitResolved
CHECK_DEADLOCK FALSE
