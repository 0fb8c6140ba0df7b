SPECIFICATION Spec
CONSTANTS
  Servers = {1, 2, 3}
  Crashed = {3}
  MaxVersion = 1
  OpenMembership = TRUE
  Reliable = FALSE
  MaxElections = 2
  MaxCrashes = 1
  Capacity <- MCCapacity
INVARIANTS TypeOK TakeoverFresh
CHECK_DEADLOCK FALSE
