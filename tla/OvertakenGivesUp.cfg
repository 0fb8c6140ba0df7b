SPECIFICATION Spec
CONSTANTS
  Servers = {1, 2}
  Crashed = {}
  MaxVersion = 0
  OpenMembership = TRUE
  Reliable = FALSE
  MaxElections = 2
  MaxCrashes = 0
  Capacity <- MCCapacity
PROPERTY OvertakenGivesUp
CHECK_DEADLOCK FALSE
