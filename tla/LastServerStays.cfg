SPECIFICATION FailoverSpec
CONSTANTS
    Servers <- MCServers
    MaxVersion = 0
    OpenMembership = FALSE
    Reliable = TRUE
    Crashed = {}
    Prompt = TRUE
    MaxElections = 1
    MaxCrashes = 0
    Capacity <- MCCapacity
    MaxSyncs = 1
    MaxFaults = 2
INVARIANT LastServerStays
CHECK_DEADLOCK FALSE
