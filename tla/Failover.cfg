SPECIFICATION FailoverSpec
CONSTANTS
    Servers <- MCServers
    MaxVersion = 2
    OpenMembership = FALSE
    Reliable = TRUE
    Crashed = {}
    Prompt = TRUE
    MaxElections = 2
    MaxCrashes = 1
    Capacity <- MCCapacity
    MaxSyncs = 2
    MaxFaults = 1
CONSTRAINT Budget
INVARIANTS FailoverTypeOK TakeoverFresh OpenUnlessSyncing
PROPERTIES CountedHeld VersionsForward
CHECK_DEADLOCK FALSE
