SPECIFICATION FailoverSpec
CONSTANTS
    Servers <- MCServers
    MaxVersion = 2
    OpenMembership = FALSE
    Reliable = TRUE
    Crashed = {}
    Prompt = TRUE
    MaxElections = 2
    MaxCrashes = 1
    Capacity <- MCSnapshotsOnly
    MaxSyncs = 1
    MaxFaults = 1
PROPERTIES AnsweredStays
CHECK_DEADLOCK FALSE
