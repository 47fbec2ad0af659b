SPECIFICATION FairSpec
CONSTANTS
    Servers <- TwoServers
    Tools = {"a"}
    Requests = {"r1"}
    MaxChanges = 1
    MaxCrashes = 1
INVARIANTS
    OnlyConfigured
    FileIsWhole
PROPERTIES
    Converges
