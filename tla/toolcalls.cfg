SPECIFICATION FairSpec
CONSTANTS
    Tools = {"a", "b"}
    Confs <- SomeConfs
    MaxCalls = 2
    MaxReruns = 2
    MaxCancels = 2
INVARIANTS
    Paired
    EffectsGranted
    CancelWins
PROPERTIES
    SentWhileWaiting
    CallsEnd
