CONSTANTS
    Names = {"a", "b"}
    Initial <- TwoSteps
    Calls = {"search", "write"}
    Lookups = {"search"}
    Confs <- SomeConfs
    MaxSteps = 3
    MaxLen = 3
    MaxWorkers = 2
SPECIFICATION Spec
INVARIANTS
    ShownIsPlan
    EndIsShown
    OneStepRunning
PROPERTIES
    RunSettles
CHECK_DEADLOCK FALSE
