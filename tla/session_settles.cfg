CONSTANTS
    None = None
    Procs = {p1, p2}
    Runs = {r1, r2}
    Schedules <- OverlapOfTwo
SPECIFICATION FairSpec
PROPERTY
    RunningSettles
