SPECIFICATION FairSpec
CONSTANTS
    None = None
    Procs = {p1, p2}
    Clients = {c1}
    MaxEvents = 3
    PageSize = 2
    Hazards = {"race", "early", "unmirrored"}
INVARIANTS
    LiveIsReplay
    ToldSeqIsStored
PROPERTIES
    ImplementsLog
    DoneSawRun
    LoadRecovers
    CatchesUp
