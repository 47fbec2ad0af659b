SPECIFICATION FairSpec
CONSTANTS
    None = None
    Procs = {p1, p2}
    Tasks = {t1}
    Workers = {w1, w2}
    Lease = 3
    Heartbeat = 1
    MaxAttempts = 2
    AttemptCap = 2
    Hazards = {}
INVARIANTS
    TypeOK
    LeaseProtectsLiveRun
    ClaimIsExclusive
    RecoveriesAreCapped
PROPERTIES
    ImplementsExecution
    RecoveryTakesEffect
