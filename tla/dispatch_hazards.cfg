SPECIFICATION Spec
CONSTANTS
    None = None
    Procs = {p1, p2}
    Tasks = {t1}
    Workers = {w1, w2}
    Lease = 3
    Heartbeat = 1
    MaxAttempts = 1
    AttemptCap = 1
    Hazards = {"undispatched", "boot_race", "early_input", "double_input", "crossed_write", "late_heartbeat"}
SYMMETRY Symmetry
PROPERTY
    FinalIsStable
