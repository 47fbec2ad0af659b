CONSTANTS
    None = None
    Procs = {p1, p2}
    Runs = {r1, r2, r3}
    Schedules <- AllSchedules
SPECIFICATION Spec
SYMMETRY Symmetry
INVARIANTS
    BusyWhileExecuting
    OneExecution
    NoPhantomBusy
    WaitingIsAnswerable
    ApprovedOnce
PROPERTIES
    ArchiveIsKept
