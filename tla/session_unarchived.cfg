CONSTANTS
    None = None
    Procs = {p1, p2}
    Runs = {r1, r2}
    Schedules <- ArchiveActive
SPECIFICATION Spec
SYMMETRY Symmetry
PROPERTY
    ArchivedStaysArchived
