CONSTANTS
    Runs = {r1, r2, r3}
    None = None
    Confs <- SomeConfs
SPECIFICATION Spec
SYMMETRY Symmetry
INVARIANTS
    OneRerunEach
    WaitingCanEnd
    NoGhosts
    ListedIsThere
    EndsAgree
