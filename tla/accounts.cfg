SPECIFICATION Spec
CONSTANTS
    None = None
    Dev = dev
    Users = {dev, u1, u2}
    Subjects = {s1, s2}
    Tokens = {t1}
    Flows = {f1, f2}
    Reqs = {q1, q2}
SYMMETRY Symmetry
INVARIANTS
    StateOnce
    InactiveIsOut
PROPERTIES
    OwnerKept
