SPECIFICATION Spec
CONSTANTS
    Configs = {c1, c2, c3}
    Roles = {r1, r2, r3}
    Absent = absent
    Unchanged = unchanged
SYMMETRY Symmetry
INVARIANTS
    Recoverable
PROPERTIES
    ImplementsAtomicSettings
