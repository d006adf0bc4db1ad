CONSTANTS
    x1 = x1
    x2 = x2
    x3 = x3
    a1 = a1
    a2 = a2
    r1 = r1
    r2 = r2
    Refs = {x1, x2}
    AccountOf <- MCAccountOf
    RoleOf <- MCRoleOf
    Saved = {x1}
    MaxGeneration = 2
    None = None
    Tools = {t1}
    Parts = 2
    Sender = r1
    t1 = t1
SPECIFICATION Spec
CHECK_DEADLOCK FALSE
INVARIANTS
    LedgerTruthful
    RowsTruthful
    BatchThroughOne
    NoSecondReply
PROPERTIES
    DeletionFreezes
