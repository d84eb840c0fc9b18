SPECIFICATION Spec
CONSTANTS
    k1 = k1
    k2 = k2
    t1 = t1
    t2 = t2
    None = None
    Keys = {k1, k2}
    Replayable = {k1}
    Tabs = {t1, t2}
    MaxActive = 1
    MaxAttempts = 2
    MaxSends = 3
INVARIANTS
    TypeOK
    ConfirmedTookEffect
PROPERTIES
    ImplementsCommandEffect
SYMMETRY TabSymmetry
CHECK_DEADLOCK FALSE
