SPECIFICATION Spec
CONSTANTS
    None = None
    Events = {e1, e2, e3, e4}
    BatchLimit = 2
INVARIANT RecoverableByCursor
CHECK_DEADLOCK FALSE
