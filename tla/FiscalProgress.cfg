SPECIFICATION ProgressSpec
CONSTANTS
    d1 = d1
    w1 = w1
    w2 = w2
    x1 = x1
    None = None
    Docs = {d1}
    Scenarios = {"authorized", "rejected", "unknown", "not_configured"}
    Runs = {w1, w2}
    Clerks = {x1}
    Hooks <- OneHook
    MaxAttempts = 2
    Batch = 1
    MaxRevision = 12
    MaxRequeue = 1
    MaxAsks = 2
    MaxFaults = 1
PROPERTIES
    OperationsSettle
    DocumentsSettleWhileUp
CHECK_DEADLOCK FALSE
