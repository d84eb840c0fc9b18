SPECIFICATION AdministrationSpec
CONSTANTS
    d1 = d1
    w1 = w1
    w2 = w2
    x1 = x1
    None = None
    Docs = {d1}
    Scenarios = {"authorized", "rejected"}
    Runs = {w1, w2}
    Clerks = {x1}
    Hooks <- OneHook
    MaxAttempts = 2
    Batch = 1
    MaxRevision = 12
    MaxRequeue = 1
    MaxAsks = 1
    MaxFaults = 1
    Calls = {y1, y2}
    Emails = {1}
    Roles = {"r"}
    Invitations = {"i", "j"}
    MaxSent = 2
    Purchases = {1, 2}
    Notes = {"n"}
    Brands = {"b"}
    MaxChanges = 1
    Tokens = {1, 2}
    Steps = {"catalog_setup", "printer_setup"}
    Dumps = {1}
    Branches = {"a", "b"}
    MaxKeys = 2
    MaxVersion = 3
    Devices = {1}
    Printers = {1}
    Categories = {1}
    DeviceModes = {"manual"}
    FormDevices = {}
    FormPrinters = {}
    Modes = {"manual", "tef"}
    Fields = {"f"}
    Values = {0, 1}
    PageTables = {}
    PageModes = {"waiter_assisted"}
    MaxRevisions = 2
    MaxTime = 2
    Tables = {1}
    LinkModes = {"waiter_assisted", "disabled"}
    LinkValues = {0}
    LinkRevisions = 1
    MaxLinks = 3
    LinkTime = 0
    Allowances = {3}
    Percents = {50}
    MaxIssued = 4
    Orders = {1, 2}
    Price <- TwoAndOne
    MaxPayments = 5
INVARIANTS
    AdministrationTypeOK
    DeadLetterExhausted
    RecordsAgree
PROPERTIES
    LeaseRespected
    HistoryHolds
SYMMETRY AdministrationSymmetry
CHECK_DEADLOCK FALSE
