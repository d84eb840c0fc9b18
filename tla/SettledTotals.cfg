SPECIFICATION OfficeSpec
CONSTANTS
    None = None
    o1 = o1
    o2 = o2
    Orders = {o1, o2}
    Amount <- OrderAmounts
    Openings = {1}
    Calls = {x1, x2, x3}
    MaxSessions = 2
    MaxMoved = 1
    Strays = FALSE
    Requests = {y1, y2}
    Files = {"f"}
    Rows <- TwoRows
    CardAmount <- OneOfEach
    MaxVersion = 3
    BillItems = {1, 2}
    Price <- OneAndTwo
    Payments = {"m", "n", "p"}
    Parts = {1, 2}
    Parties = {"w", "b"}
    Bucket = "b"
    Services <- TwoServices
    ItemKinds <- TwoItemKinds
    Calculations = {s1, s2}
    MaxLedger = 1
    MaxRevisions = 2
    Policies = {1, 2}
    Periods = {1}
    Records = {1, 2}
    PayAmounts = {1, 2}
    Occurrences = {1, 2}
    Debtors = {1}
    Types = {1, 2}
    Owed = 2
    Recoveries = {1, 2}
    Deliveries = {1, 2}
    OrderKeys = {"k"}
    Events <- ThreeEvents
    MaxExpired = 1
    ClubKeys = {1, 2}
    Payloads = {"sale", "link"}
    MaxEvents = 2
    Items = {1, 2}
    AllowNegative = {2}
    Places = {1, 2, 3}
    Transit = 3
    Transfers = {"t"}
    Sent <- UpToOne
    Lanes <- OneLane
    Configurable = {1}
    Modes = {"immediate", "awaiting_receipt"}
    Sales = {1, 2}
    Recipe <- OneOfEach
    Doses = {"d"}
    Returns <- OneCrate
    Counts = {1}
    MaxStock = 1
    Members = {1, 2}
    Goods = {1, 2, 3}
    GoodsPrice <- OneOneTwo
    Author <- OneNobodyTwo
    Divisions = {"table_responsible", "item_author", "shift_pool"}
    Pool <- OneAndTwo
    Discounts = {0, 1}
    ChargePolicies <- TwoPolicies
    Manual = {1}
    Pays <- ThreePays
    Bands <- TwoBands
    Target = 2
    Bonus = 1
    FixedRate = 1000
    People = {2, 3}
INVARIANT TotalsAreOfHash
CONSTRAINT OneSubject
SYMMETRY CallSymmetry
CHECK_DEADLOCK FALSE
