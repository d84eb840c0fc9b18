SPECIFICATION BranchSpec
CONSTANTS
    None = None
    Nothing = None
    NoJob = None
    Nobody = None
    r1 = r1
    r2 = r2
    m1 = m1
    m2 = m2
    s1 = s1
    s2 = s2
    Tables = {1, 2}
    Orders = {}
    Services = {}
    Guests = {}
    Reservations = {r1, r2}
    Entries = {}
    Starts = {0}
    Duration = 2
    Staff = {s1, s2}
    Settable = {}
    MaxVersion = 2
    Lines = {1, 2}
    Batches = {1, 2, 3}
    Stations = {"bar", "grill"}
    Routes <- TwoRoutes
    Cooks = {1, 2, 3}
    Screens = {}
    Reviewers = {}
    MaxEdits = 6
    Jobs = {1, 2}
    Polls = {1, 2}
    Shifts = {1, 2}
    Floor = {1}
    Persons = {m1, m2}
    Helps = {1}
    Ops = {1, 2}
INVARIANTS
    BranchTypeOK
    NoDoubleBooking
    EffectsOnce
    TicketsMatch
    ServesOwnTable
PROPERTIES
    FinalStaysFinal
SYMMETRY CallSymmetry
CHECK_DEADLOCK FALSE
