SPECIFICATION FairSpec
CONSTANTS
    NoEvent = NoEvent
    Events = {e1, e2, e3}
    Tenantless = {e3}
    Passes = {p1, p2}
    BatchSize = 2
    MaxClubAttempts = 2
    Answers = {"ok", "lost", "unavailable", "refused", "unrecorded"}
    MayCrash = {p2}
    MaxReplays = 1
INVARIANTS
    DeliveryTypeOK
    OneDelivery
    ProcessedWasReceived
PROPERTIES
    EventsSettle
CHECK_DEADLOCK FALSE
