SPECIFICATION PartsFairSpec
CONSTANTS
    e1 = e1
    e2 = e2
    e3 = e3
    Events = {e1, e2, e3}
    Drafts = {}
    Enriching = FALSE
    PartialAnswers = FALSE
    RejectsDuplicates = FALSE
    MaxRev = 2
    MaxRestarts = 1
    MaxPrunes = 1
    NoRow = NoRow
    None = None
    Guarded = {"g"}
    Ordinary = {"o", "n"}
    Anonymous = {"n"}
    MaxWaiting = 1
    Retries = 1
    Backfill = 3
    MaxSize = 8
    MaxRotations = 1
    MaxCuts = 1
    MaxLost = 1
    b1 = "b1"
    b2 = "b2"
    Buyers = {"b1", "b2"}
    MaxLookups = 1
    Renaming = {"b1"}
    MaxNames = 2
    MaxFailures = 1
    OpenShops = {"s"}
    Goods = {"g1", "g2", "n"}
    Unnumbered = {"n"}
    PageSize = 1
    MaxPages = 3
    MaxChanges = 1
    MaxFaults = 1
INVARIANTS
    TypesOK
    SendingIsHeld
    DeliveredIsStored
PROPERTIES
    QueuedIsDelivered
    OrdersAreTold
    SourcesAreRead
    NicknamesAreFound
CHECK_DEADLOCK FALSE
