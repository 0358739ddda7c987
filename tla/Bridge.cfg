SPECIFICATION PartsSpec
CONSTANTS
    e1 = e1
    u1 = u1
    u2 = u2
    Events = {e1}
    Blocked = {}
    Uploaders = {u1, u2}
    MaxRev = 2
    MaxRestarts = 1
    MaxPrunes = 1
    MaxToggles = 1
    NoRow = NoRow
    NoHold = NoHold
    Nobody = Nobody
    None = None
    GatewayEvents = {"e1", "e2"}
    Drafts = {"d1"}
    InlineSends = {"c1"}
    Pages = {"p1", "p2"}
    Requests = {"c1"}
    MaxDrops = 1
    Chats = {"k1", "k2"}
    MaxUnread = 2
    MaxCalls = 2
    Texts = {"s1", "s2"}
    MaxDetaches = 1
    Tabs = {"p"}
    Guarded = {"g"}
    Ordinary = {"o1", "o2"}
    Malformed = {"o1"}
    MaxOutbox = 1
    FlushLimit = 2
    MaxReloads = 1
    MaxSaid = 4
    Paths = {"f1", "f2", "f3"}
    Merged = {"f1"}
    MaxFailures = 2
INVARIANTS
    TypesOK
    SendingIsHeld
    OneHolder
    ResultsAreTold
    AnswersCount
    OpenedWasShown
    ReceiptIsOwn
    UpgradeIsSafe
PROPERTIES
    SentAsMeant
    GuardedLeavesStored
    WaitsAreTold
SYMMETRY Interchangeable
CHECK_DEADLOCK FALSE
