SPECIFICATION PartsFairSpec
CONSTANTS
    e1 = e1
    e2 = e2
    u1 = u1
    u2 = u2
    Events = {e1, e2}
    Blocked = {e2}
    Uploaders = {u1, u2}
    MaxRev = 2
    MaxRestarts = 1
    MaxPrunes = 0
    MaxToggles = 0
    NoRow = NoRow
    NoHold = NoHold
    Nobody = Nobody
    c1 = c1
    c2 = c2
    k = k
    Sends = {}
    Chats = {c1, c2}
    Refused = {}
    Convs = {k}
    ConvOf <- OneConversation
    worker = worker
    Workers = {worker}
    Poller = poller
    Receivers = {poller}
    QueueMax = 2
    MaxWaiting = 1
    MaxCrashes = 0
    NoCommand = NoCommand
INVARIANTS
    DeliveredIsCurrent
PROPERTIES
    RevisionArrives
    ResultsArrive
    OutboxDrains
CHECK_DEADLOCK FALSE
