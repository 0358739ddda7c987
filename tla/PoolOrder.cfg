SPECIFICATION Spec
CONSTANTS
    Sends = {c1, c2}
    Chats = {}
    Refused = {}
    c1 = c1
    c2 = c2
    k1 = k1
    Convs = {k1}
    ConvOf <- OneConversation
    Workers = {w1, w2}
    Poller = poller
    Receivers = {poller}
    QueueMax = 3
    MaxWaiting = 2
    MaxCrashes = 0
    NoCommand = NoCommand
INVARIANT RunsInOrder
CHECK_DEADLOCK FALSE
