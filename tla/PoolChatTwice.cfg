SPECIFICATION Spec
CONSTANTS
    Sends = {c1}
    Chats = {c2}
    Refused = {}
    c1 = c1
    c2 = c2
    k1 = k1
    Convs = {k1}
    ConvOf <- OneConversation
    Workers = {w1}
    Poller = poller
    Receivers = {poller}
    QueueMax = 2
    MaxWaiting = 1
    MaxCrashes = 1
    NoCommand = NoCommand
INVARIANT ChatOpensOnce
CHECK_DEADLOCK FALSE
