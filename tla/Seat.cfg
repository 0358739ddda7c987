SPECIFICATION PartsFairSpec
CONSTANTS
    None = None
    Grace = 1
    RetryInterval = 1
    OpenChatAfter = 1
    Remind = 2
    Downgraded = 3
    DowngradeAfter = 2
    Snooze = 3
    Window = 1
    Forever = 3
    Pids = {"q"}
    Services = {"s1", "s2"}
    MaxRuns = 2
    MaxRestarts = 1
    MaxAsks = 2
    MaxFaults = 3
    Archives = {1, 2, 3}
    LastToken = 1
INVARIANTS
    TypesOK
    RestoredWasChosen
PROPERTIES
    HumansAreAsked
    ClientIsBack
    JobsAreDone
    PanelFollows
CHECK_DEADLOCK FALSE
