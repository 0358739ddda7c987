SPECIFICATION PartsFairSpec
CONSTANTS
    o = o
    pool = pool
    Ordinary = {o}
    Guarded = {}
    Executors = {pool}
    MaxChanges = 2
    MaxSwitches = 1
    MaxKeywords = 1
    MaxAnswers = 2
    MaxFailures = 1
    Nothing = Nothing
    None = None
    r1 = r1
    r2 = r2
    p1 = p1
    Requests = {r1, r2}
    Central = {r1}
    Payloads = {p1}
    MaxAttempts = 3
    MaxCrashes = 1
INVARIANTS
    TypesOK
    LateAnswersBounded
PROPERTIES
    HoldEndsByOperator
    BrainIsFollowed
    SendsSettle
    ImplementsOutcome
CHECK_DEADLOCK FALSE
