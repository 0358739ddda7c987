SPECIFICATION PartsSpec
CONSTANTS
    r1 = r1
    r2 = r2
    c1 = c1
    c2 = c2
    p1 = p1
    p2 = p2
    m1 = m1
    Requests = {r1, r2}
    Central = {r1}
    Callers = {c1, c2}
    Payloads = {p1, p2}
    Manual = {m1}
    MaxAttempts = 3
    MaxCrashes = 1
    NoRow = NoRow
    NoRequest = NoRequest
    NoEvent = NoEvent
    NotSaid = NotSaid
    None = None
    MaxWaiting = 1
SYMMETRY Interchangeable
INVARIANTS
    TypeOK
    AtMostOneCopy
    CentralRejectionHonest
    AnswerIsFinal
    ConfirmedHasEvidence
PROPERTIES
    ResultStands
