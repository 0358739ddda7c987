SPECIFICATION FairSpec
CONSTANTS
    e1 = e1
    Events = {e1}
    Drafts = {}
    Enriching = TRUE
    PartialAnswers = FALSE
    RejectsDuplicates = FALSE
    MaxRev = 2
    MaxRestarts = 0
    MaxPrunes = 0
    NoRow = NoRow
PROPERTIES
    AcknowledgedIsMarked
CHECK_DEADLOCK FALSE
