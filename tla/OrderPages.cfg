SPECIFICATION Spec
CONSTANTS
    Guarded = {"g"}
    Ordinary = {"o"}
    Nameless = {}
    MaxPending = 1
    Retries = 1
    SlowPages = TRUE
    Nobody = "nobody"
INVARIANT
    OwnPageSaidSo
CHECK_DEADLOCK FALSE
