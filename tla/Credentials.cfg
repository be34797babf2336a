CONSTANTS
    MaxAttempts = 2
    MaxBusy = 2
    Period = 2
    Life = 3
    None = None
SPECIFICATION Spec
INVARIANTS TypeOK BearerFresh LeftoverIsLate
PROPERTY CacheStaysUsable
