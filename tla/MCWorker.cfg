SPECIFICATION WorkerSpec
CONSTANTS
    Last = 2
    Dispatchers = {d1, d2}
    NoRun = NoRun
    MaxAttempts = 3
    Lease = 2
    RetryBase = 1
    RetryMax = 3
    BatchLimit = 2
    MaxBreaks = 2
    Invoices = 3
    Limit = 2
    After = 1
    Window = 5
    Carriers <- InOrder
    Day = 4
    RefreshEvery = 26
    LongestRun = 1
    MostLost = 2
    Points = {"p1", "p2"}
    Parts = {"a", "b"}
    PartsOf <- Border
    Items <- Things
    Requests = 2
    Jobs = {j1, j2}
    Importers = {j1}
    LastTime = 2
INVARIANTS
    NoSpuriousDuplicate
    AttemptsBounded
    UnrecordedForAReason
    WeekOldAtMost
    SyncOK
    CleanDateHolds
PROPERTIES
    FreshInOrder
    Settled
    OffForAReason
