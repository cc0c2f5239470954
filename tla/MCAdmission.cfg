SPECIFICATION Spec
SYMMETRY MCSymmetry
CONSTANTS
    Users = {u1, u2}
    NoUser = NoUser
    Jobs = {j1, j2}
    NoJob = NoJob
    Requests = {r1, r2}
    MediaSeconds = 2
    DailySeconds = 3
    DailyQuestions = 1
    ActiveLimit = 1
    Lease = 2
    DayLength = 2
    Durations <- MCDurations
    Unknown = Unknown
    Window <- MCWindow
    WindowMax <- MCWindowMax
    MaxBuckets = 1
    MaxTime = 3
    MaxCalls = 3
    MaxRestarts = 1
CHECK_DEADLOCK FALSE
INVARIANTS DailyLimits ChargedExactly ActiveWithinLimit LimiterHolds
PROPERTIES ImplementsBudget
