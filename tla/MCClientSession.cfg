SPECIFICATION FairSpec
CONSTANTS
    Accounts = {a, b}
    NoAccount = NoAccount
    MaxCalls = 2
    MaxSessions = 2
    MaxExpiries = 1
    MaxReloads = 1
    MaxFaults = 1
CHECK_DEADLOCK FALSE
INVARIANTS OneIdentity SignedOutStays SessionKept
PROPERTY EveryCallEnds
