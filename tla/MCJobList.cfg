SPECIFICATION FairSpec
CONSTANTS
    MaxJobs = 2
    FirstJobs = 1
    PageSize = 1
    MaxCalls = 2
    MaxVersion = 2
    MaxPushes = 2
    MaxFaults = 1
CHECK_DEADLOCK FALSE
INVARIANTS ListedOnce
PROPERTIES NeverBack ListConverges
