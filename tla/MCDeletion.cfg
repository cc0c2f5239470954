\* One job executed up to twice beside the tombstone of another, or two completed
\* jobs with the same original; two workers that execute and clean up, two faults,
\* and a cleanup that is given up after two attempts.
SPECIFICATION MCSpec
\* With every job deleted and nothing left to collect the system may stop.
CHECK_DEADLOCK FALSE
CONSTANTS
    Jobs <- MCTwoJobs
    Workers = {w1, w2}
    NoWorker = NoWorker
    Files = {f}
    NoFile = NoFile
    MediaOf <- MCOneFile
    MaxCleanups = 2
    MaxRuns = 2
    MaxFaults = 2
INVARIANTS
    IndexErased
    WaitsForWorker
    MediaKept
PROPERTIES
    EventuallyErased
    ScratchErased
    MediaCollected
