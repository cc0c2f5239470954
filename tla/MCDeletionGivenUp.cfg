\* One job, executed once, and a cleanup that is given up after three attempts, of
\* which two faults can make two fail.
SPECIFICATION FairSpec
CHECK_DEADLOCK FALSE
CONSTANTS
    Jobs <- MCOneJob
    Workers = {w1, w2}
    NoWorker = NoWorker
    Files = {f}
    NoFile = NoFile
    MediaOf <- MCOneFile
    MaxCleanups = 3
    MaxRuns = 1
    MaxFaults = 2
INVARIANT
    GivenUpAfterAll
