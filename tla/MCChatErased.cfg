\* One completed job, one request at a time, two questions, one worker that
\* cleans up, and no faults.
SPECIFICATION ChatSpec
\* Once the job is deleted and nobody asks the system may stop.
CHECK_DEADLOCK FALSE
CONSTANTS
    Jobs <- MCOneJob
    Workers = {w1}
    NoWorker = NoWorker
    Files = {}
    NoFile = NoFile
    MediaOf <- MCNoFile
    MaxCleanups = 2
    MaxRuns = 0
    MaxFaults = 0
    Requests = {c1}
    LegacyJobs = {}
    MaxMessages = 2
SYMMETRY MCSymmetry
INVARIANT
    MessagesErased
