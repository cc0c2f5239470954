\* One completed job with embedded messages, up to three requests at a time,
\* three questions, one worker that cleans up, and one fault.
SPECIFICATION ChatSpec
\* Once the job is deleted and nobody asks the system may stop.
CHECK_DEADLOCK FALSE
CONSTANTS
    Jobs <- MCOneJob
    Workers = {w1}
    NoWorker = NoWorker
    Files = {}
    NoFile = NoFile
    MediaOf <- MCNoFile
    MaxCleanups = 2
    MaxRuns = 0
    MaxFaults = 1
    Requests = {c1, c2, c3}
    LegacyJobs <- MCOneJob
    MaxMessages = 3
SYMMETRY MCSymmetry
INVARIANTS
    SequenceUnique
    LegacyKept
