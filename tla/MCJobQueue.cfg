\* One job, two workers: the second takes over while the first is still in its
\* pipeline, and both may crash.
SPECIFICATION FairSpec
CONSTANTS
    Jobs <- MCOneJob
    Workers = {w1, w2}
    LastStage = 2
    MaxAttempts = 2
    LeaseTicks = 2
    RetryDelays <- MCDelays
    MaxLag = 1
    MaxFaults = 2
INVARIANTS
    ExclusiveAttempt
    CurrentProgress
    RetryLeft
    IndexIntact
PROPERTIES
    ImplementsLifecycle
    EverySettles
