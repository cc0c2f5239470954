\* One job of up to three versions, two relays, two requests at a time and one
\* fault, with two deliveries before a notification is blocked.
SPECIFICATION FairSpec
\* A job with nothing to deliver and no version left is a state to stop in.
CHECK_DEADLOCK FALSE
CONSTANTS
    Jobs <- MCOneJob
    MaxAttempts = 1
    LastStage = 2
    Relays = {r1, r2}
    Handlers = {h1, h2}
    NoRelay = NoRelay
    NoHandler = NoHandler
    MaxDeliveries = 2
    MaxVersion = 3
    MaxFaults = 1
INVARIANTS RefundOwed DeliveredIsAcked
PROPERTY EventuallyRefunded
