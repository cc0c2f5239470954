\* Two keys of a user who may have one active job, two requests at a time, an
\* upload, and one fault.
SPECIFICATION Spec
\* With every job deleted and no file left to store the system may stop.
CHECK_DEADLOCK FALSE
CONSTANTS
    Keys = {k1, k2}
    NoKey = NoKey
    Requests = {r1, r2}
    NoRequest = NoRequest
    Uploads = {upload}
    Links = {}
    ActiveLimit = 1
    MaxFiles = 2
    MaxSubmits = 3
    MaxFaults = 1
SYMMETRY MCSymmetry
INVARIANTS
    AcceptedOnce
    AcceptedIsReserved
    AcceptedHasMedia
PROPERTIES
    ImplementsIntake
