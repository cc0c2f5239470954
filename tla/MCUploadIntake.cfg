\* Three requests of three users for two slots, and one error of the file system.
SPECIFICATION Spec
\* When every request has ended the system stops.
CHECK_DEADLOCK FALSE
CONSTANTS
    Users = {alice, bob, carol}
    NoUser = NoUser
    MaxRequests = 3
    MaxSlots = 2
    MaxFaults = 1
SYMMETRY MCSymmetry
INVARIANTS
    SlotsExact
    OwnedFileKept
    EveryUploadEnds
