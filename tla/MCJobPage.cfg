SPECIFICATION PageFairSpec
CONSTANTS
    MaxCalls = 2
    MaxReports = 1
    MaxPushes = 1
    MaxFaults = 1
CHECK_DEADLOCK FALSE
PROPERTIES PageNeverBack ResultsFollow ErasedIsLeft
