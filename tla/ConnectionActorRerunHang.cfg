SPECIFICATION FairSpec
CONSTANTS
    HighCap = 1
    LowCap = 1
    MultiCap = 1
    MaxHighBeforeLow = 1
    HasTimeSlice = FALSE
    HasStreamEndFrame = TRUE
    MayFailToFragment = FALSE
    MaxRuns = 2
CHECK_DEADLOCK FALSE
PROPERTIES
    CancelTerminates
