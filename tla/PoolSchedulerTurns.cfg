CONSTANTS
    Handles = {h1, h2}
    NumSlots = 1
    MaxInFlight = 1
    MaxWaiters = 2
    Policy = "RoundRobin"
    CursorWrap = 1
    MayPanic = TRUE
    MaxAcquires = 2
SPECIFICATION FairSpec
PROPERTIES NoSecondTurn AcquisitionsEnd
CHECK_DEADLOCK FALSE
