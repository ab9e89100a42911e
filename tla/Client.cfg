SPECIFICATION FairSpec
CONSTANTS
    MinFrameLength = 2
    MaxFrameLength = 4
    DefaultFrameLength = 2
    MaxRequests = 2
    MaxPushes = 1
    Hooks = {"h"}
    Lengths = {1, 3}
    FrameLengths = {1}
    ExplicitIds = {9}
    StreamLengths = {1}
    HeaderLengths = {1, 2}
    ChunkSizes = {0, 1}
    BodyLengths = {2}
INVARIANTS   ConnectionInStep
PROPERTIES TimedOutIsSilent TimedStepsEnd
CHECK_DEADLOCK FALSE
