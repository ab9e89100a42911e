SPECIFICATION SupportSpec
CONSTANTS
    Modes = {"Foreground"}
    Workers = {w1}
    Connections = {c1, c2}
    InitialDelay = 2
    MaxDelay = 1
    HasPreambleTimeout = TRUE
    MayPanic = TRUE
    MaxErrors = 1
    MaxControls = 1
    Client = c1
    Probe = c2
    MaxCalls = 3
    PreambleTypes = {"A", "B"}
    Backoffs <- MCBackoffs
    MaxAllocations = 3
    MaxWindows = 2
    MaxResets = 1
    Tests = {t1, t2}
    Messages = {"m"}
    Levels = {"warn", "info"}
    Labels = {"a", "b"}
    Series <- MCSeries
    MaxLogs = 2
    MaxCount = 1
    MaxQueries = 1
    Capacities = {0, 1, 2}
    SendCounts = {0, 2, 3}
    Iterations = {0, 2}
    MaxArrayElements = 3
    MaxRecursionDepth = 1
    Widths = {0, 1, 2, 3, 4, 8, 9}
    Lengths = {0, 1, 255, 256, 65535, 65536}
    MaxPrefixes = 2
    MaxPreambleLen = 4
    Scenarios <- MCScenarios
INVARIANTS FramesAsSent DrivesReturn PairIsOwned 
PROPERTIES SupportEnds
