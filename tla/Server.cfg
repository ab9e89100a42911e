SPECIFICATION FairSpec
CONSTANTS
    Modes = {"Foreground", "Spawned"}
    Workers = {w1, w2}
    Connections = {c1, c2}
    InitialDelay = 2
    MaxDelay = 1
    HasPreambleTimeout = TRUE
    MayPanic = TRUE
    MaxErrors = 2
    MaxControls = 2
INVARIANTS DrainedIsQuiet OneLateAccept
PROPERTIES StopDrains
