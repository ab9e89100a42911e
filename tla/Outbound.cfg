SPECIFICATION OutboundSpec
CONSTANTS
    HighCap = 2
    LowCap = 2
    MultiCap = 1
    MaxHighBeforeLow = 2
    HasTimeSlice = TRUE
    HasStreamEndFrame = FALSE
    MayFailToFragment = TRUE
    MaxRuns = 2
    Producers = {t1, t2}
    Cap = 1
    Rate = 1
    HasSink = TRUE
    DlqCap = 1
    LogEveryN = 2
    MaxPushes = 2
INVARIANTS SourceAccounting LowBypassBounded LossesReported
PROPERTIES CommandsWellFormed RunServesLow RunReturns Lanes PushesSettle
CHECK_DEADLOCK FALSE
