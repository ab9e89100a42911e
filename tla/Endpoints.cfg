SPECIFICATION EndpointsSpec
CONSTANTS
    Extractors = {x1, x2}
    Capacity = 1
    ChunkSizes = {0, 1, 2}
    MaxBytes = 3
    MaxErrors = 1
    ReadSizes = {1, 3}
    Connections = {c1, c2}
    MaxBuilderCalls = 3
    Ids = {1}
    Middlewares = {"log", "auth"}
    StateTypes = {"A", "B"}
    Capacities = {10, 70000}
    Codecs <- MCCodecs
    CustomFragmentation <- MCCustomFragmentation
    PayloadLengths <- MCPayloadLengths
    Leases = {l1, l2}
    MaxInFlightPerSocket = 2
    MaxOps = 3
    Handles = {h1, h2}
    NumSlots = 2
    MaxInFlight = 1
    MaxWaiters = 1
    Policy = "Fifo"
    CursorWrap = 3
    MayPanic = TRUE
    MaxAcquires = 2
SYMMETRY Symmetry
INVARIANTS HooksNest  BodyReadOnce ExclusiveExchange LeaseReplies CapacityAccounting HonestAnswers
 
CHECK_DEADLOCK FALSE
