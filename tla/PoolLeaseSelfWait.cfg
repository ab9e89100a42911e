CONSTANTS
    Leases = {l1}
    MaxInFlightPerSocket = 1
    MaxOps = 2
SPECIFICATION LeaseSpec
SYMMETRY Symmetry
INVARIANTS NeverAwaitsOwnGate
CHECK_DEADLOCK FALSE
