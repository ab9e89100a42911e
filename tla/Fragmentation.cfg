CONSTANTS
    MaxMessages = 3
    Lengths = {0, 5, 7}
    MaxFragmentSize = 2
    MaxIndex = 2
    MaxMessageSize = 5
    MaxPartials = 2
    MaxBufferedBytes = 6
    Timeout = 2
    MaxFaults = 2
SPECIFICATION FairSpec
INVARIANTS BudgetsHold DeliveredWhole
 
CHECK_DEADLOCK FALSE
