CONSTANTS
    Keys = {k1, k2}
    MaxMessageSize = 3
    ConnectionBudget = 5
    InFlightBudget = 4
    AssemblyTimeout = 1
    MaxSequence = 2
    MaxFrames = 5
    MaxDeserFailures = 2
    FrameLengths = {1}
    Totals <- MCTotals
    Routings <- MCRoutings
    Routes = {1}
    FragmentIds = {f1, f2}
    MaxPartials = 1
    MaxFragmentBytes = 2
    Configs <- MCConfigs
SPECIFICATION FairSpec
INVARIANTS AssemblyBudgetsHold MessagesWhole
PROPERTIES RefusedLeavesNoTrace PartialsPurged
CHECK_DEADLOCK FALSE
