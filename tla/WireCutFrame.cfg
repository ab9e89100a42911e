CONSTANTS
    MaxArrayElements = 3
    MaxRecursionDepth = 1
    Widths = {4}
    Lengths = {0}
    MaxPrefixes = 1
    MaxPreambleLen = 4
    Scenarios <- MCCutScenarios
SPECIFICATION WireSpec
INVARIANT EndsAtFrameBoundary
