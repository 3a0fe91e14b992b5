SPECIFICATION FairSpec
CONSTANTS
    Proc <- Pids
    Root = 0
    Capacity = 1
    Sizes = {1, 2}
    Codes = {1, 256}
    Signals = {9, 6}
    Core = {6}
    MaxWaits = 2
CHECK_DEADLOCK FALSE
INVARIANT OkIsTruthful
INVARIANT RaisesWithReason
PROPERTY TreeDies
PROPERTY WaitReturns
