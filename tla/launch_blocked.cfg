SPECIFICATION FairSpec
CONSTANTS
    Proc <- Pids
    Root = 0
    Capacity = 1
    Sizes = {1, 2}
    Codes = {0}
    Signals = {}
    Core = {}
    MaxWaits = 1
CHECK_DEADLOCK FALSE
PROPERTY StartReturns
