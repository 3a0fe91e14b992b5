\* central: the safety properties, with cores dumped and writes torn
SPECIFICATION Spec
CONSTANTS
    a = a
    p0 = p0
    lg = lg
    P0 = p0
    Log = lg
    Pid = {p0, lg, a}
    Modes = {FALSE, TRUE}
    Askers = {p0, lg, a}
    MaxRequests = 2
    Kinds = {"spawn-monitor", "top-level-exit"}
    Statuses = {"signal", "dumped"}
    Returns = {"ok"}
    Faults = {"torn", "garbled"}
INVARIANT TypeOK
INVARIANT TableExact
INVARIANT TableInv
INVARIANT MonitorsLive
INVARIANT DownMatchesSpawn
INVARIANT ResultTruthful
PROPERTY DownTruthful
 
CHECK_DEADLOCK FALSE
