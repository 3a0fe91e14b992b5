\* central_live
SPECIFICATION FairSpec
CONSTANTS
    a = a
    p0 = p0
    lg = lg
    P0 = p0
    Log = lg
    Pid = {p0, lg, a}
    Modes = {FALSE}
    Askers = {p0, a}
    MaxRequests = 2
    Kinds = {"spawn", "spawn-monitor", "connect-to", "other", "ping"}
    Statuses = {"signal"}
    Returns = {}
    Faults = {"detach", "garbled", "stopped", "unarmed"}
PROPERTY DeathReported
PROPERTY SystemStops
PROPERTY ConnectAnswered
INVARIANT LostWithReason
CHECK_DEADLOCK FALSE
