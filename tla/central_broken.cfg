\* central_broken
SPECIFICATION Spec
CONSTANTS
    a = a
    p0 = p0
    lg = lg
    P0 = p0
    Log = lg
    Pid = {p0, lg, a}
    Modes = {FALSE}
    Askers = {p0, a}
    MaxRequests = 1
    Kinds = {"connect-to"}
    Statuses = {"signal"}
    Returns = {}
    Faults = {}
INVARIANT CentralUnbroken
CHECK_DEADLOCK FALSE
