\* Selective receive, a match function may raise on k3 and on the timeout.
SPECIFICATION FairSpec
CONSTANTS
    k1 = k1
    k2 = k2
    k3 = k3
    Kind = {k1, k2, k3}
    Raising = {k3, "timeout"}
    MaxPuts = 4
    MaxCalls = 3
INVARIANT InOrder
PROPERTY ImplementsMailbox
PROPERTY CallReturns
CHECK_DEADLOCK FALSE
