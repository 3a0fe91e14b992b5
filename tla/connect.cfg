\* p1 and p2 send to each other, p1 to p3; p2 may die.
SPECIFICATION FairSpec
CONSTANTS
    p1 = p1
    p2 = p2
    p3 = p3
    Proc = {p1, p2, p3}
    Talks <- Fork
    MaxSends = 3
    Mortal = {p2}
INVARIANT SenderOrderUncrossed
INVARIANT NoticesAwaited
INVARIANT CachesAgree
PROPERTY SendReturns
PROPERTY Arrives
CHECK_DEADLOCK FALSE
