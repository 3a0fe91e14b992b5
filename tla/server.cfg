\* p1 and p2 send to each other; p2 may be closed, p1 may die.
SPECIFICATION FairSpec
CONSTANTS
    p1 = p1
    p2 = p2
    Proc = {p1, p2}
    Talks <- Pair
    MaxSends = 3
    Closers = {p2}
    Mortal = {p1}
INVARIANT OrderUncrossed
INVARIANT GoneTruthful
INVARIANT GoneLast
INVARIANT CloseCloses
PROPERTY Arrives
PROPERTY DeathNoticed
CHECK_DEADLOCK FALSE
