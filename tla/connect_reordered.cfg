\* Two processes that send to each other at once.
SPECIFICATION Spec
CONSTANTS
    p1 = p1
    p2 = p2
    p3 = p3
    Proc = {p1, p2}
    Talks <- Pair
    MaxSends = 3
    Mortal = {}
INVARIANT SenderOrder
CHECK_DEADLOCK FALSE
