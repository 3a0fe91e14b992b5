SPECIFICATION FairSpec
CONSTANTS
    w1 = w1
    w2 = w2
    short = short
    odd = odd
    long = long
    socket = socket
    Writer = {w1, w2}
    Message = {short, odd, long, socket}
    Size <- Sizes
    Passing = {socket}
    Unloadable = {odd}
    Chunk = 4
    Capacity = 5
CHECK_DEADLOCK FALSE
INVARIANT ShortIsAtomic
PROPERTY ImplementsChannel
PROPERTY AllSettles
