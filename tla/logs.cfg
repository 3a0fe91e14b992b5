SPECIFICATION FairSpec
CONSTANTS
    main = main
    reader = reader
    user = user
    Thread = {main, reader, user}
    Main = main
    Reader = reader
    MaxRecords = 2
CHECK_DEADLOCK FALSE
INVARIANT InOrder
INVARIANT LostOnlyLate
INVARIANT RaisesOnlyForOthers
PROPERTY LogReturns
