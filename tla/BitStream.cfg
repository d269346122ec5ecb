SPECIFICATION MCSpec
CONSTANTS
    Items <- MCItems
    MaxWrites = 3
    Room = 40
    Garbage <- MCGarbage
    Datagrams <- MCDatagrams
    MaxCalls = 2
INVARIANTS
    ReadsBack
    NothingIsLost
    ReadsStayInside
    AcceptsExactlyWholeRpcs
    ExtractedAsSent
CHECK_DEADLOCK FALSE
