SPECIFICATION FairSpec
CONSTANTS
    t1 = t1
    t2 = t2
    c1 = c1
    c2 = c2
    Null = Null
    Callers <- MCCallers
    Clients <- MCClients
    MaxFaults = 3
    MaxOverlaps = 1
INVARIANTS
    CrashNeedsAbortedAttach
    NoClientLeaked
    SuccessIsComplete
PROPERTIES
    SucceedsOnce
    LoopEndsUnlessAborted
