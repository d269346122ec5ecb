SPECIFICATION FairSpec
CONSTANTS
    t1 = t1
    t2 = t2
    p1 = p1
    p2 = p2
    p3 = p3
    p4 = p4
    NoPacket = NoPacket
    Threads <- MCThreads
    Packets <- MCPackets
    Malformed <- MCMalformed
INVARIANTS
    OneOwner
PROPERTIES
    IsAFilter
    NullMeansDrained
    EveryCallReturns
