SPECIFICATION FairSpec
CONSTANTS
    t1 = t1
    t2 = t2
    NoThread = NoThread
    Threads <- MCThreads
    RpcHooks <- MCRpcHooks
    PacketHooks <- MCPacketHooks
    MaxDepth = 2
    MaxRegistrations = 6
INVARIANTS
    LockMatchesFrames
    OnlyReentryInvalidates
PROPERTIES
    AllowedMeansAllAsked
    LockEventuallyFree
