SPECIFICATION Spec
CONSTANTS
    t1 = t1
    t2 = t2
    server = server
    other = other
    NoPlayer = NoPlayer
    Threads <- MCThreads
    Rpcs <- MCRpcs
    Form <- MCForm
    Bits <- MCBits
    Sender <- MCSender
    Lengths <- MCLengths
SYMMETRY Symmetry
INVARIANTS
    RefusedStaysOut
    HandledOnceUnlessItThrew
    EditsReachTheHandler
    ReplayHasASender
PROPERTIES
    IsAFilter
