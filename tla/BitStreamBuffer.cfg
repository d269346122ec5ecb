SPECIFICATION Spec
CONSTANTS
    StackBytes = 2
    Lengths <- MCLengths
    Writes <- MCWrites
    MaxBits = 24
CHECK_DEADLOCK FALSE
INVARIANTS
    MemoryIsSafe
    UsedIsDefined
    LargeBlocksAreFreed
