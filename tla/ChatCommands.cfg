SPECIFICATION FairSpec
CONSTANTS
    t1 = t1
    t2 = t2
    NoThread = NoThread
    Threads <- MCThreads
    Commands <- MCCommands
    Lower <- MCLower
    MaxFaults = 2
INVARIANTS
    LocksMatchPlaces
    CallbacksSendToTheOriginal
PROPERTIES
    RegisteredIsNeverForwarded
    LocksAreGivenBack
