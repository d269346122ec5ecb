SPECIFICATION Spec
CONSTANTS
    Threads = {t1, t2}
    Servers = {s1, s2}
    NoServer = none
    Torn = torn
    MaxCalls = 4
INVARIANTS
    ConnectedNamesItsServer
    ConnectionIsRecorded
CHECK_DEADLOCK FALSE
