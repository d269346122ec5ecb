SPECIFICATION FairSpec
CONSTANTS
    Callers = {t1, t2}
    Names = {mod1, mod2}
    MaxLogCalls = 6
    MaxFaults = 2
    None = none
INVARIANTS
    SessionsAreSeparated
    LogsIntoItsFolder
PROPERTIES
    CallsReturn
CHECK_DEADLOCK FALSE
