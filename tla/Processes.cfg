\* Every call but sleep among five processes, three at a time, with a log file
\* and the smallest pools.
SPECIFICATION Spec
CONSTANTS
    MaxPids = 5
    NumPcbs = 3
    NumPtrs = 2
    NumTimers = 1
    SleepArgs <- MCSleepArgs
    UserCalls <- MCProcessCalls
    LogFile = TRUE
INVARIANTS
    TypeOK
    OnePlace
    FamilyTree
    PtrPoolSuffices
    MissedOnlyByInit
CHECK_DEADLOCK FALSE
