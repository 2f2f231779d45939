\* Sleepers, waiting parents and queue users at the same time.
SPECIFICATION BQSpec
CONSTANTS
    MaxPids = 3
    NumPcbs = 3
    NumPtrs = 5
    NumTimers = 1
    SleepArgs <- MCSleepArgs
    UserCalls <- MCMixedCalls
    LogFile = FALSE
    QIds <- MCOneQueue
    Values <- MCOneValue
    Capacities <- MCCapacityOne
    ResultPtrs <- MCPointer
    NumBQs = 1
    NumItems = 1
INVARIANTS
    OnePlace
    PtrAccounting
PROPERTY
    WokenForCause
CHECK_DEADLOCK FALSE
