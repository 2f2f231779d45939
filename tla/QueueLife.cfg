\* Two ids for one queue block, two places for one item block, one link too few.
SPECIFICATION BQSpec
CONSTANTS
    MaxPids = 2
    NumPcbs = 2
    NumPtrs = 1
    NumTimers = 1
    SleepArgs <- MCSleepArgs
    UserCalls <- MCDeleteCalls
    LogFile = FALSE
    QIds <- MCTwoQueues
    Values <- MCOneValue
    Capacities <- MCAnyCapacity
    ResultPtrs <- MCPointers
    NumBQs = 1
    NumItems = 1
INVARIANTS
    BQTypeOK
    ItemAccounting
PROPERTY ImplementsFifo
CHECK_DEADLOCK FALSE
