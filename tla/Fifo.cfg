\* Two values through a queue of two places.
SPECIFICATION BQSpec
CONSTANTS
    MaxPids = 3
    NumPcbs = 3
    NumPtrs = 5
    NumTimers = 1
    SleepArgs <- MCSleepArgs
    UserCalls <- MCQueueCalls
    LogFile = FALSE
    QIds <- MCOneQueue
    Values <- MCValues
    Capacities <- MCCapacityTwo
    ResultPtrs <- MCPointer
    NumBQs = 1
    NumItems = 2
INVARIANTS
    QueueShape
    WaitersMatchCalls
PROPERTY
    ImplementsFifo
CHECK_DEADLOCK FALSE
