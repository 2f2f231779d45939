\* Three producers and two consumers on a queue of one place
SPECIFICATION TestSpec
CONSTANTS
    MaxPids = 6
    NumPcbs = 6
    NumPtrs = 10
    NumTimers = 1
    SleepArgs <- MCSleepArgs
    UserCalls <- MCCalls
    LogFile = FALSE
    QIds <- MCQueues
    Values <- MCValues
    Capacities <- MCCapacities
    ResultPtrs <- MCPointer
    NumBQs = 2
    NumItems = 3
    UNIT_QID = 1
    CONC_QID = 2
    CAP = 1
    NPROD_PROCS = 3
    NCONS_PROCS = 2
INVARIANTS
    NeverStuck
    OnlyDeleteFails
    ConsumersServed
PROPERTY Terminates
CHECK_DEADLOCK FALSE
