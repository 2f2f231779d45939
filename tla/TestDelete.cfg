\* The last assertion of the test program
SPECIFICATION TestSpec
CONSTANTS
    MaxPids = 5
    NumPcbs = 5
    NumPtrs = 10
    NumTimers = 1
    SleepArgs <- MCSleepArgs
    UserCalls <- MCCalls
    LogFile = FALSE
    QIds <- MCQueues
    Values <- MCValues
    Capacities <- MCCapacities
    ResultPtrs <- MCPointer
    NumBQs = 2
    NumItems = 3
    UNIT_QID = 1
    CONC_QID = 2
    CAP = 1
    NPROD_PROCS = 2
    NCONS_PROCS = 2
INVARIANT AssertionsPass
CHECK_DEADLOCK FALSE
