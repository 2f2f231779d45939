\* Every process asleep
SPECIFICATION Spec
CONSTANTS
    MaxPids = 3
    NumPcbs = 3
    NumPtrs = 2
    NumTimers = 1
    SleepArgs <- MCSleepArgs
    UserCalls <- MCSleepOnly
    LogFile = FALSE
PROPERTY IdleOnlyRetries
CHECK_DEADLOCK FALSE
