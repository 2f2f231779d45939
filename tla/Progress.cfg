\* Two sleepers at a time among three processes, under the periodic timer.
SPECIFICATION FairSpec
CONSTANTS
    MaxPids = 3
    NumPcbs = 3
    NumPtrs = 2
    NumTimers = 2
    SleepArgs <- MCSleepArgs
    UserCalls <- MCSleepCalls
    LogFile = FALSE
INVARIANTS
    TimersMatchSleepers
    NoOversleep
    WorkConserving
PROPERTIES
    NoResurrection
    ReadyRuns
    SleepersWake
CHECK_DEADLOCK FALSE
