\* Three processes on two PCB blocks, two resource blocks for three ids, two descriptors.
SPECIFICATION ResSpec
CONSTANTS
    i1 = i1
    i2 = i2
    i3 = i3
    t1 = t1
    t2 = t2
    MaxPids = 3
    NumPcbs = 2
    NumPtrs = 1
    NumTimers = 1
    SleepArgs <- MCSleepArgs
    UserCalls <- MCResCalls
    LogFile = FALSE
    Ids <- MCIds
    Types <- MCTypes
    OpenModes <- MCModes
    MaxFd = 2
    NumResources = 2
    NumDescs = 2
INVARIANTS
    ResTypeOK
    ListsInverse
    FdsUnique
    DescriptorAccounting
PROPERTY FailedOpenIsClean
CHECK_DEADLOCK FALSE
SYMMETRY MCSymmetry
VIEW MCView
