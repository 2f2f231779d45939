\* An alarm that comes during a system call
SPECIFICATION Spec
CONSTANTS
    p1 = p1
    p2 = p2
    p3 = p3
    None = None
    Procs <- MCProcs
    MaxFrames = 3
INVARIANT AlarmOffInTrap
CHECK_DEADLOCK FALSE
