\* Two processes alive or more, with alarms between any two steps
SPECIFICATION Spec
CONSTANTS
    p1 = p1
    p2 = p2
    p3 = p3
    None = None
    Procs <- MCProcs
    MaxFrames = 3
INVARIANTS
    CtxTypeOK
    TrapAtomic
    UserRunsUnmasked
    ContextsIntact
    OneTrapPerCall
SYMMETRY MCSymmetry
CHECK_DEADLOCK FALSE
