SPECIFICATION Spec
CONSTANTS
    Conns = {c1, c2}
    KeyInterval = 2
    RepeatMax = 1
    MaxCalls = 2
    EncodeFails = TRUE
    MaxSwitch = 1
SYMMETRY ConnSymmetry
INVARIANTS
    TypeOK
    ClosedNotSubscribed
    KeyFrameFirst
    LeaveSticks
    DisplayChangeTold
