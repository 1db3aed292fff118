SPECIFICATION FairSpec
CONSTANTS
    MAX = 5
    MaxGeometry = 1
    MaxFaults = 2
INVARIANTS
    TypeOK
    NewFrameKept
PROPERTIES
    HeldFrameStable
    FramesFlow
