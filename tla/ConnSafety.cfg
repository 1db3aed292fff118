SPECIFICATION Spec
CONSTANTS
    Conns = {c1, c2}
    Keys = {k1}
    NoKey = NoKey
    Platform = "windows"
    MaxPending = 1
SYMMETRY RegistrySymmetry
CHECK_DEADLOCK FALSE
INVARIANTS
    TypeOK
    WallpaperRestored
    AuthedAlive
    WakeLockSettles
