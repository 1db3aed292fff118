SPECIFICATION Spec
CONSTANTS
    DEFAULT_DIRECT_PORT = 1
    DIRECT_PORT_RANGE = 1
    Attempts = 2
    Threads = {t1}
    MaxUi = 2
    MaxBusy = 1
INVARIANTS
    TypeOK
    FallbackEarned
PROPERTIES
    EventuallyListening
    StopReported
