SPECIFICATION Spec
CONSTANTS
    Conns = {c1, c2}
    Ids = {1, 2}
    Asked = {TRUE}
    OpenRows = 3
    Rows = {2}
    CHANNEL_BUFFER_SIZE = 1
    MAX_BUFFER_LINES = 2
    ReconnectChunks = 1
    MAX_SIGWINCH_PHASE_ATTEMPTS = 1
    Sessions = {1}
    MaxOutput = 2
    MaxChanges = 1
SYMMETRY Symmetry
CHECK_DEADLOCK FALSE
INVARIANTS TypeOK SessionOwned StreamContinues EndIsTold SizeRestored LeftoverIsPersistent
