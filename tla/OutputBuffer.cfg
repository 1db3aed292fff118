SPECIFICATION Spec
CONSTANTS
    MAX_OUTPUT_BUFFER_SIZE = 4
    MAX_BUFFER_LINES = 2
    UsizeValues = 16
    MaxChunk = 3
    MaxOutput = 7
CHECK_DEADLOCK FALSE
INVARIANTS TailKept RecentIsTail
