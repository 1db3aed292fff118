SPECIFICATION Spec
CONSTANTS
    Jobs = {1}
    Uploads = {}
    NFiles = 2
    Size <- MCSize
    MaxVersion = 2
    MaxStarts = 3
    MaxBreaks = 2
    MaxFaults = 1
    MaxInFlight = 1
CHECK_DEADLOCK FALSE
INVARIANT DoneIsWhole
