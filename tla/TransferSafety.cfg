SPECIFICATION Spec
CONSTANTS
    Jobs = {1}
    Uploads = {}
    NFiles = 2
    Size <- MCSizeTwo
    MaxVersion = 2
    MaxStarts = 3
    MaxBreaks = 2
    MaxFaults = 0
    MaxInFlight = 1
CHECK_DEADLOCK FALSE
INVARIANTS TypeOK DoneMeansCopied
PROPERTIES SkippedUntouched KeepsPromise
