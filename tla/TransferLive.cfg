SPECIFICATION FairSpec
CONSTANTS
    Jobs = {1, 2, 3}
    Uploads = {3}
    NFiles = 2
    Size <- MCSize
    MaxVersion = 1
    MaxStarts = 2
    MaxBreaks = 0
    MaxFaults = 1
    MaxInFlight = 1
CHECK_DEADLOCK FALSE
PROPERTIES DownloadEnds
