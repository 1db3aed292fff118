SPECIFICATION FairSpec
CONSTANTS
    Conns = {c1, c2}
    KeyInterval = 2
    RepeatMax = 0
    MaxCalls = 2
    EncodeFails = FALSE
    MaxSwitch = 0
PROPERTIES
    RefreshServed
    JoinCompletes
