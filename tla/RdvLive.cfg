SPECIFICATION FairSpec
CONSTANTS
    a = a
    b = b
    i0 = i0
    i1 = i1
    k0 = k0
    k1 = k1
    Hosts = {a}
    Prefixes = {"rs"}
    PrefixOf <- MCOnePrefix
    Ids = {i0, i1}
    FirstId = i0
    DrawnIds = {i1}
    Foreign = {i0}
    Pks = {k0, k1}
    FirstPk = k0
    TcpRegisters = FALSE
    StartTransports = {"udp", "tcp"}
    UDP_REGISTRATION_FAILURE_LIMIT = 4
    MAX_FAILS1 = 2
    MAX_FAILS2 = 4
    MaxInFlight = 2
    MaxFaults = 1
CHECK_DEADLOCK FALSE
PROPERTIES ExitCompletes RegisteredOverUdp
