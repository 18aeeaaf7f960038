SPECIFICATION Spec
CONSTANTS
    Peers = {"a", "b"}
    HelloTries = 20
    Tries = 10
    LateStart = 2
    HandshakeFaults = 1
    SeqMod = 8
    MaxOff = 3
    MaxDropout = 3
    MaxMisorder = 2
    Leftovers = {0, 1, 3}
    Configs <- Streams
    FirstSeqs = {1, 5}
    ReportsInFlight = 2
INVARIANT KeysAgree
INVARIANT HandshakeRight
INVARIANT MediaReadable
INVARIANT ReportsTrue
PROPERTY SomeoneReports
CHECK_DEADLOCK FALSE
