SPECIFICATION FairSpec
CONSTANTS
    Wrap = 13
    OffMs = 5
    ServoMs = 2
    TsendMs = 4
    LoopMs = 2
    Payloads <- OneCommand
    Readings = {511}
INVARIANT DeadManSafe
INVARIANT ThrottleLatency
PROPERTY NoEarlyStop
PROPERTY ImplementsDeadMan
