SPECIFICATION Spec
CONSTANTS
    Wrap = 5
    OffMs = 2
    ServoMs = 1
    TsendMs = 1
    LoopMs = 1
    Payloads <- BothWays
    Readings = {0, 331, 1023}
INVARIANT NoShootThrough
INVARIANT SteeringInsideLimits
PROPERTY TelemetryHonest
