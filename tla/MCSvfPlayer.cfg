SPECIFICATION FairSpec
CONSTANTS
    Scripts <- AllScripts
    Chunk = 2
    MaxFaults = 2
    MaxTck = 100
INVARIANT HostFollowsDevice
INVARIANT LeftInOrder
PROPERTY ExactBits
INVARIANT MismatchReported
INVARIANT AccountsTrue
PROPERTY Terminates
CHECK_DEADLOCK FALSE
