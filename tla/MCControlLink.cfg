SPECIFICATION FairSpec
CONSTANTS
    Period = 2
    Delay = 1
    Grace = 4
    Limit = 5
    AxisValues <- FullDeflection
    MaxMoves = 1
INVARIANT CutStops
PROPERTY NoStopWithoutLoss
PROPERTY Converges
