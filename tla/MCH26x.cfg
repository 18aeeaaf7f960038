SPECIFICATION Spec
CONSTANTS
    Uses = {"H264", "H265", "H266"}
    SeqSpace = 16
    Films <- FewFilms
    FirstSeqs = {0, 13}
    PayloadSize = 12
    Frames <- Pushed
    InFlight = 1
INVARIANT FramesSent
INVARIANT UnitsIntact
INVARIANT UnitsArriveOnce
INVARIANT GivenUpForGood
CHECK_DEADLOCK FALSE
