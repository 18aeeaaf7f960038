SPECIFICATION Spec
CONSTANTS
    Bufs = 2
    Sizes <- ThreeSizes
    SeqMod = 8
    FirstSeqs = {0, 7}
    Faults = 1
    Sources = {"stream", "local"}
INVARIANT FramesArrive
PROPERTY NoTearWhileKeepingUp
PROPERTY ShownInOrder
PROPERTY LastPictureShown
CHECK_DEADLOCK FALSE
