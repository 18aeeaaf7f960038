SPECIFICATION CanSpec
CONSTANTS
    Id <- OneDigitId
    CmdLen = 1
    Payloads <- ThreeFrames
    Mtu = 14
    Ring = 2
INVARIANT NoSplice
INVARIANT IntactFramesHandled
