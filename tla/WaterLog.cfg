SPECIFICATION FairWaterSpec
CONSTANTS
    Modulus = 4
    MaxPulses = 6
    MaxFaults = 2
INVARIANT EveryPulseOnce
PROPERTY StopEventuallyMarked
