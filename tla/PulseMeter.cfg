SPECIFICATION Spec
CONSTANTS
    DbMax = 3
    Width = 3
    Half = 3
    Pattern = 44
INVARIANT ReadsAreTrue
INVARIANT OnePulsePerClosing
PROPERTY ImplementsAccumulator
