SPECIFICATION FairSpec
CONSTANTS
    N = 3
    MaxFail = 1
INVARIANT LogTrue
PROPERTY OnIsLogged
