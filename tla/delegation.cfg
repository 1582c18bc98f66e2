SPECIFICATION FairSpec
CONSTANTS
    Setups <- Plans
    Limit = 2
    MaxRounds = 2
    MaxAttempts = 2
INVARIANTS TreeIsOnes ResumesFromWork 
PROPERTY RunEnds
