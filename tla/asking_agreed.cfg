SPECIFICATION FairSpec
CONSTANTS
    Free = {"f1", "f2"}
    Billed = {"paid"}
    Plan = "plan"
    Setups <- Asked
    Retries = 1
    MaxRounds = 2
    MaxTurns = 3
INVARIANT AskedAsAgreed
CHECK_DEADLOCK FALSE
