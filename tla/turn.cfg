SPECIFICATION FairSpec
CONSTANTS
    Rounds <- TwoCalls
    MaxRounds = 2
    MaxTurns = 2
    MaxReplies = 3
    Faults = {"disk", "crash", "cancel", "tool", "limit", "error", "vendor"}
    MaxFaults = 2
INVARIANTS CallsOnce RequestsAnswered OneEnding
PROPERTY TurnEnds
CHECK_DEADLOCK FALSE
