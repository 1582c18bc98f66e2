SPECIFICATION TalkSpec
CONSTANTS
    Free = {"f1", "f2"}
    Billed = {"paid"}
    Plan = "plan"
    Setups <- Every
    Retries = 1
    MaxRounds = 2
    MaxTurns = 3
    Workers = {"main", "sub"}
    MaxTyped = 3
    MaxAsks = 3
    Activities = {"main", "sub"}
    MaxStarts = 3
    Agents = {"main", "other"}
    ServerAsks = FALSE
    MaxVisits = 2
    MaxRequests = 4
    MaxNoise = 1
    MaxFailures = 1
INVARIANTS  AnswersOwn OverlaysAsked RequestsStand RowAlive
PROPERTY EverythingEnds
CHECK_DEADLOCK FALSE
