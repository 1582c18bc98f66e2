SPECIFICATION PartsSpec
CONSTANTS
    p = p
    q = q
    Procs = {p, q}
    Providers = {"openrouter", "other"}
    MaxCommands = 3
    MaxFaults = 2
    Kolks = {p, q}
    Turns = {1, 2}
    Stars = {1, 5}
    MaxLog = 3
    MaxFolds = 2
    MaxDeletes = 1
    Mishaps = {"rename", "garble", "trail", "forget", "exit", "kill", "start", "cancel",
               "rebuild", "new", "crash"}
    MaxTurns = 3
    MaxHandles = 5
    MaxMishaps = 4
    Actions <- SomeActions
    Written <- SomeRules
    MaxEdits = 2
    MaxAlways = 2
SYMMETRY Alike
INVARIANTS KeyKept RatingsTrue OwnResult  RulesHold
CHECK_DEADLOCK FALSE
