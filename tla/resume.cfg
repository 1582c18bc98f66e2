SPECIFICATION FairSpec
CONSTANTS
    Configs <- All
    Slots = 2
    MaxPoints = 2
    MaxInputs = 1
    MaxLives = 2
INVARIANTS SentOnce StillReachable
PROPERTIES StaysEnded NobodyStuck
CHECK_DEADLOCK FALSE
