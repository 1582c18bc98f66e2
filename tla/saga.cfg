SPECIFICATION Spec
CONSTANTS
    Tracked <- MCTracked
    Others <- MCOthers
    MaxChapters = 2
    MaxStrikes = 2
    Faults <- Anything
    UserMoves = {"edit", "commit"}
    MaxFaults = 2
    MaxKinds = 3
    MaxWakes = 3
INVARIANTS  CommittedStands OnlyTheChapter
