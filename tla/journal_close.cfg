SPECIFICATION Spec
CONSTANTS
    c1 = c1
    Clients = {c1}
    Kinds <- MCKinds
    MaxEvents = 2
    MaxBytes = 3
    SubBuffer = 1
    Spill = TRUE
    MaxSpill = 4
    QueueDepth = 2
    LatePublish = FALSE
    MaxSeq = 4
    Budget <- Reclosed
INVARIANT CloseDrains
CHECK_DEADLOCK FALSE
