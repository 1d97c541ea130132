SPECIFICATION QueueSpec
CONSTANTS
    Names <- MCNames
    SpawnLimit = 3
    MaxBids = 5
INVARIANTS
    QueueTypeOK
    Reordered
    InRounds
    FairShare
CHECK_DEADLOCK FALSE
