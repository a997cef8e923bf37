\* The worker failed to start.
SPECIFICATION FairSpec
CONSTANTS
    Modes = {"direct"}
    FetchLimit = 2
    BufferCap = 2
    OutCap = 2
    MaxHere = 1
    MaxThere = 1
    MaxRestarts = 0
PROPERTY CarriedToEveryWorld
CHECK_DEADLOCK FALSE
