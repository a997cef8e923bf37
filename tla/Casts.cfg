\* The buffer fills, the outgoing queue overflows, any RPC fails; a failed worker; no hub.
SPECIFICATION FairSpec
CONSTANTS
    Modes = {"worker", "direct", "local"}
    FetchLimit = 2
    BufferCap = 2
    OutCap = 2
    MaxHere = 3
    MaxThere = 2
    MaxRestarts = 1
INVARIANTS TypeOK SpokenInOrder HeardInOrder
PROPERTIES FeedSafety AllIsHeard
CHECK_DEADLOCK FALSE
