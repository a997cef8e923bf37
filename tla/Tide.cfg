\* Acts, polls, lost and unanswered RPCs, a stop.
SPECIFICATION FairSpec
CONSTANTS
    Modes = {"worker", "direct", "local"}
    Floor <- MCFloor
    Ceil = 2
    Deltas <- MCDeltas
    MaxActs = 3
    MaxElsewhere = 1
INVARIANTS TypeOK EveryShiftOnce NothingPendingAtEnd
PROPERTY TideConverges
CHECK_DEADLOCK FALSE
