\* Two keepers, one whose messages come in pieces, over three deaths and prunes.
SPECIFICATION Spec
CONSTANTS
    a = a  b = b
    Wanderers = {a, b}
    Keepers = {a, b}
    Modes = {"local", "direct", "worker"}
    Lens = {1}
    MaxInput = 3
    MaxFragments <- MCMaxFragments
    MaxOut = 1
    MaxFallen = 2
    MaxPendingFallen = 2
    MaxNews = 3
INVARIANTS TypeOK OneMessage FallenInOrder AnswersEarned
PROPERTIES KeeperHears
CHECK_DEADLOCK FALSE
