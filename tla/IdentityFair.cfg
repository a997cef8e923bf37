\* Fair threads, one name used again and again, a restart.
SPECIFICATION FairSpec
CONSTANTS
    Sessions = {s1, s2}
    Names = {a}
    NoName = NoName
    NoSheet = NoSheet
    Modes = {"worker"}
    SharedNames = FALSE
    DiskFails = FALSE
    Legacy = {}
    LoadCap = 3
    CommitCap = 1
    MaxLogins = 3
    MaxDeeds = 1
    MaxBoots = 1
PROPERTIES LoginCompletes ShutdownEnds
