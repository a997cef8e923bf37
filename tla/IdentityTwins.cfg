\* Two sessions log in under one name.
SPECIFICATION FairSpec
CONSTANTS
    Sessions = {s1, s2}
    Names = {a}
    NoName = NoName
    NoSheet = NoSheet
    Modes = {"worker"}
    SharedNames = TRUE
    DiskFails = FALSE
    Legacy = {}
    LoadCap = 3
    CommitCap = 2
    MaxLogins = 2
    MaxDeeds = 0
    MaxBoots = 0
PROPERTIES LoginCompletes
