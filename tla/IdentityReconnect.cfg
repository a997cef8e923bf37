\* One wanderer leaves and comes straight back.
SPECIFICATION Spec
CONSTANTS
    Sessions = {s1, s2}
    Names = {a}
    NoName = NoName
    NoSheet = NoSheet
    Modes = {"worker"}
    SharedNames = FALSE
    DiskFails = FALSE
    Legacy = {}
    LoadCap = 3
    CommitCap = 2
    MaxLogins = 2
    MaxDeeds = 2
    MaxBoots = 0
PROPERTIES MergeKeepsProgress
