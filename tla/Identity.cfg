\* One session per name, queues large enough, a disk that may fail, a restart, old files.
SPECIFICATION Spec
CONSTANTS
    Sessions = {s1, s2}
    Names = {a, b}
    NoName = NoName
    NoSheet = NoSheet
    Modes = {"worker", "direct", "local"}
    SharedNames = FALSE
    DiskFails = TRUE
    Legacy <- MCLegacy
    LoadCap = 3
    CommitCap = 2
    MaxLogins = 3
    MaxDeeds = 2
    MaxBoots = 1
SYMMETRY Symmetry
INVARIANTS TypeOK LoadAccounted NewestCommitAccounted NothingOwedAtExit NoSleepOnWork
PROPERTIES CommitsInOrder BrandKept
