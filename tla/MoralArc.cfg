\* One hunted and one not, up to three deeds, reconnects, merges and crashes.
SPECIFICATION Spec
CONSTANTS
    Wanderers = {elf, human}
    Hunted = {elf}
    Rooms = {"dais", "market", "cells"}
    Sheets <- MCSheets
    MaxForgiven = 2
    MaxDeeds = 3
    MaxLogins = 3
INVARIANTS TypeOK MarksOnDisk ForgivenOnce
PROPERTY ArcKept
