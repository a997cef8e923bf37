\* Two wanderers with room for two things each, four deeds, one reconnect, crashes.
CONSTANTS
    Wanderers = {ada, ben}
    Rooms = {"nexus", "tavern", "workshop", "market", "holding_pit"}
    Sums = {12}
    MaxPack = 2
    MaxDeeds = 4
    MaxLogins = 3
SPECIFICATION Spec
SYMMETRY Symmetry
INVARIANTS
    TypeOK
    OnePlace
    GoldAccounted
PROPERTY
    AidWaits
