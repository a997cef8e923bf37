\* Two wanderers, the warden and one row of cages, over one refill.
SPECIFICATION Spec
CONSTANTS
    a = a  b = b
    Wanderers = {a, b}
    Places = {"nexus", "market", "holding_pit", "cells"}
    MaxHp <- MCMaxHp
    Might <- MCMight
    Cures = {12}
    Strides = {120}
    MaxNow = 241
    MaxXp = 40
    Laden = {b}
    Groups = {2}
    MaxRescued = 3
    MaxSaved = 2
    MaxSavedPlayers = 1
    MaxRescues = 2
INVARIANTS TypeOK FightersFace NobodyDead RollsAgree OncePerRefill
PROPERTIES FightEnds OneReward NobodyWaits FreedInGrace
