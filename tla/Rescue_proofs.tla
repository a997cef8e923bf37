---------------------------- MODULE Rescue_proofs ----------------------------
(***************************************************************************)
(* Fights, deaths and rewards, the cages and the captive of the pit, for   *)
(* any wanderers, places, strengths and bounds; and that the world's roll  *)
(* and the rolls of the players tell the same, by induction on the rolls.  *)
(***************************************************************************)
EXTENDS Rescue, Induction

Fighters ==
    /\ due \subseteq Wanderers
    /\ online \in [Wanderers -> BOOLEAN]
    /\ char \in [Wanderers -> Character]
    /\ row \in [Wanderers -> Character]
    /\ target \in [Wanderers -> Creatures \cup {None}]

Mobs ==
    /\ now \in Nat \ {0}
    /\ mob \in [Creatures -> Mob]
    /\ slainAt \in 0 .. now
    /\ \A m \in Creatures : mob[m].diedAt <= now /\ mob[m].hp <= Seed[m].hp

\* xp is earned on disk.
XpOnDisk == \A w \in Wanderers : online[w] => row[w].xp = char[w].xp

\* Who still fights the dead has a heartbeat to come, at the time of the death.
LostQuarry ==
    \A w \in Wanderers : target[w] # None /\ ~mob[target[w]].alive =>
        w \in due /\ mob[target[w]].diedAt = now

\* While the warden lies dead the world knows since when.
WardenKnown ==
    "warden" \in Creatures /\ ~mob["warden"].alive =>
        slainAt = mob["warden"].diedAt /\ slainAt # 0

FightInv ==
    /\ Fighters /\ Mobs
    /\ FightersFace /\ NobodyDead /\ XpOnDisk /\ LostQuarry /\ WardenKnown

-----------------------------------------------------------------------------
(* Creatures. *)

LEMMA CreatureSound ==
    \A m \in Creatures :
        /\ Seed[m].hp \in Nat \ {0} /\ Seed[m].damage \in Nat \ {0}
        /\ Seed[m].xp \in Nat /\ Seed[m].respawn \in Nat
        /\ Seed[m].room \in Places /\ m # None
    BY SeedAssumption, NoneAssumption DEF Creatures

LEMMA FreshSound ==
    \A m \in Creatures : Fresh(m) \in Mob /\ Fresh(m).alive
                          /\ Fresh(m).diedAt = 0 /\ Fresh(m).hp = Seed[m].hp
    BY CreatureSound DEF Fresh, Mob

\* A tick brings back only the long dead: whom somebody fights it leaves alone.
LEMMA RespawnSound ==
    ASSUME Fighters, Mobs, LostQuarry
    PROVE  /\ TickRespawns \in [Creatures -> Mob]
           /\ \A m \in Creatures :
                 /\ TickRespawns[m].diedAt <= now /\ TickRespawns[m].hp <= Seed[m].hp
                 /\ mob[m].alive => TickRespawns[m] = mob[m]
                 /\ ~TickRespawns[m].alive =>
                       /\ TickRespawns[m] = mob[m]
                       /\ Seed[m].respawn = 0 \/ now - mob[m].diedAt < Seed[m].respawn
           /\ \A w \in Wanderers :
                 target[w] # None => TickRespawns[target[w]] = mob[target[w]]
<1>1. TickRespawns \in [Creatures -> Mob]
    BY FreshSound DEF TickRespawns, Mobs
<1>2. ASSUME NEW m \in Creatures
      PROVE  /\ TickRespawns[m].diedAt <= now /\ TickRespawns[m].hp <= Seed[m].hp
             /\ mob[m].alive => TickRespawns[m] = mob[m]
             /\ ~TickRespawns[m].alive =>
                   /\ TickRespawns[m] = mob[m]
                   /\ Seed[m].respawn = 0 \/ now - mob[m].diedAt < Seed[m].respawn
    <2>1. TickRespawns[m] = IF Returns(m) THEN Fresh(m) ELSE mob[m]
        BY DEF TickRespawns
    <2>2. mob[m] \in Mob /\ mob[m].diedAt \in Nat /\ mob[m].hp \in Nat
        BY DEF Mobs, Mob
    <2>3. CASE Returns(m)
        BY <2>1, <2>2, <2>3, FreshSound, CreatureSound DEF Mobs, Returns
    <2>4. CASE ~Returns(m)
        BY <2>1, <2>2, <2>4, CreatureSound DEF Mobs, Returns
    <2> QED
        BY <2>3, <2>4
<1>3. ASSUME NEW w \in Wanderers, target[w] # None
      PROVE  TickRespawns[target[w]] = mob[target[w]]
    <2>1. target[w] \in Creatures
        BY <1>3 DEF Fighters
    <2>2. CASE mob[target[w]].alive
        BY <1>2, <2>1, <2>2
    <2>3. CASE ~mob[target[w]].alive
        <3>1. ~Returns(target[w])
            BY <1>3, <2>1, <2>3, CreatureSound DEF LostQuarry, Returns, Mobs
        <3> QED
            BY <2>1, <3>1 DEF TickRespawns
    <2> QED
        BY <2>2, <2>3
<1> QED
    BY <1>1, <1>2, <1>3

\* A command respawns, and changes nothing else about creatures.
LEMMA CommandMobs ==
    ASSUME FightInv, NEW w \in Wanderers, Commands(w)
    PROVE  /\ Mobs' /\ WardenKnown'
           /\ \A v \in Wanderers : target[v] # None => mob'[target[v]] = mob[target[v]]
<1>1. mob' = TickRespawns /\ now' = now /\ slainAt' = slainAt
    BY DEF Commands, Respawn
<1>2. Mobs'
    BY <1>1, RespawnSound DEF FightInv, Mobs
<1>3. WardenKnown'
    BY <1>1, RespawnSound DEF FightInv, WardenKnown
<1> QED
    BY <1>1, <1>2, <1>3, RespawnSound DEF FightInv

-----------------------------------------------------------------------------
(* Commands. *)

\* Whose xp stays, and who stays alive, in a place, out of a fight or at it.
LEMMA CommandKeeps ==
    ASSUME FightInv, NEW w \in Wanderers, Commands(w),
           NEW c \in Character,
           c.xp = char[w].xp, c.hp \in 1 .. MaxHp[w],
           char' = [char EXCEPT ![w] = c],
           row' = row \/ row' = [row EXCEPT ![w] = c],
           \/ target' = target /\ (target[w] = None \/ c.room = char[w].room)
           \/ target' = [target EXCEPT ![w] = None]
    PROVE  FightInv'
<1>1. online' = online /\ due' = due /\ now' = now
    BY DEF Commands
<1>2. Mobs' /\ WardenKnown'
    BY CommandMobs
<1>3. Fighters'
    BY <1>1 DEF FightInv, Fighters
<1>4. NobodyDead'
    BY DEF FightInv, Fighters, NobodyDead
<1>5. XpOnDisk'
    BY <1>1 DEF FightInv, Fighters, XpOnDisk
<1>6. FightersFace'
    BY <1>1 DEF FightInv, Fighters, FightersFace
<1>7. LostQuarry'
    <2> SUFFICES ASSUME NEW v \in Wanderers, target'[v] # None, ~mob'[target'[v]].alive
                 PROVE  v \in due' /\ mob'[target'[v]].diedAt = now'
        BY DEF LostQuarry
    <2>1. target'[v] = target[v]
        BY DEF FightInv, Fighters
    <2> QED
        BY <1>1, <2>1, CommandMobs DEF FightInv, LostQuarry
<1> QED
    BY <1>2, <1>3, <1>4, <1>5, <1>6, <1>7 DEF FightInv

LEMMA CharacterHp ==
    ASSUME FightInv, NEW w \in Wanderers
    PROVE  /\ char[w] \in Character /\ row[w] \in Character
           /\ char[w].hp \in 1 .. MaxHp[w] /\ row[w].hp \in 1 .. MaxHp[w]
           /\ MaxHp[w] \in Nat \ {0}
    BY StrengthAssumption DEF FightInv, Fighters, NobodyDead

LEMMA CuredSound ==
    ASSUME FightInv, NEW w \in Wanderers, NEW k \in Cures
    PROVE  \E c \in Character :
              /\ Cured(w, k) = [char EXCEPT ![w] = c]
              /\ c.xp = char[w].xp /\ c.room = char[w].room /\ c.hp \in 1 .. MaxHp[w]
<1> DEFINE c == [char[w] EXCEPT !.hp = AtMost(@ + k, MaxHp[w])]
<1>1. AtMost(char[w].hp + k, MaxHp[w]) \in 1 .. MaxHp[w]
    BY CharacterHp, CureAssumption DEF AtMost
<1>2. c \in Character /\ c.xp = char[w].xp /\ c.room = char[w].room /\ c.hp \in 1 .. MaxHp[w]
    BY <1>1, CharacterHp DEF Character
<1>3. Cured(w, k) = [char EXCEPT ![w] = c]
    BY DEF Cured
<1> HIDE DEF c
<1> QED
    BY <1>2, <1>3

LEMMA RoomSound ==
    ASSUME FightInv, NEW w \in Wanderers, NEW r \in Places
    PROVE  LET c == [char[w] EXCEPT !.room = r] IN
           c \in Character /\ c.xp = char[w].xp /\ c.hp \in 1 .. MaxHp[w]
    BY CharacterHp DEF Character

LEMMA AttackFights ==
    ASSUME FightInv, NEW w \in Wanderers, NEW m \in Creatures, Attack(w, m)
    PROVE  FightInv'
<1>1. /\ online[w] /\ online' = online /\ due' = due /\ now' = now
      /\ char' = char /\ row' = row /\ target' = [target EXCEPT ![w] = m]
      /\ mob' = TickRespawns /\ target[w] = None
    BY DEF Attack, Commands, Respawn
<1>2. Mobs' /\ WardenKnown'
    BY CommandMobs DEF Attack
<1>3. Fighters' /\ NobodyDead' /\ XpOnDisk'
    BY <1>1 DEF FightInv, Fighters, NobodyDead, XpOnDisk
<1>4. FightersFace'
    BY <1>1 DEF FightInv, Fighters, FightersFace, Attack, MobInRoom
<1>5. LostQuarry'
    <2> SUFFICES ASSUME NEW v \in Wanderers, target'[v] # None, ~mob'[target'[v]].alive
                 PROVE  v \in due' /\ mob'[target'[v]].diedAt = now'
        BY DEF LostQuarry
    <2>1. CASE v = w
        BY <1>1, <2>1 DEF FightInv, Fighters, Attack, MobInRoom
    <2>2. CASE v # w
        <3>1. target'[v] = target[v]
            BY <1>1, <2>2 DEF FightInv, Fighters
        <3> QED
            BY <1>1, <3>1, CommandMobs DEF FightInv, LostQuarry, Attack
    <2> QED
        BY <2>1, <2>2
<1> QED
    BY <1>2, <1>3, <1>4, <1>5 DEF FightInv

LEMMA CommandFights ==
    ASSUME FightInv, NEW w \in Wanderers,
           Heal(w) \/ Save(w) \/ (\E r \in Places : Walk(w, r)) \/ Recall(w)
    PROVE  FightInv'
<1>1. Commands(w)
    BY DEF Heal, Save, Walk, Recall
<1>2. CASE Heal(w)
    <2>1. PICK k \in Cures : char' = Cured(w, k)
        BY <1>2 DEF Heal
    <2>2. PICK c \in Character :
              /\ char' = [char EXCEPT ![w] = c]
              /\ c.xp = char[w].xp /\ c.room = char[w].room /\ c.hp \in 1 .. MaxHp[w]
        BY <2>1, CuredSound
    <2>3. row' = row \/ row' = [row EXCEPT ![w] = c]
        BY <1>2, <2>2 DEF Heal, FightInv, Fighters
    <2>4. target' = target
        BY <1>2 DEF Heal
    <2> QED
        BY <1>1, <2>2, <2>3, <2>4, CommandKeeps
<1>3. CASE Save(w)
    <2>1. PICK v \in {char[w].vial, FALSE} : char' = [char EXCEPT ![w].vial = v]
        BY <1>3 DEF Save
    <2> DEFINE c == [char[w] EXCEPT !.vial = v]
    <2>2. char' = [char EXCEPT ![w] = c] /\ target' = target /\ row' = [row EXCEPT ![w] = c]
        BY <1>3, <2>1 DEF Save, FightInv, Fighters
    <2>3. c \in Character /\ c.xp = char[w].xp /\ c.room = char[w].room /\ c.hp = char[w].hp
        BY CharacterHp DEF Character
    <2> HIDE DEF c
    <2> QED
        BY <1>1, <2>2, <2>3, CharacterHp, CommandKeeps
<1>4. ASSUME NEW r \in Places, Walk(w, r) PROVE FightInv'
    <2> DEFINE c == [char[w] EXCEPT !.room = r]
    <2>1. /\ char' = [char EXCEPT ![w] = c] /\ target' = target /\ target[w] = None
          /\ row' = [row EXCEPT ![w] = c]
        BY <1>4 DEF Walk, FightInv, Fighters
    <2>2. c \in Character /\ c.xp = char[w].xp /\ c.hp \in 1 .. MaxHp[w]
        BY RoomSound
    <2> HIDE DEF c
    <2> QED
        BY <1>1, <2>1, <2>2, CommandKeeps
<1>5. CASE Recall(w)
    <2> DEFINE c == [char[w] EXCEPT !.room = Start]
    <2>1. /\ char' = [char EXCEPT ![w] = c] /\ target' = [target EXCEPT ![w] = None]
          /\ row' = row
        BY <1>5 DEF Recall, FightInv, Fighters
    <2>2. c \in Character /\ c.xp = char[w].xp /\ c.hp \in 1 .. MaxHp[w]
        BY RoomSound, PlaceAssumption
    <2> HIDE DEF c
    <2> QED
        BY <1>1, <2>1, <2>2, CommandKeeps
<1> QED
    BY <1>2, <1>3, <1>4, <1>5

-----------------------------------------------------------------------------
(* Comings and goings. *)

LEMMA NewcomerSound ==
    ASSUME NEW w \in Wanderers
    PROVE  Newcomer(w) \in Character /\ Newcomer(w).hp \in 1 .. MaxHp[w]
    BY StrengthAssumption, PlaceAssumption DEF Newcomer, Character

LEMMA LoginFights == ASSUME FightInv, NEW w \in Wanderers, Login(w) PROVE FightInv'
<1>1. Fighters' /\ Mobs' /\ WardenKnown'
    BY DEF Login, FightInv, Fighters, Mobs, WardenKnown
<1>2. NobodyDead' /\ XpOnDisk'
    BY DEF Login, FightInv, Fighters, NobodyDead, XpOnDisk
<1>3. FightersFace' /\ LostQuarry'
    BY DEF Login, FightInv, Fighters, FightersFace, LostQuarry
<1> QED
    BY <1>1, <1>2, <1>3 DEF FightInv

LEMMA CloseFights == ASSUME FightInv, NEW w \in Wanderers, Close(w) PROVE FightInv'
<1>1. Fighters' /\ Mobs' /\ WardenKnown'
    BY NewcomerSound DEF Close, FightInv, Fighters, Mobs, WardenKnown
<1>2. NobodyDead' /\ XpOnDisk'
    BY NewcomerSound DEF Close, FightInv, Fighters, NobodyDead, XpOnDisk
<1>3. FightersFace' /\ LostQuarry'
    BY DEF Close, FightInv, Fighters, FightersFace, LostQuarry
<1> QED
    BY <1>1, <1>2, <1>3 DEF FightInv

LEMMA TimeFights ==
    ASSUME FightInv, NEW d \in Strides, LetTimePass(d) PROVE FightInv'
<1>1. d \in Nat \ {0}
    BY TimeAssumption
<1>2. Fighters' /\ Mobs' /\ WardenKnown'
    BY <1>1 DEF LetTimePass, FightInv, Fighters, Mobs, WardenKnown, Mob, Playing
<1>3. NobodyDead' /\ XpOnDisk' /\ FightersFace' /\ LostQuarry'
    BY DEF LetTimePass, FightInv, NobodyDead, XpOnDisk, FightersFace, LostQuarry
<1> QED
    BY <1>2, <1>3 DEF FightInv

-----------------------------------------------------------------------------
(* The heartbeat. *)

LEMMA TargetSound ==
    ASSUME FightInv, NEW w \in Wanderers, target[w] # None
    PROVE  /\ target[w] \in Creatures /\ online[w]
           /\ TickRespawns[target[w]] = mob[target[w]]
           /\ char[w].room = Seed[target[w]].room
    BY RespawnSound DEF FightInv, Fighters, FightersFace

\* The kill: the slayer's xp is on disk, and whoever else fought has a tick to come.
LEMMA KillFights ==
    ASSUME FightInv, NEW w \in Wanderers, target[w] # None, mob[target[w]].alive,
           Kill(w, target[w], TickRespawns), online[w], now' = now, online' = online
    PROVE  FightInv'
<1> DEFINE m == target[w]  dead == [alive |-> FALSE, hp |-> 0, diedAt |-> now]
<1>1. /\ m \in Creatures /\ dead \in Mob /\ Seed[m].xp \in Nat /\ Seed[m].hp \in Nat
      /\ mob' = [TickRespawns EXCEPT ![m] = dead]
      /\ slainAt' = IF m = "warden" THEN now ELSE slainAt
      /\ due' = Playing \ {w} /\ target' = [target EXCEPT ![w] = None]
      /\ char' = [char EXCEPT ![w].xp = @ + Seed[m].xp]
      /\ row' = [row EXCEPT ![w] = char'[w]]
    BY TargetSound, CreatureSound DEF Kill, Mob, FightInv, Mobs
<1>2. /\ char'[w] \in Character /\ char'[w].hp = char[w].hp /\ char'[w].room = char[w].room
      /\ \A v \in Wanderers \ {w} : char'[v] = char[v] /\ row'[v] = row[v]
      /\ row'[w] = char'[w]
    BY <1>1, CharacterHp DEF FightInv, Fighters, Character
<1>3. Fighters'
    BY <1>1, <1>2 DEF FightInv, Fighters, Playing
<1> HIDE DEF dead
<1>4. Mobs'
    <2>1. mob' \in [Creatures -> Mob]
        BY <1>1, RespawnSound DEF FightInv
    <2>2. ASSUME NEW k \in Creatures PROVE mob'[k].diedAt <= now' /\ mob'[k].hp <= Seed[k].hp
        BY <1>1, RespawnSound DEF FightInv, Mobs, dead
    <2> QED
        BY <1>1, <2>1, <2>2 DEF FightInv, Mobs
<1>5. NobodyDead' /\ XpOnDisk' /\ FightersFace'
    BY <1>1, <1>2, CharacterHp DEF FightInv, Fighters, NobodyDead, XpOnDisk, FightersFace
<1>6. LostQuarry'
    <2> SUFFICES ASSUME NEW v \in Wanderers, target'[v] # None, ~mob'[target'[v]].alive
                 PROVE  v \in due' /\ mob'[target'[v]].diedAt = now'
        BY DEF LostQuarry
    <2>1. v # w /\ target'[v] = target[v]
        BY <1>1 DEF FightInv, Fighters
    <2>2. v \in due'
        BY <1>1, <2>1, TargetSound DEF Playing
    <2>3. CASE target[v] = m
        BY <1>1, <2>1, <2>2, <2>3, RespawnSound DEF FightInv, dead
    <2>4. CASE target[v] # m
        <3>1. mob'[target[v]] = mob[target[v]]
            BY <1>1, <2>1, <2>4, TargetSound, RespawnSound DEF FightInv
        <3> QED
            BY <2>1, <2>2, <3>1 DEF FightInv, LostQuarry
    <2> QED
        BY <2>3, <2>4
<1>7. WardenKnown'
    <2>1. CASE m = "warden"
        BY <1>1, <2>1, RespawnSound DEF FightInv, Mobs, WardenKnown, dead
    <2>2. CASE m # "warden"
        BY <1>1, <2>2, RespawnSound DEF FightInv, Mobs, WardenKnown
    <2> QED
        BY <2>1, <2>2
<1> QED
    BY <1>3, <1>4, <1>5, <1>6, <1>7 DEF FightInv

\* The round that kills nothing: the creature has less, and w has less or is reknit.
LEMMA RoundFights ==
    ASSUME FightInv, NEW w \in Wanderers, target[w] # None, mob[target[w]].alive,
           NEW left \in Nat, left <= Seed[target[w]].hp,
           mob' = [TickRespawns EXCEPT ![target[w]].hp = left], due' = due \ {w},
           online[w], now' = now, online' = online, row' = row, slainAt' = slainAt,
           NEW c \in Character, c.xp = char[w].xp, c.hp \in 1 .. MaxHp[w],
           char' = [char EXCEPT ![w] = c],
           \/ target' = target /\ c.room = char[w].room
           \/ target' = [target EXCEPT ![w] = None]
    PROVE  FightInv'
<1> DEFINE m == target[w]
<1>1. m \in Creatures /\ TickRespawns[m] = mob[m] /\ mob[m] \in Mob
    BY TargetSound DEF FightInv, Mobs
<1>2. Fighters' /\ NobodyDead' /\ XpOnDisk' /\ FightersFace'
    BY <1>1 DEF FightInv, Fighters, NobodyDead, XpOnDisk, FightersFace
<1>3. /\ mob'[m] \in Mob /\ mob'[m].alive /\ mob'[m].hp = left /\ mob'[m].diedAt = mob[m].diedAt
      /\ \A k \in Creatures \ {m} : mob'[k] = TickRespawns[k]
      /\ mob' \in [Creatures -> Mob]
    BY <1>1, RespawnSound DEF FightInv, Mob
<1>4. Mobs'
    BY <1>1, <1>3, RespawnSound DEF FightInv, Mobs
<1>5. LostQuarry'
    <2> SUFFICES ASSUME NEW v \in Wanderers, target'[v] # None, ~mob'[target'[v]].alive
                 PROVE  v \in due' /\ mob'[target'[v]].diedAt = now'
        BY DEF LostQuarry
    <2>1. target'[v] = target[v] /\ target[v] # m /\ v # w
        BY <1>1, <1>3 DEF FightInv, Fighters
    <2>2. mob'[target[v]] = mob[target[v]]
        BY <1>3, <2>1, TargetSound
    <2> QED
        BY <2>1, <2>2 DEF FightInv, LostQuarry
<1>6. WardenKnown'
    BY <1>1, <1>3, RespawnSound DEF FightInv, WardenKnown
<1> QED
    BY <1>2, <1>4, <1>5, <1>6 DEF FightInv

\* Standing down, or resting.
LEMMA QuietFights ==
    ASSUME FightInv, NEW w \in Wanderers,
           mob' = TickRespawns, due' = due \ {w},
           now' = now, online' = online, row' = row, slainAt' = slainAt,
           NEW c \in Character, c.xp = char[w].xp, c.hp \in 1 .. MaxHp[w],
           c.room = char[w].room, char' = [char EXCEPT ![w] = c],
           target' = [target EXCEPT ![w] = None]
    PROVE  FightInv'
<1>1. Fighters' /\ NobodyDead' /\ XpOnDisk' /\ FightersFace'
    BY DEF FightInv, Fighters, NobodyDead, XpOnDisk, FightersFace
<1>2. Mobs'
    BY RespawnSound DEF FightInv, Mobs
<1>3. WardenKnown'
    BY RespawnSound DEF FightInv, WardenKnown
<1>4. LostQuarry'
    <2> SUFFICES ASSUME NEW v \in Wanderers, target'[v] # None, ~mob'[target'[v]].alive
                 PROVE  v \in due' /\ mob'[target'[v]].diedAt = now'
        BY DEF LostQuarry
    <2>1. target'[v] = target[v] /\ v # w
        BY DEF FightInv, Fighters
    <2> QED
        BY <2>1, TargetSound DEF FightInv, LostQuarry
<1> QED
    BY <1>1, <1>2, <1>3, <1>4 DEF FightInv

LEMMA ReknitSound ==
    ASSUME NEW d \in Character, NEW h \in Nat \ {0}
    PROVE  LET c == [d EXCEPT !.hp = h, !.room = Start] IN
           c \in Character /\ c.xp = d.xp /\ c.hp \in 1 .. h
<1> DEFINE e == [d EXCEPT !.hp = h]
<1>1. e \in Character /\ e.xp = d.xp /\ e.hp = h
    BY DEF Character
<1>2. [d EXCEPT !.hp = h, !.room = Start] = [e EXCEPT !.room = Start]
    OBVIOUS
<1> HIDE DEF e
<1> QED
    BY <1>1, <1>2, PlaceAssumption DEF Character

LEMMA TickFights == ASSUME FightInv, NEW w \in Wanderers, Tick(w) PROVE FightInv'
<1> DEFINE mobs == TickRespawns  m == target[w]
<1>1. online[w] /\ now' = now /\ online' = online
    BY DEF Tick
<1>2. CASE m = None /\ Rests(w, mobs)
    <2>1. /\ mob' = mobs /\ due' = due \ {w} /\ row' = row /\ slainAt' = slainAt
          /\ target' = [target EXCEPT ![w] = None]
        BY <1>2 DEF Rests, FightInv, Fighters
    <2>2. \E c \in Character :
              /\ char' = [char EXCEPT ![w] = c]
              /\ c.xp = char[w].xp /\ c.room = char[w].room /\ c.hp \in 1 .. MaxHp[w]
        <3>1. CASE char' = char
            <4>1. char' = [char EXCEPT ![w] = char[w]]
                BY <3>1 DEF FightInv, Fighters
            <4> QED
                BY <4>1, CharacterHp
        <3>2. CASE \E k \in Cures : char' = Cured(w, k)
            BY <3>2, CuredSound
        <3> QED
            BY <1>2, <3>1, <3>2 DEF Rests
    <2> QED
        BY <1>1, <2>1, <2>2, QuietFights
<1>3. CASE m # None /\ ~MobInRoom(mobs, char[w].room, m) /\ Gone(w, mobs)
    <2>1. /\ mob' = mobs /\ due' = due \ {w} /\ row' = row /\ slainAt' = slainAt
          /\ target' = [target EXCEPT ![w] = None]
          /\ char' = [char EXCEPT ![w] = char[w]]
        BY <1>3 DEF Gone, FightInv, Fighters
    <2> QED
        BY <1>1, <2>1, CharacterHp, QuietFights
<1>4. CASE m # None /\ MobInRoom(mobs, char[w].room, m) /\ Strike(w, m, mobs)
    <2> DEFINE left == mobs[m].hp - Might[w]  hurt == char[w].hp - Seed[m].damage
    <2>1. m \in Creatures /\ mobs[m] = mob[m] /\ mob[m].alive /\ mob[m] \in Mob
        BY <1>4, TargetSound DEF MobInRoom, FightInv, Mobs
    <2>2. CASE left <= 0 /\ Kill(w, m, mobs)
        BY <1>1, <1>4, <2>1, <2>2, KillFights
    <2>3. CASE /\ left > 0 /\ mob' = [mobs EXCEPT ![m].hp = left] /\ due' = due \ {w}
               /\ hurt > 0 /\ char' = [char EXCEPT ![w].hp = hurt] /\ target' = target
               /\ row' = row /\ slainAt' = slainAt
        <3> DEFINE c == [char[w] EXCEPT !.hp = hurt]
        <3>1. left \in Nat /\ left <= Seed[m].hp
            BY <2>1, <2>3, StrengthAssumption, CreatureSound DEF Mob, FightInv, Mobs
        <3>2. hurt \in 1 .. MaxHp[w]
            BY <2>1, <2>3, CharacterHp, CreatureSound
        <3>3. /\ c \in Character /\ c.xp = char[w].xp /\ c.room = char[w].room
              /\ c.hp \in 1 .. MaxHp[w]
            BY <3>2, CharacterHp DEF Character
        <3>4. char' = [char EXCEPT ![w] = c]
            BY <2>3 DEF FightInv, Fighters
        <3> HIDE DEF c, left, hurt
        <3> QED
            BY <1>1, <1>4, <2>1, <2>3, <3>1, <3>3, <3>4, RoundFights
    <2>4. CASE /\ left > 0 /\ mob' = [mobs EXCEPT ![m].hp = left] /\ due' = due \ {w}
               /\ Die(w) /\ row' = row /\ slainAt' = slainAt
        <3> DEFINE c == [char[w] EXCEPT !.hp = MaxHp[w], !.room = Start]
        <3>1. left \in Nat /\ left <= Seed[m].hp
            BY <2>1, <2>4, StrengthAssumption, CreatureSound DEF Mob, FightInv, Mobs
        <3>2. c \in Character /\ c.xp = char[w].xp /\ c.hp \in 1 .. MaxHp[w]
            BY CharacterHp, ReknitSound
        <3>3. char' = [char EXCEPT ![w] = c] /\ target' = [target EXCEPT ![w] = None]
            BY <2>4 DEF Die, FightInv, Fighters
        <3> HIDE DEF c, left, hurt
        <3> QED
            BY <1>1, <1>4, <2>1, <2>4, <3>1, <3>2, <3>3, RoundFights
    <2> QED
        BY <1>4, <2>2, <2>3, <2>4 DEF Strike
<1> QED
    BY <1>2, <1>3, <1>4 DEF Tick

-----------------------------------------------------------------------------
(* The rolls and the cages. *)

\* The roll of the cages: what was opened is timed.
CagesTimed ==
    /\ booted \in 0 .. now
    /\ refillAt \in [Cages -> 0 .. now + HG_CAGE_REFILL_SEC]
    /\ opened \in [Cages -> Nat]
    /\ \A c \in Cages : opened[c] >= 1 =>
           refillAt[c] >= booted + HG_CAGE_REFILL_SEC * opened[c]

RollsKept ==
    /\ rescues \in Nat /\ souls \in Nat
    /\ rescued \in Seq(Entry) /\ Len(rescued) <= MaxRescued
    /\ saved \in [Wanderers -> Seq(Nat)]
    /\ \A w \in Wanderers : Len(saved[w]) <= MaxSaved

RescueInv == FightInv /\ CagesTimed /\ RollsKept

LEMMA PushedSound ==
    ASSUME NEW T, NEW s \in Seq(T), NEW roll \in Seq(T), NEW cap \in Nat \ {0}
    PROVE  /\ Pushed(s, roll, cap) \in Seq(T) /\ Len(Pushed(s, roll, cap)) <= cap
           /\ Len(s) > 0 => Head(Pushed(s, roll, cap)) = s[1]
<1> DEFINE n == AtMost(Len(s) + Len(roll), cap)  t == s \o roll
<1>1. n \in 0 .. Len(t) /\ n <= cap /\ t \in Seq(T) /\ (Len(s) > 0 => n > 0 /\ t[1] = s[1])
    BY DEF AtMost
<1> HIDE DEF n, t
<1>2. SubSeq(t, 1, n) \in Seq(T) /\ Len(SubSeq(t, 1, n)) = n
    BY <1>1
<1>3. n > 0 => Head(SubSeq(t, 1, n)) = t[1]
    BY <1>1
<1> QED
    BY <1>1, <1>2, <1>3 DEF Pushed, n, t

\* The newest on the world's roll is w's.
LEMMA EmitSound ==
    ASSUME RollsKept, NEW w \in Wanderers, NEW k \in Nat \ {0}, EmitRescued(w, k)
    PROVE  RollsKept' /\ Head(rescued').by = w
<1> DEFINE news == NextSouls(k)
           s == [i \in 1 .. k |-> [soul |-> NextSouls(k)[i], by |-> w]]
<1>1. news \in Seq(Nat)
    <2>1. \A i \in 1 .. k : souls + k + 1 - i \in Nat
        BY DEF RollsKept
    <2> QED
        BY <2>1 DEF NextSouls
<1>2. s \in Seq(Entry) /\ Len(s) = k /\ s[1].by = w
    <2>1. \A i \in 1 .. k : NextSouls(k)[i] \in Nat
        BY DEF RollsKept, NextSouls
    <2>2. \A i \in 1 .. k : [soul |-> NextSouls(k)[i], by |-> w] \in Entry
        BY <2>1 DEF Entry
    <2> QED
        BY <2>2
<1>3. rescued' = Pushed(s, rescued, MaxRescued)
    BY DEF EmitRescued
<1>4. saved' = saved \/ saved' = [saved EXCEPT ![w] = Pushed(news, saved[w], MaxSaved)]
    BY DEF EmitRescued, RememberSaved
<1>5. MaxRescued \in Nat \ {0} /\ MaxSaved \in Nat \ {0}
    BY RollAssumption
<1>6. rescues' \in Nat /\ souls' \in Nat
    BY DEF EmitRescued, RollsKept
<1> HIDE DEF news, s
<1>7. rescued' \in Seq(Entry) /\ Len(rescued') <= MaxRescued /\ Head(rescued').by = w
    <2>1. rescued \in Seq(Entry) /\ Len(s) > 0
        BY <1>2 DEF RollsKept
    <2>2. /\ Pushed(s, rescued, MaxRescued) \in Seq(Entry)
          /\ Len(Pushed(s, rescued, MaxRescued)) <= MaxRescued
          /\ Head(Pushed(s, rescued, MaxRescued)) = s[1]
        BY <1>2, <1>5, <2>1, PushedSound
    <2> QED
        BY <1>2, <1>3, <2>2
<1>8. /\ Pushed(news, saved[w], MaxSaved) \in Seq(Nat)
      /\ Len(Pushed(news, saved[w], MaxSaved)) <= MaxSaved
    BY <1>1, <1>5, PushedSound DEF RollsKept
<1> QED
    BY <1>4, <1>6, <1>7, <1>8 DEF RollsKept

LEMMA PitRescues == ASSUME RescueInv, NEW w \in Wanderers, FreeHoldingPit(w) PROVE RescueInv'
<1> DEFINE c == [char[w] EXCEPT !.vial = w \notin Laden]
<1>1. Commands(w) /\ target' = target /\ now' = now
      /\ char' = [char EXCEPT ![w] = c] /\ row' = [row EXCEPT ![w] = c]
    BY DEF FreeHoldingPit, Commands, RescueInv, FightInv, Fighters
<1>2. c \in Character /\ c.xp = char[w].xp /\ c.room = char[w].room /\ c.hp \in 1 .. MaxHp[w]
    BY CharacterHp DEF Character, RescueInv
<1> HIDE DEF c
<1>3. FightInv'
    BY <1>1, <1>2, CommandKeeps DEF RescueInv
<1>4. CagesTimed'
    BY <1>1 DEF FreeHoldingPit, RescueInv, CagesTimed
<1>5. RollsKept'
    BY EmitSound DEF FreeHoldingPit, RescueInv
<1> QED
    BY <1>3, <1>4, <1>5 DEF RescueInv

LEMMA CageRescues ==
    ASSUME RescueInv, NEW w \in Wanderers, NEW c \in Cages, OpenCage(w, c) PROVE RescueInv'
<1>1. Commands(w) /\ target' = target /\ now' = now /\ booted' = booted
      /\ char' = [char EXCEPT ![w] = char[w]] /\ row' = [row EXCEPT ![w] = char[w]]
    BY DEF OpenCage, Commands, RescueInv, FightInv, Fighters
<1>2. FightInv'
    BY <1>1, CharacterHp, CommandKeeps DEF RescueInv
<1>3. CagesTimed'
    <2>1. /\ refillAt' = [refillAt EXCEPT ![c] = now + HG_CAGE_REFILL_SEC]
          /\ opened' = [opened EXCEPT ![c] = @ + 1]
          /\ refillAt[c] = 0 \/ now >= refillAt[c]
        BY DEF OpenCage, SetCageRefill, CagesReady
    <2>2. now \in Nat /\ booted \in 0 .. now /\ opened[c] \in Nat /\ refillAt[c] \in Nat
        BY DEF RescueInv, FightInv, Mobs, CagesTimed, HG_CAGE_REFILL_SEC
    <2>3. now + HG_CAGE_REFILL_SEC >= booted + HG_CAGE_REFILL_SEC * (opened[c] + 1)
        BY <2>1, <2>2 DEF RescueInv, CagesTimed, HG_CAGE_REFILL_SEC
    <2>4. /\ refillAt' \in [Cages -> 0 .. now' + HG_CAGE_REFILL_SEC]
          /\ opened' \in [Cages -> Nat]
        BY <1>1, <2>1, <2>2 DEF RescueInv, CagesTimed, HG_CAGE_REFILL_SEC
    <2> QED
        BY <1>1, <2>1, <2>2, <2>3, <2>4 DEF RescueInv, CagesTimed
<1>4. RollsKept'
    BY EmitSound, GroupAssumption DEF OpenCage, RescueInv
<1> QED
    BY <1>2, <1>3, <1>4 DEF RescueInv

LEMMA CrashRescues == ASSUME RescueInv, Crash PROVE RescueInv'
<1>1. Fighters' /\ Mobs' /\ WardenKnown'
    BY NewcomerSound, FreshSound, CreatureSound
    DEF Crash, Forget, RescueInv, FightInv, Fighters, Mobs, WardenKnown
<1>2. NobodyDead' /\ XpOnDisk' /\ FightersFace' /\ LostQuarry'
    BY NewcomerSound DEF Crash, Forget, RescueInv, FightInv, Fighters,
                         NobodyDead, XpOnDisk, FightersFace, LostQuarry
<1>3. CagesTimed' /\ RollsKept'
    BY RollAssumption
    DEF Crash, Forget, RescueInv, CagesTimed, RollsKept, FightInv, Mobs, HG_CAGE_REFILL_SEC
<1> QED
    BY <1>1, <1>2, <1>3 DEF RescueInv, FightInv

LEMMA InitRescues == Init => RescueInv
<1> SUFFICES ASSUME Init PROVE RescueInv
    OBVIOUS
<1>1. /\ row \in [Wanderers -> Character]
      /\ \A w \in Wanderers : row[w].hp \in 1 .. MaxHp[w]
    <2>1. row \in [Wanderers -> {[Newcomer(w) EXCEPT !.room = p] :
                                    w \in Wanderers, p \in Places}]
          /\ \A w \in Wanderers : row[w].hp = MaxHp[w]
        BY DEF Init, CombatInit
    <2>2. ASSUME NEW w \in Wanderers, NEW p \in Places
          PROVE  [Newcomer(w) EXCEPT !.room = p] \in Character
        BY NewcomerSound DEF Character
    <2> QED
        BY <2>1, <2>2, StrengthAssumption
<1>2. Fighters /\ Mobs /\ WardenKnown
    BY <1>1, NewcomerSound, FreshSound, CreatureSound
    DEF Init, CombatInit, Fighters, Mobs, WardenKnown
<1>3. NobodyDead /\ XpOnDisk /\ FightersFace /\ LostQuarry
    BY <1>1, NewcomerSound
    DEF Init, CombatInit, NobodyDead, XpOnDisk, FightersFace, LostQuarry
<1>4. CagesTimed /\ RollsKept
    BY RollAssumption DEF Init, CombatInit, CagesTimed, RollsKept, HG_CAGE_REFILL_SEC
<1> QED
    BY <1>2, <1>3, <1>4 DEF RescueInv, FightInv

\* Every step keeps the cages, the captive and the fights as they should be.
THEOREM StepRescues == RescueInv /\ [Next]_vars => RescueInv'
<1> SUFFICES ASSUME RescueInv, [Next]_vars PROVE RescueInv'
    OBVIOUS
<1>1. CASE CombatNext /\ UNCHANGED rescueVars
    <2>1. FightInv' /\ now' \in Nat /\ now' >= now
        <3>1. ASSUME NEW d \in Strides, LetTimePass(d)
              PROVE  FightInv' /\ now' \in Nat /\ now' >= now
            <4>1. FightInv'
                BY <3>1, TimeFights DEF RescueInv
            <4>2. d \in Nat /\ now' = now + d /\ now \in Nat
                BY <3>1, TimeAssumption DEF RescueInv, FightInv, Mobs, LetTimePass
            <4> QED
                BY <4>1, <4>2
        <3>2. ASSUME NEW w \in Wanderers, Login(w) \/ Close(w) \/ Tick(w)
              PROVE  FightInv' /\ now' \in Nat /\ now' >= now
            <4>1. FightInv'
                BY <3>2, LoginFights, CloseFights, TickFights DEF RescueInv
            <4>2. now' = now
                BY <3>2 DEF Login, Close, Tick
            <4> QED
                BY <4>1, <4>2 DEF RescueInv, FightInv, Mobs
        <3>3. ASSUME NEW w \in Wanderers, NEW m \in Creatures, Attack(w, m)
              PROVE  FightInv' /\ now' \in Nat /\ now' >= now
            <4>1. FightInv'
                BY <3>3, AttackFights DEF RescueInv
            <4>2. now' = now
                BY <3>3 DEF Attack, Commands
            <4> QED
                BY <4>1, <4>2 DEF RescueInv, FightInv, Mobs
        <3>4. ASSUME NEW w \in Wanderers,
                     Heal(w) \/ Save(w) \/ (\E r \in Places : Walk(w, r)) \/ Recall(w)
              PROVE  FightInv' /\ now' \in Nat /\ now' >= now
            <4>1. FightInv'
                BY <3>4, CommandFights DEF RescueInv
            <4>2. now' = now
                BY <3>4 DEF Heal, Save, Walk, Recall, Commands
            <4> QED
                BY <4>1, <4>2 DEF RescueInv, FightInv, Mobs
        <3> QED
            BY <1>1, <3>1, <3>2, <3>3, <3>4 DEF CombatNext
    <2>2. CagesTimed'
        BY <1>1, <2>1 DEF rescueVars, RescueInv, FightInv, Mobs, CagesTimed, HG_CAGE_REFILL_SEC
    <2>3. RollsKept'
        BY <1>1 DEF rescueVars, RescueInv, RollsKept
    <2> QED
        BY <2>1, <2>2, <2>3 DEF RescueInv
<1>2. CASE Rescues
    BY <1>2, PitRescues, CageRescues DEF Rescues
<1>3. CASE Crash
    BY <1>3, CrashRescues
<1>4. CASE UNCHANGED vars
    <2>1. FightInv'
        BY <1>4 DEF vars, RescueInv, FightInv, Fighters, Mobs, NobodyDead, XpOnDisk,
                    FightersFace, LostQuarry, WardenKnown
    <2>2. CagesTimed' /\ RollsKept'
        BY <1>4 DEF vars, RescueInv, CagesTimed, RollsKept
    <2> QED
        BY <2>1, <2>2 DEF RescueInv
<1> QED
    BY <1>1, <1>2, <1>3, <1>4 DEF Next

-----------------------------------------------------------------------------
(* Theorems. *)

LEMMA RescueInvariant == Spec => []RescueInv
<1>1. RescueInv /\ [Next]_vars => RescueInv'
    BY StepRescues
<1> QED
    BY InitRescues, <1>1, PTL DEF Spec

\* The rolls keep within their arrays, the cages' timers within a refill, and
\* everything is where it can be (record_rescued, remember_saved, set_cage_refill).
THEOREM RescueTypes == Spec => []TypeOK
<1>1. RescueInv => TypeOK
    BY DEF RescueInv, FightInv, Fighters, Mobs, CagesTimed, RollsKept, TypeOK, CombatTypeOK
<1> QED
    BY <1>1, RescueInvariant, PTL

\* Whoever fights is where the quarry is, and playing (attack, an exit, recall,
\* combat_round, close).
THEOREM FightIsFaced == Spec => []FightersFace
<1>1. RescueInv => FightersFace
    BY DEF RescueInv, FightInv
<1> QED
    BY <1>1, RescueInvariant, PTL

\* No row and no session is ever that of a dead wanderer (combat_round and every
\* save).
THEOREM NobodyIsDead == Spec => []NobodyDead
<1>1. RescueInv => NobodyDead
    BY DEF RescueInv, FightInv
<1> QED
    BY <1>1, RescueInvariant, PTL

\* No cage is opened oftener than it refills (cages_ready, set_cage_refill).
THEOREM CagesRefill == Spec => []OncePerRefill
<1>1. RescueInv => OncePerRefill
    <2> SUFFICES ASSUME RescueInv, NEW c \in Cages
                 PROVE  opened[c] <= 1 + (now - booted) \div HG_CAGE_REFILL_SEC
        BY DEF OncePerRefill
    <2> DEFINE lived == now - booted  n == opened[c]
    <2>1. lived \in Nat /\ n \in Nat /\ now \in Nat /\ booted \in Nat /\ refillAt[c] \in Nat
          /\ refillAt[c] <= now + HG_CAGE_REFILL_SEC
        BY DEF RescueInv, FightInv, Mobs, CagesTimed, HG_CAGE_REFILL_SEC
    <2>2. n >= 1 => 240 * (n - 1) <= lived
        BY <2>1 DEF RescueInv, CagesTimed, HG_CAGE_REFILL_SEC
    <2> HIDE DEF lived, n
    <2>3. n <= 1 + lived \div 240
        BY <2>1, <2>2
    <2> QED
        BY <2>3 DEF lived, n, HG_CAGE_REFILL_SEC
<1> QED
    BY <1>1, RescueInvariant, PTL

\* A creature that is put back is nobody's target (combat_round, on_tick).
THEOREM NobodyIsKeptWaiting == Spec => NobodyWaits
<1>1. RescueInv /\ [Next]_vars => \A m \in Creatures : ~mob[m].alive /\ mob'[m].alive =>
          \A w \in Wanderers : ~(target[w] = m /\ target'[w] = m)
    <2> SUFFICES ASSUME RescueInv, [Next]_vars, NEW m \in Creatures, NEW w \in Wanderers,
                        ~mob[m].alive, mob'[m].alive, target[w] = m, target'[w] = m
                 PROVE  FALSE
        OBVIOUS
    <2>1. TickRespawns[m] = mob[m] /\ m # None
        BY RespawnSound, CreatureSound DEF RescueInv, FightInv
    <2>2. mob' # TickRespawns
        BY <2>1
    <2>3. CASE \E v \in Wanderers : Tick(v) /\ UNCHANGED rescueVars
        <3> PICK v \in Wanderers : Tick(v)
            BY <2>3
        <3>1. v = w => target' = [target EXCEPT ![w] = None]
            BY <2>1 DEF Tick, MobInRoom, Gone
        <3>2. v # w
            BY <3>1, <2>1 DEF RescueInv, FightInv, Fighters
        <3>3. target[v] # None /\ MobInRoom(TickRespawns, char[v].room, target[v])
              /\ Strike(v, target[v], TickRespawns)
            BY <2>2 DEF Tick, Rests, Gone
        <3>4. target[v] # m
            BY <2>1, <3>3 DEF MobInRoom
        <3>5. mob'[m] = TickRespawns[m]
            BY <2>1, <3>3, <3>4, RespawnSound DEF Strike, Kill, RescueInv, FightInv
        <3> QED
            BY <2>1, <3>5
    <2>4. CASE Crash
        BY <2>1, <2>4 DEF Crash, Forget
    <2>5. CASE Rescues
        BY <2>2, <2>5 DEF Rescues, FreeHoldingPit, OpenCage, Commands, Respawn
    <2>6. CASE CombatNext /\ ~\E v \in Wanderers : Tick(v)
        <3>1. mob' = mob \/ mob' = TickRespawns
            BY <2>6 DEF CombatNext, LetTimePass, Login, Close, Attack, Heal, Save, Walk, Recall,
                        Commands, Respawn
        <3> QED
            BY <2>1, <3>1
    <2> QED
        BY <2>3, <2>4, <2>5, <2>6 DEF Next, vars
<1> QED
    BY <1>1, RescueInvariant, PTL DEF Spec, NobodyWaits

\* Nobody earns and nothing dies.
NoKill ==
    /\ \A m \in Creatures : ~Dies(m)
    /\ \A w \in Wanderers : row'[w].xp = row[w].xp

LEMMA CommandsKillNothing ==
    ASSUME FightInv, NEW w \in Wanderers, Commands(w), NEW c \in Character,
           c.xp = char[w].xp, row' = row \/ row' = [row EXCEPT ![w] = c]
    PROVE  NoKill
<1>1. mob' = TickRespawns /\ online[w]
    BY DEF Commands, Respawn
<1>2. \A m \in Creatures : ~Dies(m)
    BY <1>1, RespawnSound DEF FightInv, Dies
<1>3. \A v \in Wanderers : row'[v].xp = row[v].xp
    BY <1>1 DEF FightInv, Fighters, XpOnDisk
<1> QED
    BY <1>2, <1>3 DEF NoKill

\* Only a tick kills, only what its session fights, and rewards that session.
LEMMA TickRewards ==
    ASSUME FightInv, NEW w \in Wanderers, Tick(w)
    PROVE  \/ NoKill
           \/ /\ target[w] \in Creatures /\ Dies(target[w])
              /\ \A k \in Creatures \ {target[w]} : ~Dies(k)
              /\ row'[w].xp = row[w].xp + Seed[target[w]].xp
              /\ \A v \in Wanderers \ {w} : row'[v].xp = row[v].xp
<1> DEFINE m == target[w]
<1>1. CASE mob' = TickRespawns /\ row' = row
    BY <1>1, RespawnSound DEF FightInv, NoKill, Dies
<1>2. CASE m # None /\ MobInRoom(TickRespawns, char[w].room, m) /\ Strike(w, m, TickRespawns)
    <2>1. m \in Creatures /\ online[w] /\ mob[m].alive /\ TickRespawns[m] = mob[m]
        BY <1>2, TargetSound DEF MobInRoom
    <2>2. CASE Kill(w, m, TickRespawns)
        <3>1. /\ mob' = [TickRespawns EXCEPT ![m] = [alive |-> FALSE, hp |-> 0, diedAt |-> now]]
              /\ char' = [char EXCEPT ![w].xp = @ + Seed[m].xp]
              /\ row' = [row EXCEPT ![w] = char'[w]]
            BY <2>2 DEF Kill
        <3>2. Dies(m) /\ \A k \in Creatures \ {m} : ~Dies(k)
            BY <2>1, <3>1, RespawnSound DEF FightInv, Dies
        <3>3. row'[w].xp = char[w].xp + Seed[m].xp
            BY <3>1, CharacterHp DEF FightInv, Fighters, Character
        <3>4. row'[w].xp = row[w].xp + Seed[m].xp
            BY <2>1, <3>3 DEF FightInv, XpOnDisk
        <3>5. \A v \in Wanderers \ {w} : row'[v].xp = row[v].xp
            BY <3>1 DEF FightInv, Fighters
        <3> QED
            BY <2>1, <3>2, <3>4, <3>5
    <2>3. CASE \E n \in Int : mob' = [TickRespawns EXCEPT ![m].hp = n] /\ row' = row
        <3>1. \A k \in Creatures : mob'[k].alive = TickRespawns[k].alive
            BY <2>3, RespawnSound DEF FightInv, Mob
        <3> QED
            BY <2>3, <3>1, RespawnSound DEF FightInv, NoKill, Dies
    <2>4. mob[m].hp - Might[w] \in Int
        BY <2>1, StrengthAssumption DEF FightInv, Mobs, Mob
    <2> QED
        BY <1>2, <2>1, <2>2, <2>3, <2>4 DEF Strike
<1> QED
    BY <1>1, <1>2 DEF Tick, Rests, Gone

\* A creature's death is the xp of one wanderer, who fought it, on disk at once
\* (combat_round).
THEOREM OneKillOneReward == Spec => OneReward
<1> DEFINE Rewarded ==
        /\ \A m \in Creatures : Dies(m) =>
               \E w \in Wanderers :
                   /\ target[w] = m /\ row'[w].xp = row[w].xp + Seed[m].xp
                   /\ \A v \in Wanderers \ {w} : row'[v].xp = row[v].xp
        /\ \A w \in Wanderers : row'[w].xp # row[w].xp => \E m \in Creatures : Dies(m)
<1>1. ASSUME RescueInv, [Next]_vars PROVE Rewarded
    <2> USE <1>1
    <2>1. FightInv
        BY DEF RescueInv
    <2>2. NoKill => Rewarded
        BY DEF NoKill
    <2>3. ASSUME NEW w \in Wanderers, Tick(w) PROVE Rewarded
        BY <2>1, <2>2, <2>3, TickRewards
    <2>4. ASSUME NEW w \in Wanderers,
                 \/ Save(w) \/ Recall(w) \/ (\E r \in Places : Walk(w, r))
                 \/ (\E m \in Creatures : Attack(w, m)) \/ FreeHoldingPit(w)
                 \/ (\E c \in Cages : OpenCage(w, c))
          PROVE  NoKill
        <3>1. Commands(w)
            BY <2>4 DEF Save, Recall, Walk, Attack, FreeHoldingPit, OpenCage
        <3>2. char[w] \in Character
            BY <2>1, CharacterHp
        <3>3. \E c \in Character : c.xp = char[w].xp /\ (row' = row \/ row' = [row EXCEPT ![w] = c])
            <4>1. CASE Recall(w) \/ \E m \in Creatures : Attack(w, m)
                BY <3>2, <4>1 DEF Recall, Attack
            <4>2. CASE \E c \in Cages : OpenCage(w, c)
                BY <3>2, <4>2 DEF OpenCage
            <4>5. CASE Save(w)
                <5>1. PICK v \in {char[w].vial, FALSE} : char' = [char EXCEPT ![w].vial = v]
                    BY <4>5 DEF Save
                <5>2. row' = [row EXCEPT ![w] = [char[w] EXCEPT !.vial = v]]
                    BY <2>1, <4>5, <5>1 DEF Save, FightInv, Fighters
                <5>3. [char[w] EXCEPT !.vial = v] \in Character
                      /\ [char[w] EXCEPT !.vial = v].xp = char[w].xp
                    BY <3>2 DEF Character
                <5> QED
                    BY <5>2, <5>3
            <4>3. ASSUME NEW r \in Places, Walk(w, r)
                  PROVE  \E c \in Character :
                            c.xp = char[w].xp /\ (row' = row \/ row' = [row EXCEPT ![w] = c])
                <5>1. row' = [row EXCEPT ![w] = [char[w] EXCEPT !.room = r]]
                    BY <4>3, <2>1 DEF Walk, FightInv, Fighters
                <5> QED
                    BY <2>1, <5>1, RoomSound
            <4>4. CASE FreeHoldingPit(w)
                <5>1. row' = [row EXCEPT ![w] = [char[w] EXCEPT !.vial = w \notin Laden]]
                    BY <2>1, <4>4 DEF FreeHoldingPit, FightInv, Fighters
                <5>2. [char[w] EXCEPT !.vial = w \notin Laden] \in Character
                      /\ [char[w] EXCEPT !.vial = w \notin Laden].xp = char[w].xp
                    BY <3>2 DEF Character
                <5> QED
                    BY <5>1, <5>2
            <4> QED
                BY <2>4, <4>1, <4>2, <4>3, <4>4, <4>5
        <3> QED
            BY <2>1, <3>1, <3>3, CommandsKillNothing
    <2>5. ASSUME NEW w \in Wanderers, Heal(w) PROVE NoKill
        <3>1. PICK k \in Cures : char' = Cured(w, k)
            BY <2>5 DEF Heal
        <3>2. PICK c \in Character : char' = [char EXCEPT ![w] = c] /\ c.xp = char[w].xp
            BY <2>1, <3>1, CuredSound
        <3>3. row' = row \/ row' = [row EXCEPT ![w] = c]
            BY <2>1, <2>5, <3>2 DEF Heal, FightInv, Fighters
        <3>4. Commands(w)
            BY <2>5 DEF Heal
        <3> QED
            BY <2>1, <3>2, <3>3, <3>4, CommandsKillNothing
    <2>6. ASSUME NEW w \in Wanderers, Login(w) \/ Close(w) PROVE NoKill
        <3>1. mob' = mob /\ (row' = row \/ (online[w] /\ row' = [row EXCEPT ![w] = char[w]]))
            BY <2>6 DEF Login, Close
        <3> QED
            BY <2>1, <3>1 DEF FightInv, Fighters, XpOnDisk, NoKill, Dies
    <2>7. ASSUME NEW d \in Strides, LetTimePass(d) PROVE NoKill
        BY <2>7 DEF LetTimePass, NoKill, Dies
    <2>8. CASE Crash
        BY <2>8, FreshSound DEF Crash, Forget, NoKill, Dies
    <2>9. CASE UNCHANGED vars
        BY <2>9 DEF vars, NoKill, Dies
    <2> HIDE DEF Rewarded
    <2> QED
        BY <2>2, <2>3, <2>4, <2>5, <2>6, <2>7, <2>8, <2>9 DEF Next, CombatNext, Rescues
<1>2. RescueInv /\ [Next]_vars => [Rewarded]_combatVars
    BY <1>1
<1> QED
    BY <1>2, RescueInvariant, PTL DEF Spec, OneReward

\* The captive walks free only behind a warden slain a short while ago
\* (free_holding_pit, warden_cleared).
THEOREM CaptiveFreedInGrace == Spec => FreedInGrace
<1>1. ASSUME RescueInv, [Next]_vars, souls' > souls,
             char[Head(rescued').by].room = "holding_pit"
      PROVE  slainAt # 0 /\ now - slainAt < HG_WARDEN_GRACE_SEC
    <2> USE <1>1
    <2>1. souls \in Nat /\ now \in Nat \ {0} /\ slainAt \in 0 .. now
        BY DEF RescueInv, RollsKept, FightInv, Mobs
    <2>2. CASE \E w \in Wanderers : FreeHoldingPit(w)
        <3>1. PICK w \in Wanderers : FreeHoldingPit(w)
            BY <2>2
        <3>2. char[w] \in Character /\ char[w].room = "holding_pit" /\ WardenCleared(TickRespawns)
            BY <3>1, CharacterHp DEF FreeHoldingPit, RescueInv
        <3>3. "warden" \in Creatures /\ Seed["warden"].room = "holding_pit"
              /\ Seed["warden"].respawn = 60
            BY <3>2 DEF Character, Creatures, Seed
        <3>4. CASE slainAt # 0 /\ now - slainAt < HG_WARDEN_GRACE_SEC
            BY <3>4
        <3>5. CASE ~TickRespawns["warden"].alive
            <4>1. /\ ~mob["warden"].alive /\ now - mob["warden"].diedAt < 60
                BY <3>3, <3>5, RespawnSound DEF RescueInv, FightInv
            <4> QED
                BY <2>1, <3>3, <4>1 DEF RescueInv, FightInv, WardenKnown, HG_WARDEN_GRACE_SEC
        <3> QED
            BY <3>2, <3>3, <3>4, <3>5 DEF WardenCleared, MobInRoom
    <2>3. CASE \E w \in Wanderers : \E c \in Cages : OpenCage(w, c)
        <3>1. PICK w \in Wanderers, c \in Cages : OpenCage(w, c)
            BY <2>3
        <3>2. Head(rescued').by = w
            BY <3>1, EmitSound, GroupAssumption DEF OpenCage, RescueInv
        <3>3. char[w].room = c /\ c # "holding_pit"
            BY <3>1 DEF OpenCage, Cages
        <3> QED
            BY <3>2, <3>3
    <2>4. CASE souls' = souls
        BY <2>1, <2>4
    <2> QED
        BY <2>2, <2>3, <2>4 DEF Next, Rescues, Crash, rescueVars, vars
<1> QED
    BY <1>1, RescueInvariant, PTL DEF Spec, FreedInGrace

-----------------------------------------------------------------------------
(* What a roll tells of somebody: the fold that SoulsBy is, by induction on it. *)

LEMMA MaxIn ==
    ASSUME NEW n \in Nat, NEW T \in SUBSET (1 .. n), T # {}
    PROVE  Max(T) \in T /\ \A t \in T : t <= Max(T)
<1> DEFINE B == {m \in Nat : \A t \in T : t <= m}
<1>1. B \subseteq Nat /\ n \in B
    OBVIOUS
<1>2. PICK m \in B : \A k \in B : m <= k
    <2> HIDE DEF B
    <2> QED
        BY <1>1, LeastNat
<1>3. m \in T
    <2> SUFFICES ASSUME m \notin T PROVE FALSE
        OBVIOUS
    <2>1. m # 0 /\ m - 1 \in Nat
        <3>1. PICK t \in T : TRUE
            OBVIOUS
        <3>2. m \in Nat /\ t \in Nat /\ t # 0 /\ t <= m
            BY <1>2, <3>1
        <3> QED
            BY <3>2
    <2>2. m - 1 \in B
        BY <1>2, <2>1
    <2> QED
        BY <1>2, <2>1, <2>2
<1>4. \A t \in T : m >= t
    BY <1>2
<1>5. \E x \in T : \A y \in T : x >= y
    BY <1>3, <1>4
<1> QED
    BY <1>5 DEF Max

\* One entry more: a soul, or nothing.
Told(own, e, w) == IF e.by = w THEN Append(own, e.soul) ELSE own

\* "it" tells the entries at each set of places within D, in their order.
Tells(it, s, w, D) ==
    it = [T \in SUBSET D |-> IF T = {} THEN <<>>
                             ELSE Told(it[T \ {Max(T)}], s[Max(T)], w)]

\* Places in a sequence; entries r and s have in common.
SeqPlaces(D) == \E n \in Nat : D \subseteq 1 .. n
InCommon(r, D, s, E, T) == T \subseteq D /\ T \subseteq E /\ \A i \in T : r[i] = s[i]

LEMMA TellsAgree ==
    ASSUME NEW w, NEW r, NEW s, NEW D, NEW E, SeqPlaces(E), NEW a, NEW b,
           Tells(a, r, w, D), Tells(b, s, w, E), NEW T, InCommon(r, D, s, E, T)
    PROVE  a[T] = b[T]
<1>a. PICK n \in Nat : E \subseteq 1 .. n
    BY DEF SeqPlaces
<1>b. T \subseteq D /\ T \subseteq E /\ \A i \in T : r[i] = s[i]
    BY DEF InCommon
<1> DEFINE B == {U \in SUBSET T : a[U] # b[U]}
<1> SUFFICES ASSUME B # {} PROVE FALSE
    OBVIOUS
<1>0. FamilyOf(B, 1 .. n)
    BY <1>a, <1>b DEF FamilyOf
<1>1. PICK U \in B : \A V \in B : V \subseteq U => V = U
    <2> HIDE DEF B
    <2>1. HasLeast(B)
        BY <1>0, LeastPlaces
    <2> QED
        BY <2>1 DEF HasLeast
<1>2. U # {}
    BY <1>1, <1>b DEF Tells
<1> DEFINE V == U \ {Max(U)}
<1>3. Max(U) \in U /\ V \subseteq U /\ V # U
    BY <1>0, <1>1, <1>2, <1>a, MaxIn DEF FamilyOf
<1>4. a[V] = b[V]
    BY <1>1, <1>3
<1>5. a[U] = Told(a[V], r[Max(U)], w) /\ b[U] = Told(b[V], s[Max(U)], w)
    BY <1>1, <1>2, <1>b DEF Tells
<1> QED
    BY <1>1, <1>3, <1>4, <1>5, <1>b

LEMMA TellsExists ==
    ASSUME NEW w, NEW s, NEW D, SeqPlaces(D)
    PROVE  \E it : Tells(it, s, w, D)
<1>a. PICK n \in Nat : D \subseteq 1 .. n
    BY DEF SeqPlaces
<1> DEFINE B == {T \in SUBSET D : ~ \E it : Tells(it, s, w, T)}
<1> SUFFICES ASSUME B # {} PROVE FALSE
    OBVIOUS
<1>0. FamilyOf(B, 1 .. n)
    BY <1>a DEF FamilyOf
<1>1. PICK T \in B : \A U \in B : U \subseteq T => U = T
    <2> HIDE DEF B
    <2>1. HasLeast(B)
        BY <1>0, LeastPlaces
    <2> QED
        BY <2>1 DEF HasLeast
<1> DEFINE by(U) == CHOOSE it : Tells(it, s, w, U)
           less(U) == U \ {Max(U)}
           h == [U \in SUBSET T |-> IF U = {} THEN <<>>
                    ELSE Told(by(less(U))[less(U)], s[Max(U)], w)]
<1>2. \A U \in SUBSET T : U # T => Tells(by(U), s, w, U)
    <2>1. \A U \in SUBSET T : U # T => \E it : Tells(it, s, w, U)
        BY <1>1
    <2> QED
        BY <2>1
<1>3. \A U \in SUBSET T : U # {} => Max(U) \in U /\ less(U) \subseteq U /\ less(U) # U
    BY <1>a, <1>1, MaxIn
<1>4. \A V \in SUBSET T : V # T => h[V] = by(V)[V]
    <2> SUFFICES ASSUME NEW V \in SUBSET T, V # T PROVE h[V] = by(V)[V]
        OBVIOUS
    <2>1. by(V)[V] = IF V = {} THEN <<>> ELSE Told(by(V)[less(V)], s[Max(V)], w)
        <3>1. Tells(by(V), s, w, V)
            BY <1>2
        <3> HIDE DEF by
        <3> QED
            BY <3>1 DEF Tells
    <2>2. V # {} => by(V)[less(V)] = by(less(V))[less(V)]
        <3> SUFFICES ASSUME V # {} PROVE by(V)[less(V)] = by(less(V))[less(V)]
            OBVIOUS
        <3> DEFINE W == less(V)
        <3>1. W \subseteq V /\ W # T /\ W \in SUBSET T
            BY <1>3
        <3>2. Tells(by(V), s, w, V) /\ Tells(by(W), s, w, W) /\ SeqPlaces(W) /\ InCommon(s, V, s, W, W)
            BY <1>a, <1>1, <1>2, <3>1 DEF SeqPlaces, InCommon
        <3> HIDE DEF W, by
        <3>3. by(V)[W] = by(W)[W]
            BY <3>1, <3>2, TellsAgree
        <3> QED
            BY <3>3 DEF W
    <2> HIDE DEF by, less
    <2> QED
        BY <2>1, <2>2
<1>5. Tells(h, s, w, T)
    <2>1. DOMAIN h = SUBSET T /\ h = [U \in SUBSET T |-> h[U]] /\ h[{}] = <<>>
        OBVIOUS
    <2>2. \A U \in SUBSET T : U # {} => h[U] = Told(h[less(U)], s[Max(U)], w)
        <3> SUFFICES ASSUME NEW U \in SUBSET T, U # {}
                     PROVE  h[U] = Told(h[less(U)], s[Max(U)], w)
            OBVIOUS
        <3>1. h[less(U)] = by(less(U))[less(U)]
            <4>1. less(U) \in SUBSET T /\ less(U) # T
                BY <1>3
            <4> HIDE DEF h, less, by
            <4> QED
                BY <1>4, <4>1
        <3>2. h[U] = Told(by(less(U))[less(U)], s[Max(U)], w)
            OBVIOUS
        <3> HIDE DEF h, less, by
        <3> QED
            BY <3>1, <3>2
    <2> HIDE DEF h, by
    <2> QED
        BY <2>1, <2>2 DEF Tells
<1> QED
    BY <1>1, <1>5

LEMMA SoulsChosen ==
    ASSUME NEW w, NEW s, NEW n \in Nat, DOMAIN s = 1 .. n
    PROVE  \E it : Tells(it, s, w, 1 .. n) /\ SoulsBy(w, s) = it[1 .. n]
<1> DEFINE it == CHOOSE i : Tells(i, s, w, DOMAIN s)
<1>1. SoulsBy(w, s) = it[DOMAIN s]
    BY DEF SoulsBy, FoldLeft, MapThenFoldSet, Tells, Told
<1>2. Tells(it, s, w, DOMAIN s)
    BY TellsExists DEF SeqPlaces
<1> HIDE DEF it
<1> QED
    BY <1>1, <1>2

LEMMA SoulsEmpty == ASSUME NEW w PROVE SoulsBy(w, <<>>) = <<>>
<1>1. DOMAIN <<>> = 1 .. 0 /\ 1 .. 0 = {}
    OBVIOUS
<1>2. PICK it : Tells(it, <<>>, w, 1 .. 0) /\ SoulsBy(w, <<>>) = it[1 .. 0]
    BY <1>1, SoulsChosen
<1> QED
    BY <1>1, <1>2 DEF Tells

LEMMA SoulsAppend ==
    ASSUME NEW w, NEW T, NEW s \in Seq(T), NEW x \in T
    PROVE  SoulsBy(w, Append(s, x)) = Told(SoulsBy(w, s), x, w)
<1> DEFINE t == Append(s, x)  n == Len(s)  D == 1 .. n  E == 1 .. n + 1
<1>1. /\ n \in Nat /\ n + 1 \in Nat /\ DOMAIN s = D /\ DOMAIN t = E
      /\ t[n + 1] = x /\ \A i \in D : t[i] = s[i]
    OBVIOUS
<1>2. PICK a : Tells(a, s, w, D) /\ SoulsBy(w, s) = a[D]
    BY <1>1, SoulsChosen
<1>3. PICK b : Tells(b, t, w, E) /\ SoulsBy(w, t) = b[E]
    <2> DEFINE m == n + 1
    <2>1. m \in Nat /\ DOMAIN t = 1 .. m
        BY <1>1
    <2> HIDE DEF m, t
    <2> QED
        BY <2>1, SoulsChosen DEF m
<1>4. Max(E) = n + 1 /\ E \ {n + 1} = D /\ E # {}
    <2>1. E \in SUBSET (1 .. n + 1) /\ E # {} /\ n + 1 \in E
        BY <1>1
    <2>2. Max(E) \in E /\ n + 1 <= Max(E)
        BY <1>1, <2>1, MaxIn
    <2> QED
        BY <1>1, <2>2
<1> HIDE DEF t, n
<1>5. b[E] = Told(b[D], x, w)
    <2>1. b[E] = Told(b[E \ {Max(E)}], t[Max(E)], w)
        <3> HIDE DEF E
        <3> QED
            BY <1>3, <1>4 DEF Tells
    <2> QED
        BY <1>1, <1>4, <2>1
<1>6. b[D] = a[D]
    <2>1. SeqPlaces(D) /\ InCommon(t, E, s, D, D)
        <3>1. D \subseteq D /\ D \subseteq E /\ \A i \in D : t[i] = s[i]
            BY <1>1
        <3>2. SeqPlaces(D)
            BY <1>1 DEF SeqPlaces
        <3> QED
            BY <3>1, <3>2 DEF InCommon
    <2> HIDE DEF D, E
    <2> QED
        BY <1>2, <1>3, <2>1, TellsAgree
<1> QED
    BY <1>2, <1>3, <1>5, <1>6 DEF t

LEMMA SoulsType ==
    ASSUME NEW w, NEW s \in Seq(Entry)
    PROVE  SoulsBy(w, s) \in Seq(Nat)
<1> DEFINE P == {t \in Seq(Entry) : SoulsBy(w, t) \in Seq(Nat)}
<1>1. <<>> \in P
    <2>1. <<>> \in Seq(Entry) /\ <<>> \in Seq(Nat) /\ Len(<<>>) = 0
        OBVIOUS
    <2>2. SoulsBy(w, <<>>) = <<>>
        BY SoulsEmpty
    <2> QED
        BY <2>1, <2>2
<1>2. ASSUME NEW t \in Seq(Entry), NEW x \in Entry, t \in P PROVE Append(t, x) \in P
    <2>1. SoulsBy(w, Append(t, x)) = Told(SoulsBy(w, t), x, w)
        BY SoulsAppend
    <2>2. SoulsBy(w, t) \in Seq(Nat) /\ x.soul \in Nat
        BY <1>2 DEF Entry
    <2>3. Told(SoulsBy(w, t), x, w) \in Seq(Nat)
        BY <2>2 DEF Told
    <2>4. Append(t, x) \in Seq(Entry)
        OBVIOUS
    <2> QED
        BY <2>1, <2>3, <2>4
<1>3. Seq(Entry) \subseteq P
    <2> HIDE DEF P
    <2> QED
        BY <1>1, <1>2, SeqByAppend
<1> QED
    BY <1>3

LEMMA ToldConcat ==
    ASSUME NEW w, NEW a \in Seq(Nat), NEW b \in Seq(Nat), NEW x, x.soul \in Nat
    PROVE  Told(a \o b, x, w) = a \o Told(b, x, w)
<1> DEFINE e == x.soul
<1>1. e \in Nat /\ a \o b \in Seq(Nat)
    OBVIOUS
<1> HIDE DEF e
<1>2. /\ Append(a \o b, e) = (a \o b) \o <<e>>
      /\ Append(b, e) = b \o <<e>> /\ <<e>> \in Seq(Nat)
    BY <1>1, AppendIsConcat
<1>3. (a \o b) \o <<e>> = a \o (b \o <<e>>)
    BY <1>2, ConcatAssociative
<1> QED
    BY <1>2, <1>3 DEF Told, e

LEMMA SoulsConcat ==
    ASSUME NEW w, NEW r \in Seq(Entry), NEW s \in Seq(Entry)
    PROVE  SoulsBy(w, r \o s) = SoulsBy(w, r) \o SoulsBy(w, s)
<1> DEFINE P == {t \in Seq(Entry) : SoulsBy(w, r \o t) = SoulsBy(w, r) \o SoulsBy(w, t)}
<1>1. <<>> \in P
    <2>1. r \o <<>> = r /\ SoulsBy(w, r) \o <<>> = SoulsBy(w, r)
        BY SoulsType
    <2>2. <<>> \in Seq(Entry) /\ SoulsBy(w, <<>>) = <<>>
        BY SoulsEmpty
    <2> QED
        BY <2>1, <2>2
<1>2. ASSUME NEW t \in Seq(Entry), NEW x \in Entry, t \in P PROVE Append(t, x) \in P
    <2> DEFINE a == SoulsBy(w, r)  b == SoulsBy(w, t)
    <2>1. r \o Append(t, x) = Append(r \o t, x) /\ r \o t \in Seq(Entry)
        OBVIOUS
    <2>2. /\ SoulsBy(w, Append(t, x)) = Told(b, x, w)
          /\ SoulsBy(w, Append(r \o t, x)) = Told(SoulsBy(w, r \o t), x, w)
        BY <2>1, SoulsAppend
    <2>3. SoulsBy(w, r \o t) = a \o b
        BY <1>2
    <2>4. a \in Seq(Nat) /\ b \in Seq(Nat) /\ x.soul \in Nat
        BY SoulsType DEF Entry
    <2> HIDE DEF a, b
    <2>5. Told(a \o b, x, w) = a \o Told(b, x, w)
        BY <2>4, ToldConcat
    <2>6. SoulsBy(w, r \o Append(t, x)) = a \o SoulsBy(w, Append(t, x))
        <3>1. SoulsBy(w, r \o Append(t, x)) = SoulsBy(w, Append(r \o t, x))
            BY <2>1
        <3> QED
            BY <2>2, <2>3, <2>5, <3>1
    <2> QED
        BY <2>6 DEF a
<1>3. Seq(Entry) \subseteq P
    <2> HIDE DEF P
    <2> QED
        BY <1>1, <1>2, SeqByAppend
<1> QED
    BY <1>3

\* What is all somebody's is told as it is, and to others not at all.
LEMMA SoulsOwn ==
    ASSUME NEW v, NEW w, NEW s \in Seq(Entry), \A i \in 1 .. Len(s) : s[i].by = v
    PROVE  SoulsBy(w, s) = IF w = v THEN [i \in 1 .. Len(s) |-> s[i].soul] ELSE <<>>
<1> DEFINE own(t) == [i \in 1 .. Len(t) |-> t[i].soul]
           P == {t \in Seq(Entry) : (\A i \in 1 .. Len(t) : t[i].by = v)
                    => SoulsBy(w, t) = IF w = v THEN own(t) ELSE <<>>}
<1>1. <<>> \in P
    <2>1. <<>> \in Seq(Entry) /\ <<>> \in Seq(Nat) /\ Len(<<>>) = 0
        OBVIOUS
    <2>2. SoulsBy(w, <<>>) = <<>>
        BY SoulsEmpty
    <2>3. own(<<>>) = <<>>
        OBVIOUS
    <2> QED
        BY <2>1, <2>2, <2>3
<1>2. ASSUME NEW t \in Seq(Entry), NEW x \in Entry, t \in P PROVE Append(t, x) \in P
    <2>0. Append(t, x) \in Seq(Entry)
        OBVIOUS
    <2> SUFFICES ASSUME \A i \in 1 .. Len(Append(t, x)) : Append(t, x)[i].by = v
                 PROVE  SoulsBy(w, Append(t, x)) = IF w = v THEN own(Append(t, x)) ELSE <<>>
        BY <2>0
    <2>1. x.by = v /\ \A i \in 1 .. Len(t) : t[i].by = v
        <3>1. /\ Len(Append(t, x)) = Len(t) + 1 /\ Append(t, x)[Len(t) + 1] = x
              /\ \A i \in 1 .. Len(t) : Append(t, x)[i] = t[i]
            OBVIOUS
        <3> QED
            BY <3>1
    <2>2. SoulsBy(w, Append(t, x)) = Told(SoulsBy(w, t), x, w)
        BY SoulsAppend
    <2>3. SoulsBy(w, t) = IF w = v THEN own(t) ELSE <<>>
        BY <1>2, <2>1
    <2>4. own(Append(t, x)) = Append(own(t), x.soul)
        OBVIOUS
    <2> HIDE DEF own
    <2> QED
        BY <2>1, <2>2, <2>3, <2>4 DEF Told
<1>3. Seq(Entry) \subseteq P
    <2> HIDE DEF P
    <2> QED
        BY <1>1, <1>2, SeqByAppend
<1> QED
    BY <1>3

\* The start of a roll tells the start of what the roll tells.
LEMMA SoulsOfStart ==
    ASSUME NEW w, NEW s \in Seq(Entry), NEW n \in 0 .. Len(s)
    PROVE  \E rest \in Seq(Nat) : SoulsBy(w, s) = SoulsBy(w, SubSeq(s, 1, n)) \o rest
<1> DEFINE a == SubSeq(s, 1, n)  b == SubSeq(s, n + 1, Len(s))
<1>1. a \in Seq(Entry) /\ b \in Seq(Entry) /\ s = a \o b
    <2>1. a \in Seq(Entry) /\ b \in Seq(Entry)
        OBVIOUS
    <2>2. 1 \in 1 .. Len(s) + 1 /\ n \in 1 - 1 .. Len(s) /\ Len(s) \in n .. Len(s)
        OBVIOUS
    <2> HIDE DEF Entry
    <2>3. a \o b = SubSeq(s, 1, Len(s))
        BY <2>2, ConcatAdjacentSubSeq
    <2> QED
        BY <2>1, <2>3, SubSeqFull
<1> HIDE DEF a, b
<1>2. SoulsBy(w, s) = SoulsBy(w, a) \o SoulsBy(w, b) /\ SoulsBy(w, b) \in Seq(Nat)
    BY <1>1, SoulsConcat, SoulsType
<1> QED
    BY <1>2 DEF a

-----------------------------------------------------------------------------
(* The two rolls. *)

\* Sequences that agree as far as both reach.
Alike(a, b) == \A i \in DOMAIN a \cap DOMAIN b : a[i] = b[i]

LEMMA AlikePrefix ==
    ASSUME NEW a \in Seq(Nat), NEW b \in Seq(Nat), Alike(a, b)
    PROVE  IsPrefix(a, b) \/ IsPrefix(b, a)
<1>1. ASSUME NEW x \in Seq(Nat), NEW y \in Seq(Nat), Alike(x, y), Len(x) <= Len(y)
      PROVE  IsPrefix(x, y)
    <2>1. \A i \in 1 .. Len(x) : x[i] = y[i]
        BY <1>1 DEF Alike
    <2>2. SubSeq(x, 1, Len(x)) = x
        BY SubSeqFull
    <2>3. /\ SubSeq(y, 1, Len(x)) \in Seq(Nat) /\ Len(SubSeq(y, 1, Len(x))) = Len(x)
          /\ \A i \in 1 .. Len(x) : SubSeq(y, 1, Len(x))[i] = y[i]
        BY <1>1
    <2>4. SubSeq(y, 1, Len(x)) = x
        BY <2>1, <2>3, SeqEqual
    <2> QED
        BY <1>1, <2>2, <2>4 DEF IsPrefix
<1>2. Alike(b, a)
    BY DEF Alike
<1>3. Len(a) <= Len(b) \/ Len(b) <= Len(a)
    OBVIOUS
<1> QED
    BY <1>1, <1>2, <1>3

LEMMA AlikeConcat ==
    ASSUME NEW s \in Seq(Nat), NEW a \in Seq(Nat), NEW b \in Seq(Nat), Alike(a, b)
    PROVE  Alike(s \o a, s \o b)
<1>1. \A i \in 1 .. Len(a) : i <= Len(b) => a[i] = b[i]
    BY DEF Alike
<1>2. ASSUME NEW i \in DOMAIN (s \o a) \cap DOMAIN (s \o b) PROVE (s \o a)[i] = (s \o b)[i]
    <2>1. i \in 1 .. Len(s) + Len(a) /\ i \in 1 .. Len(s) + Len(b)
        BY <1>2
    <2>2. CASE i <= Len(s)
        BY <2>1, <2>2
    <2>3. CASE i > Len(s)
        <3>1. i - Len(s) \in 1 .. Len(a) /\ i - Len(s) <= Len(b)
            BY <2>1, <2>3
        <3>2. (s \o a)[i] = a[i - Len(s)] /\ (s \o b)[i] = b[i - Len(s)]
            BY <2>1, <2>3
        <3> QED
            BY <1>1, <3>1, <3>2
    <2> QED
        BY <2>1, <2>2, <2>3
<1> QED
    BY <1>2 DEF Alike

LEMMA AlikeStart ==
    ASSUME NEW a \in Seq(Nat), NEW b \in Seq(Nat), NEW rest \in Seq(Nat),
           Alike(a, b \o rest)
    PROVE  Alike(a, b) /\ Alike(b, a)
<1>1. DOMAIN b \subseteq DOMAIN (b \o rest) /\ \A i \in DOMAIN b : (b \o rest)[i] = b[i]
    OBVIOUS
<1> QED
    BY <1>1 DEF Alike

LEMMA AlikeCut ==
    ASSUME NEW a \in Seq(Nat), NEW b \in Seq(Nat), NEW n \in 0 .. Len(a), Alike(a, b)
    PROVE  Alike(SubSeq(a, 1, n), b)
<1>1. /\ DOMAIN SubSeq(a, 1, n) \subseteq DOMAIN a
      /\ \A i \in DOMAIN SubSeq(a, 1, n) : SubSeq(a, 1, n)[i] = a[i]
    OBVIOUS
<1> QED
    BY <1>1 DEF Alike

\* The rolls tell the same, and who is not remembered is on neither or came too late.
RollsTold ==
    \A w \in Wanderers :
        /\ Alike(saved[w], OnRollFor(w))
        /\ w \notin Remembered =>
              OnRollFor(w) = <<>> \/ ~ (Cardinality(Remembered) < MaxSavedPlayers)

LEMMA EmitTold ==
    ASSUME RollsKept, RollsTold, NEW v \in Wanderers, NEW k \in Nat \ {0}, EmitRescued(v, k)
    PROVE  RollsTold'
<1> DEFINE news == NextSouls(k)
           s == [i \in 1 .. k |-> [soul |-> NextSouls(k)[i], by |-> v]]
           n == AtMost(Len(s) + Len(rescued), MaxRescued)
           full(w) == SoulsBy(w, s) \o OnRollFor(w)
<1>1. news \in Seq(Nat) /\ Len(news) = k
    <2>1. \A i \in 1 .. k : souls + k + 1 - i \in Nat
        BY DEF RollsKept
    <2> QED
        BY <2>1 DEF NextSouls
<1>2. s \in Seq(Entry) /\ Len(s) = k /\ \A i \in 1 .. k : s[i].by = v /\ s[i].soul = news[i]
    <2>1. \A i \in 1 .. k : [soul |-> news[i], by |-> v] \in Entry
        BY <1>1 DEF Entry
    <2> QED
        BY <2>1
<1>3. \A w \in Wanderers : SoulsBy(w, s) = IF w = v THEN news ELSE <<>>
    <2> SUFFICES ASSUME NEW w \in Wanderers
                 PROVE  SoulsBy(w, s) = IF w = v THEN news ELSE <<>>
        OBVIOUS
    <2>1. SoulsBy(w, s) = IF w = v THEN [i \in 1 .. Len(s) |-> s[i].soul] ELSE <<>>
        <3>1. \A i \in 1 .. Len(s) : s[i].by = v
            BY <1>2
        <3>2. s \in Seq(Entry)
            BY <1>2
        <3> HIDE DEF s
        <3> QED
            BY <3>1, <3>2, SoulsOwn
    <2>2. [i \in 1 .. Len(s) |-> s[i].soul] = news
        <3> HIDE DEF s
        <3>1. [i \in 1 .. Len(s) |-> s[i].soul] = [i \in 1 .. k |-> news[i]]
            BY <1>2
        <3> QED
            BY <1>1, <3>1
    <2> QED
        BY <2>1, <2>2
<1>4. rescued' = SubSeq(s \o rescued, 1, n)
    BY DEF EmitRescued, Pushed
<1>5. saved' = IF v \in Remembered \/ Cardinality(Remembered) < MaxSavedPlayers
               THEN [saved EXCEPT ![v] = Pushed(news, saved[v], MaxSaved)] ELSE saved
    BY DEF EmitRescued, RememberSaved
<1>6. rescued \in Seq(Entry) /\ s \o rescued \in Seq(Entry) /\ n \in 0 .. Len(s \o rescued)
    BY <1>2, RollAssumption DEF RollsKept, AtMost
<1> HIDE DEF s, news, n
<1>7. \A w \in Wanderers : OnRollFor(w) \in Seq(Nat) /\ OnRollFor(w)' \in Seq(Nat)
    <2>1. rescued' \in Seq(Entry)
        BY EmitSound DEF RollsKept
    <2> QED
        BY <1>6, <2>1, SoulsType DEF OnRollFor
<1>8. \A w \in Wanderers : \E rest \in Seq(Nat) : full(w) = OnRollFor(w)' \o rest
    <2> SUFFICES ASSUME NEW w \in Wanderers
                 PROVE  \E rest \in Seq(Nat) : full(w) = OnRollFor(w)' \o rest
        OBVIOUS
    <2>1. SoulsBy(w, s \o rescued) = full(w)
        BY <1>2, <1>6, SoulsConcat DEF OnRollFor
    <2> DEFINE t == s \o rescued
    <2>2. t \in Seq(Entry) /\ n \in 0 .. Len(t)
        BY <1>6
    <2> HIDE DEF t, full
    <2>3. \E rest \in Seq(Nat) : SoulsBy(w, t) = SoulsBy(w, SubSeq(t, 1, n)) \o rest
        BY <2>2, SoulsOfStart
    <2> QED
        BY <1>4, <2>1, <2>3 DEF OnRollFor, t
<1>9. \A w \in Wanderers : w # v => saved'[w] = saved[w] /\ full(w) = OnRollFor(w)
    BY <1>3, <1>5, <1>7 DEF RollsKept
<1>10. ASSUME NEW w \in Wanderers PROVE Alike(saved'[w], OnRollFor(w)')
    <2> DEFINE a == saved[w]  b == OnRollFor(w)  c == OnRollFor(w)'
    <2>1. a \in Seq(Nat) /\ b \in Seq(Nat) /\ c \in Seq(Nat) /\ Alike(a, b)
        BY <1>7 DEF RollsKept, RollsTold
    <2>2. PICK rest \in Seq(Nat) : full(w) = c \o rest
        BY <1>8
    <2>3. CASE w # v
        <3>1. saved'[w] = a /\ c \o rest = b
            BY <1>9, <2>2, <2>3
        <3> HIDE DEF a, b, c
        <3>2. Alike(a, c)
            BY <2>1, <2>2, <3>1, AlikeStart
        <3> QED
            BY <3>1, <3>2 DEF c
    <2>4. CASE w = v /\ (v \in Remembered \/ Cardinality(Remembered) < MaxSavedPlayers)
        <3> DEFINE m == AtMost(Len(news) + Len(a), MaxSaved)  d == news \o a
        <3>1. saved'[w] = SubSeq(d, 1, m)
            BY <1>5, <2>4 DEF RollsKept, Pushed
        <3>2. d \in Seq(Nat) /\ m \in 0 .. Len(d)
            BY <1>1, <2>1, RollAssumption DEF AtMost
        <3>3. c \o rest = news \o b
            BY <1>3, <2>2, <2>4
        <3> HIDE DEF a, b, c, m
        <3>4. Alike(d, news \o b) /\ news \o b \in Seq(Nat)
            BY <1>1, <2>1, AlikeConcat
        <3> HIDE DEF d
        <3>5. Alike(d, c)
            BY <2>1, <2>2, <3>2, <3>3, <3>4, AlikeStart
        <3>6. Alike(SubSeq(d, 1, m), c)
            BY <2>1, <3>2, <3>5, AlikeCut
        <3> QED
            BY <3>1, <3>6 DEF c
    <2>5. CASE w = v /\ ~ (v \in Remembered \/ Cardinality(Remembered) < MaxSavedPlayers)
        <3>1. saved'[w] = <<>>
            BY <1>5, <2>5 DEF Remembered
        <3> QED
            BY <3>1 DEF Alike
    <2> QED
        BY <2>3, <2>4, <2>5
<1>11. ASSUME NEW w \in Wanderers, w \notin Remembered'
       PROVE  OnRollFor(w)' = <<>> \/ ~ (Cardinality(Remembered') < MaxSavedPlayers)
    <2>1. v \in Remembered \/ Cardinality(Remembered) < MaxSavedPlayers => saved'[v] # <<>>
        <3> DEFINE a == saved[v]  m == AtMost(Len(news) + Len(a), MaxSaved)  d == news \o a
        <3>1. d \in Seq(Nat) /\ m \in 1 .. Len(d)
            BY <1>1, RollAssumption DEF AtMost, RollsKept
        <3> HIDE DEF d, m
        <3>2. SubSeq(d, 1, m) # <<>>
            BY <3>1
        <3> QED
            BY <1>5, <3>2 DEF d, m, Pushed, RollsKept
    <2>2. CASE Cardinality(Remembered) < MaxSavedPlayers
        <3>1. w # v
            BY <1>11, <2>1, <2>2 DEF Remembered
        <3>2. OnRollFor(w) = <<>>
            BY <1>9, <1>11, <2>2, <3>1 DEF RollsTold, Remembered
        <3>3. PICK rest \in Seq(Nat) : OnRollFor(w)' \o rest = <<>>
            BY <1>8, <1>9, <3>1, <3>2
        <3> DEFINE c == OnRollFor(w)'
        <3>4. c \in Seq(Nat)
            BY <1>7
        <3> HIDE DEF c
        <3>5. c = <<>>
            BY <3>3, <3>4, ConcatEqualIffEmpty DEF c
        <3> QED
            BY <3>5 DEF c
    <2>3. CASE ~ (Cardinality(Remembered) < MaxSavedPlayers)
        <3>1. \A x \in Wanderers : saved'[x] # <<>> <=> saved[x] # <<>>
            BY <1>5, <1>9, <2>1, <2>3 DEF Remembered
        <3>2. Remembered' = Remembered
            BY <3>1 DEF Remembered
        <3> QED
            BY <2>3, <3>2
    <2> QED
        BY <2>2, <2>3
<1> QED
    BY <1>10, <1>11 DEF RollsTold

\* No step takes from either roll of somebody, or adds, so that they tell differently.
THEOREM StepTold == RollsKept /\ RollsTold /\ [Next]_vars => RollsTold'
<1> SUFFICES ASSUME RollsKept, RollsTold, [Next]_vars PROVE RollsTold'
    OBVIOUS
<1>1. CASE UNCHANGED <<rescued, saved>>
    BY <1>1 DEF RollsTold, OnRollFor, Remembered
<1>2. ASSUME NEW w \in Wanderers, FreeHoldingPit(w) PROVE RollsTold'
    BY <1>2, EmitTold DEF FreeHoldingPit
<1>3. ASSUME NEW w \in Wanderers, NEW c \in Cages, OpenCage(w, c) PROVE RollsTold'
    <2>1. PICK k \in Groups : EmitRescued(w, k)
        BY <1>3 DEF OpenCage
    <2> QED
        BY <2>1, EmitTold, GroupAssumption
<1>4. CASE Crash
    <2>1. rescued' = <<>> /\ \A w \in Wanderers : saved'[w] = <<>>
        BY <1>4 DEF Crash
    <2>2. \A w \in Wanderers : OnRollFor(w)' = <<>>
        BY <2>1, SoulsEmpty DEF OnRollFor
    <2> QED
        BY <2>1, <2>2 DEF RollsTold, Alike
<1> QED
    BY <1>1, <1>2, <1>3, <1>4 DEF Next, Rescues, rescueVars, vars

\* The roll of the world and the dreams of who is remembered tell of the same
\* souls in the same order, as far as both reach, whatever they hold and
\* whoever pushes the oldest out (record_rescued, remember_saved).
THEOREM RollsTellTheSame == Spec => []RollsAgree
<1>1. Init => RollsTold
    <2> SUFFICES ASSUME Init PROVE RollsTold
        OBVIOUS
    <2>1. rescued = <<>> /\ \A w \in Wanderers : saved[w] = <<>>
        BY DEF Init
    <2>2. \A w \in Wanderers : OnRollFor(w) = <<>>
        BY <2>1, SoulsEmpty DEF OnRollFor
    <2> QED
        BY <2>1, <2>2 DEF RollsTold, Alike
<1>2. RollsKept /\ RollsTold /\ [Next]_vars => RollsTold'
    BY StepTold
<1>3. RollsKept /\ RollsTold => RollsAgree
    <2> SUFFICES ASSUME RollsKept, RollsTold, NEW w \in Remembered
                 PROVE  IsPrefix(saved[w], OnRollFor(w)) \/ IsPrefix(OnRollFor(w), saved[w])
        BY DEF RollsAgree
    <2>1. saved[w] \in Seq(Nat) /\ OnRollFor(w) \in Seq(Nat) /\ Alike(saved[w], OnRollFor(w))
        BY SoulsType DEF RollsKept, RollsTold, Remembered, OnRollFor
    <2> QED
        BY <2>1, AlikePrefix
<1>4. RescueInv => RollsKept
    BY DEF RescueInv
<1>5. Spec => []RescueInv
    BY RescueInvariant
<1> QED
    BY <1>1, <1>2, <1>3, <1>4, <1>5, PTL DEF Spec

=============================================================================
