------------------------------- MODULE Combat -------------------------------
(***************************************************************************)
(* Creatures shared by all sessions, fought by each on its own heartbeat:  *)
(* attack, the round of a tick, the kill, death, rest and healing, and the *)
(* return of the killed.  Time is in seconds and passes in strides longer  *)
(* than a heartbeat.                                                       *)
(*                                                                         *)
(* What one wields and one's level are in Might; whether one rests or      *)
(* stands is left open until a tick finds one resting; the fallen are in   *)
(* Ledger; a hub's sheet, which may overwrite xp, is in Identity.  A name  *)
(* has one session, and a save does not fail.                              *)
(***************************************************************************)
EXTENDS WorldMap

CONSTANTS
    Wanderers,      \* names
    Places,         \* the rooms told apart
    MaxHp,          \* max_hp of each wanderer
    Might,          \* player_damage of each
    Cures,          \* hit points that rest (2), the medic, an ability or dust may give
    Strides,        \* lapses of time
    MaxNow, MaxXp   \* bounds on time and on the xp with which one still attacks

ASSUME PlaceAssumption == Start \in Places /\ Places \subseteq RoomIds
ASSUME StrengthAssumption ==
    MaxHp \in [Wanderers -> Nat \ {0}] /\ Might \in [Wanderers -> Nat \ {0}]
ASSUME CureAssumption == Cures \subseteq Nat
ASSUME TimeAssumption == Strides \subseteq Nat \ {0} /\ MaxNow \in Nat /\ MaxXp \in Nat

\* The creatures of those rooms.
Creatures == {m \in DOMAIN Seed : Seed[m].room \in Places}

\* The target of who is not fighting.
None == "none"
ASSUME NoneAssumption == None \notin DOMAIN Seed

Character == [room : Places, hp : Int, xp : Nat, vial : BOOLEAN]

VARIABLES
    now,            \* time(NULL)
    due,            \* who has a heartbeat to come before time goes on
    online,         \* who is playing
    char,           \* their session's character
    row,            \* the local store
    target,         \* session->target
    mob,            \* server->world.mobs
    slainAt         \* server->warden_slain_at, 0 for never

combatVars == <<now, due, online, char, row, target, mob, slainAt>>

Mob == [alive : BOOLEAN, hp : Nat, diedAt : Nat]

Fresh(m) == [alive |-> TRUE, hp |-> Seed[m].hp, diedAt |-> 0]

CombatTypeOK ==
    /\ now \in Nat \ {0}
    /\ due \subseteq Wanderers
    /\ online \in [Wanderers -> BOOLEAN]
    /\ char \in [Wanderers -> Character]
    /\ row \in [Wanderers -> Character]
    /\ target \in [Wanderers -> Creatures \cup {None}]
    /\ mob \in [Creatures -> Mob]
    /\ slainAt \in 0 .. now
    /\ \A m \in Creatures : mob[m].diedAt <= now /\ mob[m].hp <= Seed[m].hp

\* hg_character_new
Newcomer(w) ==
    [room |-> Start, hp |-> MaxHp[w], xp |-> 0, vial |-> FALSE]

\* Rows from before: people who left the world whole, each in some room.
CombatInit ==
    /\ now = 1 /\ due = {} /\ slainAt = 0
    /\ online = [w \in Wanderers |-> FALSE]
    /\ row \in {r \in [Wanderers -> {[Newcomer(w) EXCEPT !.room = p] :
                                        w \in Wanderers, p \in Places}] :
                   \A w \in Wanderers : r[w].hp = MaxHp[w]}
    /\ char = [w \in Wanderers |-> Newcomer(w)]
    /\ target = [w \in Wanderers |-> None]
    /\ mob = [m \in Creatures |-> Fresh(m)]

-----------------------------------------------------------------------------
(* Time and the return of the killed. *)

\* Mutant of Returns: the living are made whole with the dead.
ReturnsWhole(m) == Seed[m].respawn > 0 /\ now - mob[m].diedAt >= Seed[m].respawn

Returns(m) ==
    /\ ~mob[m].alive /\ Seed[m].respawn > 0
    /\ now - mob[m].diedAt >= Seed[m].respawn

\* hg_world_tick_respawns, the first thing a tick and a command do.
TickRespawns == [m \in Creatures |-> IF Returns(m) THEN Fresh(m) ELSE mob[m]]

Respawn == mob' = TickRespawns

Playing == {w \in Wanderers : online[w]}

\* A stride is longer than the heartbeat, so each session ticks in it, and
\* those in a fight after the kill of another.
LetTimePass(d) ==
    /\ due = {} /\ now + d <= MaxNow
    /\ now' = now + d
    /\ due' = Playing
    /\ UNCHANGED <<online, char, row, target, mob, slainAt>>

-----------------------------------------------------------------------------
(* The heartbeat. *)

\* hg_world_mob_in_room
MobInRoom(mobs, r, m) == m \in Creatures /\ mobs[m].alive /\ Seed[m].room = r

\* Mutant of Gone: one goes on waiting for the quarry.
GoneWaits(w, mobs) ==
    /\ mob' = mobs /\ due' = due \ {w}
    /\ UNCHANGED <<char, row, target, slainAt>>

\* The quarry is gone: one stands down.
Gone(w, mobs) ==
    /\ target' = [target EXCEPT ![w] = None]
    /\ mob' = mobs /\ due' = due \ {w}
    /\ UNCHANGED <<char, row, slainAt>>

\* Mutant of Kill: the reward is not saved.
KillUnsaved(w, m, mobs) ==
    /\ char' = [char EXCEPT ![w].xp = @ + Seed[m].xp]
    /\ mob' = [mobs EXCEPT ![m] = [alive |-> FALSE, hp |-> 0, diedAt |-> now]]
    /\ slainAt' = IF m = "warden" THEN now ELSE slainAt
    /\ target' = [target EXCEPT ![w] = None]
    /\ due' = Playing \ {w}
    /\ UNCHANGED row

\* Everyone else has a tick to come before time goes on.
Kill(w, m, mobs) ==
    /\ char' = [char EXCEPT ![w].xp = @ + Seed[m].xp]
    /\ row' = [row EXCEPT ![w] = char'[w]]
    /\ mob' = [mobs EXCEPT ![m] = [alive |-> FALSE, hp |-> 0, diedAt |-> now]]
    /\ slainAt' = IF m = "warden" THEN now ELSE slainAt
    /\ target' = [target EXCEPT ![w] = None]
    /\ due' = Playing \ {w}

\* Mutant of Die: one comes back as one fell.
DieUnhealed(w) ==
    /\ char' = [char EXCEPT ![w] = [@ EXCEPT !.hp = @ - 5, !.room = Start]]
    /\ target' = [target EXCEPT ![w] = None]

\* Reknit at the Nexus, in memory: the row stays where it was.
Die(w) ==
    /\ char' = [char EXCEPT ![w] = [@ EXCEPT !.hp = MaxHp[w], !.room = Start]]
    /\ target' = [target EXCEPT ![w] = None]

\* combat_round: who is struck and lives strikes back.
Strike(w, m, mobs) ==
    LET left == mobs[m].hp - Might[w]
        hurt == char[w].hp - Seed[m].damage
    IN
    \/ left <= 0 /\ Kill(w, m, mobs)
    \/ /\ left > 0
       /\ mob' = [mobs EXCEPT ![m].hp = left] /\ due' = due \ {w}
       /\ \/ hurt > 0 /\ char' = [char EXCEPT ![w].hp = hurt] /\ UNCHANGED target
          \/ hurt <= 0 /\ Die(w)
       /\ UNCHANGED <<row, slainAt>>

AtMost(n, cap) == IF n > cap THEN cap ELSE n

Cured(w, c) == [char EXCEPT ![w].hp = AtMost(@ + c, MaxHp[w])]

\* on_tick without a target: who rests gains a little.
Rests(w, mobs) ==
    /\ \/ UNCHANGED char
       \/ \E c \in Cures : char' = Cured(w, c)
    /\ mob' = mobs /\ due' = due \ {w}
    /\ UNCHANGED <<row, target, slainAt>>

\* on_tick
Tick(w) ==
    /\ online[w]
    /\ LET mobs == TickRespawns  m == target[w] IN
       \/ m = None /\ Rests(w, mobs)
       \/ m # None /\ ~MobInRoom(mobs, char[w].room, m) /\ Gone(w, mobs)
       \/ m # None /\ MobInRoom(mobs, char[w].room, m) /\ Strike(w, m, mobs)
    /\ UNCHANGED <<now, online>>

-----------------------------------------------------------------------------
(* What players do. *)

\* finish_login, finish_login_playing
Login(w) ==
    /\ ~online[w]
    /\ online' = [online EXCEPT ![w] = TRUE]
    /\ char' = [char EXCEPT ![w] = row[w]]
    /\ due' = due \cup {w}
    /\ UNCHANGED <<now, row, target, mob, slainAt>>

\* LWS_CALLBACK_CLOSED: the fight goes with the session.
Close(w) ==
    /\ online[w]
    /\ online' = [online EXCEPT ![w] = FALSE]
    /\ row' = [row EXCEPT ![w] = char[w]]
    /\ char' = [char EXCEPT ![w] = Newcomer(w)]
    /\ target' = [target EXCEPT ![w] = None]
    /\ due' = due \ {w}
    /\ UNCHANGED <<now, mob, slainAt>>

\* Any command; its first line.
Commands(w) ==
    /\ online[w]
    /\ Respawn
    /\ UNCHANGED <<now, due, online, slainAt>>

\* handle_play, "attack"
Attack(w, m) ==
    /\ Commands(w)
    /\ target[w] = None /\ char[w].xp < MaxXp
    /\ MobInRoom(TickRespawns, char[w].room, m)
    /\ target' = [target EXCEPT ![w] = m]
    /\ UNCHANGED <<char, row>>

\* cmd_ability heals in memory; cmd_treat, and dust in cmd_use, are saved.
Heal(w) ==
    /\ Commands(w)
    /\ \E c \in Cures : char' = Cured(w, c)
    /\ \/ UNCHANGED row
       \/ row' = [row EXCEPT ![w] = char'[w]]
    /\ UNCHANGED target

\* Any other verb that saves w, w's own or another's (cmd_give, cmd_forgive).  A
\* vial may be given away, sold or drunk; that one is given to w is left out.
Save(w) ==
    /\ Commands(w)
    /\ \E v \in {char[w].vial, FALSE} : char' = [char EXCEPT ![w].vial = v]
    /\ row' = [row EXCEPT ![w] = char'[w]]
    /\ UNCHANGED target

\* Mutant of Walk: one may walk out of a fight.
WalkAway(w, r) ==
    /\ Commands(w)
    /\ r \in Beyond(char[w].room) \cap Places
    /\ char' = [char EXCEPT ![w].room = r]
    /\ row' = [row EXCEPT ![w] = char'[w]]
    /\ UNCHANGED target

\* A step through an exit: refused in a fight, and saved.
Walk(w, r) ==
    /\ Commands(w)
    /\ target[w] = None
    /\ r \in Beyond(char[w].room) \cap Places
    /\ char' = [char EXCEPT ![w].room = r]
    /\ row' = [row EXCEPT ![w] = char'[w]]
    /\ UNCHANGED target

\* "recall": the way out of a fight, and not saved.
Recall(w) ==
    /\ Commands(w)
    /\ char' = [char EXCEPT ![w].room = Start]
    /\ target' = [target EXCEPT ![w] = None]
    /\ UNCHANGED row

\* The process ends without its closes; the next one seeds the creatures anew.
Forget ==
    /\ online' = [w \in Wanderers |-> FALSE]
    /\ char' = [w \in Wanderers |-> Newcomer(w)]
    /\ target' = [w \in Wanderers |-> None]
    /\ mob' = [m \in Creatures |-> Fresh(m)]
    /\ slainAt' = 0 /\ due' = {}
    /\ UNCHANGED <<now, row>>

CombatNext ==
    \/ \E d \in Strides : LetTimePass(d)
    \/ \E w \in Wanderers :
          \/ Login(w) \/ Close(w) \/ Tick(w)
          \/ \E m \in Creatures : Attack(w, m)
          \/ Heal(w) \/ Save(w)
          \/ \E r \in Places : Walk(w, r)
          \/ Recall(w)

-----------------------------------------------------------------------------
(* Properties. *)

\* Whoever fights is playing, in the room of the quarry: every way out of a room,
\* death too, ends the fight or is refused.  (attack, an exit, recall,
\* combat_round, close.)
FightersFace ==
    \A w \in Wanderers : target[w] # None =>
        online[w] /\ char[w].room = Seed[target[w]].room

\* Nobody is dead, in memory or on disk, whoever's verb saves them and however
\* the round goes.  (combat_round heals before anything can save.)
NobodyDead ==
    \A w \in Wanderers : char[w].hp \in 1 .. MaxHp[w] /\ row[w].hp \in 1 .. MaxHp[w]

Dies(m) == mob[m].alive /\ ~mob'[m].alive

\* One kill, one reward, on disk at once: who slew a creature has its xp in the
\* row, nobody else's row gains, and no row gains without a kill, however many
\* fight it on their heartbeats.  (combat_round.)
OneReward ==
    [][/\ \A m \in Creatures : Dies(m) =>
             \E w \in Wanderers :
                 /\ target[w] = m /\ row'[w].xp = row[w].xp + Seed[m].xp
                 /\ \A v \in Wanderers \ {w} : row'[v].xp = row[v].xp
       /\ \A w \in Wanderers : row'[w].xp # row[w].xp => \E m \in Creatures : Dies(m)
      ]_combatVars

\* A creature that comes back finds nobody still fighting it: those who lost it
\* to another's blow have stood down.  (combat_round, on_tick.)
NobodyWaits ==
    [][\A m \in Creatures : ~mob[m].alive /\ mob'[m].alive =>
          \A w \in Wanderers : ~(target[w] = m /\ target'[w] = m)]_combatVars

\* A fight ends, for a creature does not heal while it lives.
FightEnds == \A w \in Wanderers : target[w] # None ~> target[w] = None

=============================================================================
