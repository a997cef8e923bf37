------------------------------- MODULE Rescue -------------------------------
(***************************************************************************)
(* Captives: the holding pit behind the warden, the cages that refill, and *)
(* the rolls of who was freed and by whom.  It extends Combat: the kill of *)
(* the warden is what opens the pit.                                       *)
(*                                                                         *)
(* Morality and moral_arc, which every rescue runs, are in MoralArc; how   *)
(* packs fill up is in Economy, here the pack of Laden is full.            *)
(***************************************************************************)
EXTENDS Combat, SequencesExt

CONSTANTS
    Laden,              \* wanderers whose pack has no room
    Groups,             \* how many a cage may hold: 2 or 3
    MaxRescued,         \* HG_MAX_RESCUED
    MaxSaved,           \* HG_MAX_SAVED_SOULS
    MaxSavedPlayers,    \* HG_MAX_SAVED_PLAYERS
    MaxRescues          \* bound on the rescues

ASSUME LadenAssumption == Laden \subseteq Wanderers
ASSUME GroupAssumption == Groups \subseteq 2 .. 3
ASSUME RollAssumption ==
    {MaxRescued, MaxSaved, MaxSavedPlayers} \subseteq Nat \ {0} /\ MaxRescues \in Nat

HG_WARDEN_GRACE_SEC == 180
HG_CAGE_REFILL_SEC == 240

\* Where there are cages on a timer.
Cages == {"cells", "transit_hub"} \cap Places

VARIABLES
    refillAt,       \* cells_refill_at, transit_refill_at; 0 for never
    rescues,        \* how many rescues there have been
    souls,          \* how many have been freed, ever: the last one's number
    rescued,        \* server->rescued, newest first
    saved,          \* server->saved[], a slot per player, newest first
    booted,         \* when the process started
    opened          \* how often this process let each cage be opened

rescueVars == <<refillAt, rescues, souls, rescued, saved, booted, opened>>
vars == <<now, due, online, char, row, target, mob, slainAt,
          refillAt, rescues, souls, rescued, saved, booted, opened>>

Entry == [soul : Nat, by : Wanderers]

TypeOK ==
    /\ CombatTypeOK
    /\ refillAt \in [Cages -> 0 .. now + HG_CAGE_REFILL_SEC]
    /\ rescues \in Nat /\ souls \in Nat
    /\ rescued \in Seq(Entry) /\ Len(rescued) <= MaxRescued
    /\ saved \in [Wanderers -> Seq(Nat)]
    /\ \A w \in Wanderers : Len(saved[w]) <= MaxSaved
    /\ booted \in 0 .. now
    /\ opened \in [Cages -> Nat]

Init ==
    /\ CombatInit
    /\ refillAt = [c \in Cages |-> 0]
    /\ rescued = <<>>
    /\ saved = [w \in Wanderers |-> <<>>]
    /\ opened = [c \in Cages |-> 0]
    /\ rescues = 0 /\ souls = 0 /\ booted = now

-----------------------------------------------------------------------------
(* The rolls. *)

\* Mutant of Pushed: nothing makes room.
PushedWhole(s, roll, cap) == s \o roll

\* New entries before the old ones; what does not fit is the oldest.
Pushed(s, roll, cap) == SubSeq(s \o roll, 1, AtMost(Len(s) + Len(roll), cap))

\* The next k souls, the last of them first.
NextSouls(k) == [i \in 1 .. k |-> souls + k + 1 - i]

Remembered == {w \in Wanderers : saved[w] # <<>>}

\* Mutant of RememberSaved: the new ones come after the old.
RememberSavedLast(w, k) ==
    saved' = IF w \in Remembered \/ Cardinality(Remembered) < MaxSavedPlayers
             THEN [saved EXCEPT ![w] = Pushed(@, NextSouls(k), MaxSaved)] ELSE saved

\* remember_saved: a player without a slot gets one while there are some.
RememberSaved(w, k) ==
    saved' = IF w \in Remembered \/ Cardinality(Remembered) < MaxSavedPlayers
             THEN [saved EXCEPT ![w] = Pushed(NextSouls(k), @, MaxSaved)] ELSE saved

\* emit_rescued, with record_rescued for each
EmitRescued(w, k) ==
    /\ rescues < MaxRescues /\ rescues' = rescues + 1
    /\ souls' = souls + k
    /\ rescued' = Pushed([i \in 1 .. k |-> [soul |-> NextSouls(k)[i], by |-> w]],
                         rescued, MaxRescued)
    /\ RememberSaved(w, k)

-----------------------------------------------------------------------------
(* What players do. *)

\* Mutant of WardenCleared: the return of the warden does not close the pit.
WardenClearedForGood(mobs) == ~MobInRoom(mobs, "holding_pit", "warden") \/ slainAt # 0

\* warden_cleared
WardenCleared(mobs) ==
    \/ ~MobInRoom(mobs, "holding_pit", "warden")
    \/ slainAt # 0 /\ now - slainAt < HG_WARDEN_GRACE_SEC

\* free_holding_pit: with a full pack the vial is not given.
FreeHoldingPit(w) ==
    /\ Commands(w) /\ char[w].room = "holding_pit"
    /\ WardenCleared(TickRespawns) /\ ~char[w].vial
    /\ char' = [char EXCEPT ![w].vial = w \notin Laden]
    /\ row' = [row EXCEPT ![w] = char'[w]]
    /\ EmitRescued(w, 1)
    /\ UNCHANGED <<target, refillAt, booted, opened>>

\* cages_ready
CagesReady(c) == refillAt[c] = 0 \/ now >= refillAt[c]

\* Mutant of SetCageRefill: the timer of the other cages is set.
SetCageRefillOther(c) ==
    refillAt' = [x \in Cages |-> IF x = c THEN refillAt[x] ELSE now + HG_CAGE_REFILL_SEC]

\* set_cage_refill
SetCageRefill(c) == refillAt' = [refillAt EXCEPT ![c] = now + HG_CAGE_REFILL_SEC]

\* free_cells and cmd_shelter: two or three at a time.
OpenCage(w, c) ==
    /\ Commands(w) /\ char[w].room = c
    /\ CagesReady(c) /\ SetCageRefill(c)
    /\ row' = [row EXCEPT ![w] = char[w]]
    /\ \E k \in Groups : EmitRescued(w, k)
    /\ opened' = [opened EXCEPT ![c] = @ + 1]
    /\ UNCHANGED <<char, target, booted>>

\* A new process knows of no rescue, and its cages are full.  (Bound: one crash,
\* once time has passed.)
Crash ==
    /\ booted = 1 /\ now > 1
    /\ Forget
    /\ refillAt' = [c \in Cages |-> 0]
    /\ rescued' = <<>>
    /\ saved' = [w \in Wanderers |-> <<>>]
    /\ opened' = [c \in Cages |-> 0]
    /\ booted' = now
    /\ UNCHANGED <<rescues, souls>>

Rescues ==
    \E w \in Wanderers :
        \/ FreeHoldingPit(w)
        \/ \E c \in Cages : OpenCage(w, c)

Next ==
    \/ CombatNext /\ UNCHANGED rescueVars
    \/ Rescues
    \/ Crash

\* Each session's timer is armed at login and again at the end of each tick.
Fairness == \A w \in Wanderers : WF_vars(Tick(w) /\ UNCHANGED rescueVars)

Spec == Init /\ [][Next]_vars /\ Fairness

-----------------------------------------------------------------------------
(* Properties. *)

\* The souls that a roll names w for, in its order.
SoulsBy(w, roll) ==
    FoldLeft(LAMBDA own, e : IF e.by = w THEN Append(own, e.soul) ELSE own, <<>>, roll)

\* The souls that w is on the roll of the world for.
OnRollFor(w) == SoulsBy(w, rescued)

\* The two rolls tell the same: who is remembered dreams of the souls the world's
\* roll names them for, in that order, as far as both reach.  (record_rescued,
\* remember_saved.)
RollsAgree ==
    \A w \in Remembered :
        IsPrefix(saved[w], OnRollFor(w)) \/ IsPrefix(OnRollFor(w), saved[w])

\* However many wait at a cage, it is opened once per refill: in a process that
\* has run for a time, at most once and once more per refill of that time.
\* (free_cells, cmd_shelter.)
OncePerRefill ==
    \A c \in Cages : opened[c] <= 1 + (now - booted) \div HG_CAGE_REFILL_SEC

\* The captive of the pit is freed only within the warden's grace after a kill,
\* though the dead warden is not put back until somebody does something.
\* (free_holding_pit, warden_cleared, hg_world_tick_respawns.)
FreedInGrace ==
    [][souls' > souls /\ char[Head(rescued').by].room = "holding_pit"
          => slainAt # 0 /\ now - slainAt < HG_WARDEN_GRACE_SEC]_vars

=============================================================================
