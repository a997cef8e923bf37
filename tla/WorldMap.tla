------------------------------ MODULE WorldMap ------------------------------
(***************************************************************************)
(* The rooms of world.c, the ways between them and the creatures it seeds. *)
(* Names, descriptions and the actions a room advertises are left out.     *)
(***************************************************************************)
EXTENDS Integers, FiniteSets

HG_MAX_EXITS == 5

\* rooms[].exits: <<from, direction, destination>>.
Exits == {
    <<"nexus", "north", "market">>, <<"nexus", "east", "workshop">>,
    <<"nexus", "down", "tunnels">>, <<"nexus", "west", "tavern">>,
    <<"tavern", "east", "nexus">>,
    <<"market", "south", "nexus">>, <<"market", "north", "holding_pit">>,
    <<"holding_pit", "south", "market">>,
    <<"workshop", "west", "nexus">>, <<"workshop", "up", "roof">>,
    <<"roof", "down", "workshop">>, <<"roof", "north", "dunes">>,
    <<"roof", "west", "coil-yard">>,
    <<"tunnels", "up", "nexus">>, <<"tunnels", "down", "sump">>,
    <<"sump", "up", "tunnels">>, <<"sump", "down", "floodgate">>,
    <<"floodgate", "up", "sump">>, <<"floodgate", "north", "coldrow">>,
    <<"coldrow", "south", "floodgate">>,
    <<"dunes", "south", "roof">>, <<"dunes", "east", "scorch_road">>,
    <<"dunes", "north", "checkpoint">>,
    <<"scorch_road", "west", "dunes">>, <<"scorch_road", "east", "waystation">>,
    <<"scorch_road", "south", "transit_hub">>,
    <<"waystation", "west", "scorch_road">>, <<"transit_hub", "north", "scorch_road">>,
    <<"checkpoint", "south", "dunes">>, <<"checkpoint", "north", "gate">>,
    <<"gate", "south", "checkpoint">>, <<"gate", "north", "muster">>,
    <<"muster", "south", "gate">>, <<"muster", "west", "cells">>,
    <<"muster", "north", "warroom">>,
    <<"cells", "east", "muster">>,
    <<"warroom", "south", "muster">>, <<"warroom", "up", "dais">>,
    <<"dais", "down", "warroom">>,
    <<"coil-yard", "east", "roof">>, <<"coil-yard", "north", "bias-road">>,
    <<"bias-road", "south", "coil-yard">>, <<"bias-road", "north", "bias-checkpoint">>,
    <<"bias-road", "west", "remanence-bay">>,
    <<"bias-checkpoint", "south", "bias-road">>, <<"remanence-bay", "east", "bias-road">>}

RoomIds == {e[1] : e \in Exits}

\* hg_world_start
Start == "nexus"

\* hg_world_move, for the directions of r: where one comes out.
Beyond(r) == {e[3] : e \in {x \in Exits : x[1] = r}}

\* seed_mob: room, hit points, damage, xp, and seconds until it is back (0: never).
Seed == [
    rat       |-> [room |-> "tunnels", hp |-> 12, damage |-> 4, xp |-> 8, respawn |-> 20],
    raider    |-> [room |-> "scorch_road", hp |-> 22, damage |-> 6, xp |-> 20, respawn |-> 40],
    warden    |-> [room |-> "holding_pit", hp |-> 18, damage |-> 5, xp |-> 40, respawn |-> 60],
    leech     |-> [room |-> "coldrow", hp |-> 18, damage |-> 5, xp |-> 16, respawn |-> 30],
    trooper   |-> [room |-> "muster", hp |-> 30, damage |-> 6, xp |-> 28, respawn |-> 60],
    ashmonger |-> [room |-> "dais", hp |-> 80, damage |-> 12, xp |-> 200, respawn |-> 0]]

-----------------------------------------------------------------------------
(* The table is a constant of the program: what it must satisfy is assumed *)
(* by name and evaluated by TLC.                                           *)

Opposite == [north |-> "south", south |-> "north", east |-> "west", west |-> "east",
             up |-> "down", down |-> "up"]

\* Rooms at most n steps from the start.
Within[n \in Nat] ==
    IF n = 0 THEN {Start}
    ELSE LET near == Within[n - 1] IN near \cup UNION {Beyond(r) : r \in near}

\* An exit leads to a room, one direction to one room, and back the other way;
\* no room has more exits than fit.
ASSUME ExitAssumption ==
    \A e \in Exits :
        /\ e[3] \in RoomIds
        /\ <<e[3], Opposite[e[2]], e[1]>> \in Exits
        /\ \A f \in Exits : f[1] = e[1] /\ f[2] = e[2] => f = e
        /\ Cardinality(Beyond(e[1])) <= HG_MAX_EXITS

\* Every room can be walked to.
ASSUME ReachAssumption == RoomIds = Within[Cardinality(RoomIds)]

\* A creature lives in a room, lives, bites, and does not come back at once.
ASSUME SeedAssumption ==
    \A m \in DOMAIN Seed :
        /\ Seed[m].room \in RoomIds
        /\ Seed[m].hp \in Nat \ {0} /\ Seed[m].damage \in Nat \ {0}
        /\ Seed[m].xp \in Nat /\ Seed[m].respawn \in Nat

=============================================================================
