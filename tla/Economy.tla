------------------------------ MODULE Economy ------------------------------
(***************************************************************************)
(* Gold and things: the caches of aid in the rooms, gifts between          *)
(* wanderers, the dealer, the tinker and the market, and what a crash      *)
(* leaves of them.  A thing is told apart from others of its kind, which   *)
(* the code does not do, so that a property can say that there is one of   *)
(* it.                                                                     *)
(*                                                                         *)
(* The world is on its own: a hub may overwrite gold at a login, which is  *)
(* in Identity.  A name has one session, and a save does not fail.         *)
(***************************************************************************)
EXTENDS Integers, FiniteSets, FiniteSetsExt

CONSTANTS
    Wanderers,          \* names
    Rooms,              \* rooms told apart: where one starts and where one trades
    Sums,               \* amounts of gold to leave, steal or forage
    MaxPack,            \* HG_MAX_INVENTORY
    MaxDeeds, MaxLogins \* bounds on what players do

ASSUME FiniteAssumption == IsFiniteSet(Wanderers) /\ IsFiniteSet(Rooms)
ASSUME PackAssumption == MaxPack \in Nat \ {0}
ASSUME SumAssumption == Sums \subseteq Nat \ {0}
ASSUME RoomAssumption ==
    {"nexus", "tavern", "workshop", "market", "holding_pit"} \subseteq Rooms
ASSUME BoundAssumption == MaxDeeds \in Nat /\ MaxLogins \in Nat

\* items[]: what the market gives for each kind.
Value == [shiv |-> 5, rebar |-> 10, helm |-> 6, plating |-> 3,
          charm |-> 0, radcell |-> 12, antidote |-> 0, dust |-> 2]
Kinds == DOMAIN Value

\* k_tinker_stock
Price == [helm |-> 14, plating |-> 18, rebar |-> 20]
HG_DUST_COST == 10
InitialGold == 20

\* The no-th thing that came into the world in the hands of "to".
Thing == [kind : Kinds, to : Wanderers, no : Nat]
Character == [room : Rooms, gold : Int, pack : SUBSET Thing]

VARIABLES
    online,         \* who is playing
    char,           \* their session's character
    row,            \* the local store
    caches,         \* server->caches: gold by room
    issued,         \* how many things each has brought into the world
    gone,           \* things sold or used up
    wealth,         \* what the gold in the world should add up to
    deeds, logins   \* how much of the bounds has been used

vars == <<online, char, row, caches, issued, gone, wealth, deeds, logins>>

Nobody == [room |-> "nexus", gold |-> 0, pack |-> {}]

TypeOK ==
    /\ online \in [Wanderers -> BOOLEAN]
    /\ char \in [Wanderers -> Character]
    /\ row \in [Wanderers -> Character]
    /\ \A w \in Wanderers : \A c \in {char[w], row[w]} :
          /\ c.gold >= 0
          /\ IsFiniteSet(c.pack) /\ Cardinality(c.pack) <= MaxPack
    /\ caches \in [Rooms -> Nat]
    /\ issued \in [Wanderers -> Nat]
    /\ gone \subseteq Thing
    /\ deeds \in Nat /\ logins \in Nat

\* hg_character_new
Newcomer(w) ==
    [room |-> "nexus", gold |-> InitialGold,
     pack |-> {[kind |-> "shiv", to |-> w, no |-> 0]}]

Init ==
    /\ online = [w \in Wanderers |-> FALSE]
    /\ char = [w \in Wanderers |-> Nobody]
    /\ row = [w \in Wanderers |-> Newcomer(w)]
    /\ caches = [r \in Rooms |-> 0]
    /\ issued = [w \in Wanderers |-> 1]
    /\ gone = {}
    /\ wealth = InitialGold * Cardinality(Wanderers)
    /\ deeds = 0 /\ logins = 0

-----------------------------------------------------------------------------
(* Sessions. *)

Fresh(w, k) == [kind |-> k, to |-> w, no |-> issued[w]]

Issue(w) == issued' = [issued EXCEPT ![w] = @ + 1]

\* character_from_json: an empty pack is filled with a shiv, in memory only.
Login(w) ==
    /\ ~online[w] /\ logins < MaxLogins
    /\ \/ row[w].pack # {} /\ char' = [char EXCEPT ![w] = row[w]] /\ UNCHANGED issued
       \/ /\ row[w].pack = {} /\ Issue(w)
          /\ char' = [char EXCEPT ![w] = [row[w] EXCEPT !.pack = {Fresh(w, "shiv")}]]
    /\ online' = [online EXCEPT ![w] = TRUE]
    /\ logins' = logins + 1
    /\ UNCHANGED <<row, caches, gone, wealth, deeds>>

\* LWS_CALLBACK_CLOSED
Close(w) ==
    /\ online[w]
    /\ row' = [row EXCEPT ![w] = char[w]]
    /\ online' = [online EXCEPT ![w] = FALSE]
    /\ char' = [char EXCEPT ![w] = Nobody]
    /\ UNCHANGED <<caches, issued, gone, wealth, deeds, logins>>

\* The process ends without its closes: with memory go the caches.
LoseMemory ==
    /\ online' = [w \in Wanderers |-> FALSE]
    /\ char' = [w \in Wanderers |-> Nobody]
    /\ caches' = [r \in Rooms |-> 0]
    /\ wealth' = wealth - MapThenSumSet(LAMBDA r : caches[r], Rooms)

Crash ==
    /\ LoseMemory
    /\ UNCHANGED <<row, issued, gone, deeds, logins>>

\* What most verbs do: the character changes and the row follows.
Become(w, c) ==
    /\ online[w]
    /\ char' = [char EXCEPT ![w] = c]
    /\ row' = [row EXCEPT ![w] = c]
    /\ UNCHANGED <<online, logins>>

\* handle_play, a step through an exit.
Walk(w, r) ==
    /\ r # char[w].room
    /\ Become(w, [char[w] EXCEPT !.room = r])
    /\ UNCHANGED <<caches, issued, gone, wealth, deeds>>

Does == deeds < MaxDeeds /\ deeds' = deeds + 1

-----------------------------------------------------------------------------
(* Gold. *)

\* Mutant of Cache: the row is not written.
CacheUnsaved(w, n) ==
    /\ Does /\ online[w] /\ char[w].gold >= n
    /\ char' = [char EXCEPT ![w].gold = @ - n]
    /\ caches' = [caches EXCEPT ![char[w].room] = @ + n]
    /\ UNCHANGED <<online, row, issued, gone, wealth, logins>>

\* cmd_cache.  add_cache has a place for every room of the world.
Cache(w, n) ==
    /\ Does /\ char[w].gold >= n
    /\ Become(w, [char[w] EXCEPT !.gold = @ - n])
    /\ caches' = [caches EXCEPT ![char[w].room] = @ + n]
    /\ UNCHANGED <<issued, gone, wealth>>

\* Mutant of Gather: saved before the gold is added.
GatherSavedFirst(w) ==
    /\ Does /\ online[w]
    /\ LET here == caches[char[w].room] IN
       /\ here > 0
       /\ char' = [char EXCEPT ![w].gold = @ + here]
       /\ row' = [row EXCEPT ![w] = char[w]]
    /\ caches' = [caches EXCEPT ![char[w].room] = 0]
    /\ UNCHANGED <<online, issued, gone, wealth, logins>>

\* cmd_gather, take_cache
Gather(w) ==
    /\ Does
    /\ LET here == caches[char[w].room] IN
       here > 0 /\ Become(w, [char[w] EXCEPT !.gold = @ + here])
    /\ caches' = [caches EXCEPT ![char[w].room] = 0]
    /\ UNCHANGED <<issued, gone, wealth>>

\* Coin from nowhere: "steal" in the market, and the abilities of two races.
Earn(w, n) ==
    /\ Does
    /\ Become(w, [char[w] EXCEPT !.gold = @ + n])
    /\ wealth' = wealth + n
    /\ UNCHANGED <<caches, issued, gone>>

-----------------------------------------------------------------------------
(* Things. *)

\* Mutant of HasRoom: a full pack is not refused.
HasRoomAlways(c) == Cardinality(c.pack) <= MaxPack

\* hg_character_add_item refuses a full pack.
HasRoom(c) == Cardinality(c.pack) < MaxPack

With(c, t) == [c EXCEPT !.pack = @ \cup {t}]
Without(c, t) == [c EXCEPT !.pack = @ \ {t}]

\* Mutant of GiveSaves: the target is saved first.
GiveSavesSwapped(f, s, t) ==
    \/ /\ char' = [char EXCEPT ![f] = Without(@, t), ![s] = With(@, t)]
       /\ row' = [row EXCEPT ![f] = Without(char[f], t), ![s] = With(char[s], t)]
       /\ UNCHANGED <<online, caches, wealth>>
    \/ row' = [row EXCEPT ![s] = With(char[s], t)] /\ LoseMemory

\* The two saves of a gift; the process may die between them.
GiveSaves(f, s, t) ==
    \/ /\ char' = [char EXCEPT ![f] = Without(@, t), ![s] = With(@, t)]
       /\ row' = [row EXCEPT ![f] = Without(char[f], t), ![s] = With(char[s], t)]
       /\ UNCHANGED <<online, caches, wealth>>
    \/ row' = [row EXCEPT ![f] = Without(char[f], t)] /\ LoseMemory

\* cmd_give
Give(f, s) ==
    /\ Does /\ online[f] /\ online[s] /\ f # s
    /\ char[s].room = char[f].room /\ HasRoom(char[s])
    /\ \E t \in char[f].pack : GiveSaves(f, s, t)
    /\ UNCHANGED <<issued, gone, logins>>

\* cmd_buy in the tavern: the dealer keeps the gold when the pack is full.
BuyDust(w) ==
    /\ Does /\ char[w].room = "tavern"
    /\ char[w].gold >= HG_DUST_COST
    /\ LET paid == [char[w] EXCEPT !.gold = @ - HG_DUST_COST] IN
       \/ HasRoom(paid) /\ Become(w, With(paid, Fresh(w, "dust"))) /\ Issue(w)
       \/ ~HasRoom(paid) /\ Become(w, paid) /\ UNCHANGED issued
    /\ wealth' = wealth - HG_DUST_COST
    /\ UNCHANGED <<caches, gone>>

\* cmd_buy in the workshop.
Buy(w, k) ==
    /\ Does /\ char[w].room = "workshop"
    /\ char[w].gold >= Price[k] /\ HasRoom(char[w])
    /\ Become(w, [With(char[w], Fresh(w, k)) EXCEPT !.gold = @ - Price[k]])
    /\ Issue(w)
    /\ wealth' = wealth - Price[k]
    /\ UNCHANGED <<caches, gone>>

\* cmd_sell_item: what has a value, at the price for an ally or for others.
Sell(w, t) ==
    /\ Does /\ char[w].room = "market" /\ t \in char[w].pack
    /\ Value[t.kind] > 0
    /\ \E paid \in {Value[t.kind], (Value[t.kind] * 12) \div 10} :
          /\ Become(w, [Without(char[w], t) EXCEPT !.gold = @ + paid])
          /\ wealth' = wealth + paid
    /\ gone' = gone \cup {t}
    /\ UNCHANGED <<caches, issued>>

\* cmd_use: only dust can be used.
Use(w, t) ==
    /\ Does /\ t \in char[w].pack /\ t.kind = "dust"
    /\ Become(w, Without(char[w], t))
    /\ gone' = gone \cup {t}
    /\ UNCHANGED <<caches, issued, wealth>>

\* A reward to who has none like it: cmd_defend gives the charm,
\* free_holding_pit the antidote.  With a full pack it is not given.
Reward(w, k) ==
    /\ Does
    /\ <<k, char[w].room>> \in {<<"charm", "market">>, <<"antidote", "holding_pit">>}
    /\ \A t \in char[w].pack : t.kind # k
    /\ HasRoom(char[w]) /\ Become(w, With(char[w], Fresh(w, k)))
    /\ Issue(w)
    /\ UNCHANGED <<caches, gone, wealth>>

-----------------------------------------------------------------------------

Next ==
    \/ Crash
    \/ \E w \in Wanderers :
          \/ Login(w) \/ Close(w)
          \/ \E r \in Rooms : Walk(w, r)
          \/ \E n \in Sums : Cache(w, n) \/ Earn(w, n)
          \/ Gather(w) \/ BuyDust(w)
          \/ \E k \in DOMAIN Price : Buy(w, k)
          \/ \E t \in char[w].pack : Sell(w, t) \/ Use(w, t)
          \/ Reward(w, "charm") \/ Reward(w, "antidote")
          \/ \E s \in Wanderers : Give(w, s)

Spec == Init /\ [][Next]_vars

-----------------------------------------------------------------------------
(* Properties. *)

\* What is w's in memory or on disk.
Held(w) == char[w].pack \cup row[w].pack

\* No thing is in two hands, in memory or on disk, nor comes back once sold or
\* used, whatever is given on, and wherever the process dies.  (cmd_give saves
\* the giver first, so that a crash between its saves can lose a thing but
\* not double it; every trade is saved.)
OnePlace ==
    /\ \A v, w \in Wanderers : v # w => Held(v) \cap Held(w) = {}
    /\ \A w \in Wanderers : Held(w) \cap gone = {}

\* The character that counts: the session's, or without one the row.
Self(w) == IF online[w] THEN char[w] ELSE row[w]

\* The gold people have and the gold in caches is what came in less what was
\* paid and what went down with the caches; a crash neither makes nor takes
\* any other gold.  (cmd_cache, cmd_gather, cmd_buy, cmd_sell_item.)
GoldAccounted ==
    wealth = MapThenSumSet(LAMBDA w : Self(w).gold, Wanderers)
           + MapThenSumSet(LAMBDA r : caches[r], Rooms)

\* All the aid in r goes to someone who stands there, and whose row has it.
Found(r) ==
    /\ caches'[r] = 0
    /\ \E w \in Wanderers :
          /\ online[w] /\ char[w].room = r
          /\ row'[w].gold = char[w].gold + caches[r]

ProcessEnds == \A w \in Wanderers : ~online'[w]

\* Aid waits for whoever comes: it leaves a room only as a whole, to someone
\* who stands there and whose row has it, unless the process ends.
\* (cmd_gather, take_cache.)
AidWaits ==
    [][\A r \in Rooms : caches'[r] < caches[r] => Found(r) \/ ProcessEnds]_vars

=============================================================================
