------------------------------ MODULE MoralArc ------------------------------
(***************************************************************************)
(* Standing: faction, morality, the ash-sworn brand, straying and the      *)
(* return, forgiveness.  Each verb changes the character a session holds,  *)
(* saves it, and most then run moral_arc, which may mark the character and *)
(* save it again; the process may die between the two.                     *)
(*                                                                         *)
(* Commits to the hub and the shifts of the tide are in Identity and Tide: *)
(* here a login merges the sheet of any hub, that is, one of Sheets.       *)
(* A name has one session at a time, and a save does not fail.             *)
(***************************************************************************)
EXTENDS Integers, FiniteSets

CONSTANTS
    Wanderers,      \* names
    Hunted,         \* those of a hunted race
    Rooms,          \* rooms told apart, "dais", "market" and "cells" among them
    Sheets,         \* sheets the hub may answer at a login
    MaxForgiven,    \* HG_MAX_FORGIVEN
    MaxDeeds, MaxLogins     \* bounds on what players do

Faction == {"none", "front", "ally"}
HubSheet == [faction : Faction, morality : Int, sworn : BOOLEAN]

ASSUME HuntedAssumption == Hunted \subseteq Wanderers
ASSUME RoomAssumption == {"dais", "market", "cells"} \subseteq Rooms
ASSUME CapAssumption == MaxForgiven \in Nat \ {0}
ASSUME BoundAssumption == MaxDeeds \in Nat /\ MaxLogins \in Nat

HG_MORALITY_FLOOR == -100
HG_MORALITY_CEIL == 100
HG_STRAY_FLOOR == -20
HG_REDEEM_CEIL == 5

\* A hub's sheet was committed by a world like this one.
ASSUME SheetAssumption == Sheets \subseteq {s \in HubSheet : s.morality <= HG_MORALITY_CEIL}

Character == [room : Rooms, faction : Faction, morality : Int,
              strayed : BOOLEAN, redeemed : BOOLEAN, sworn : BOOLEAN]

Newcomer == [room |-> "cells", faction |-> "none", morality |-> 0,
             strayed |-> FALSE, redeemed |-> FALSE, sworn |-> FALSE]

VARIABLES
    online,         \* who is playing
    char,           \* their session's character
    resolved,       \* session->market_resolved
    row,            \* the local store
    forgiven,       \* server->forgiven: pairs <<forgiver, subject>>
    given,          \* how often this process let each pair forgive
    grants,         \* grid.redemption events, ever
    deeds, logins   \* how much of the bounds has been used

vars == <<online, char, resolved, row, forgiven, given, grants, deeds, logins>>

Pairs == Wanderers \X Wanderers

TypeOK ==
    /\ online \in [Wanderers -> BOOLEAN]
    /\ char \in [Wanderers -> Character]
    /\ row \in [Wanderers -> Character]
    /\ \A w \in Wanderers : char[w].morality <= HG_MORALITY_CEIL
                         /\ row[w].morality <= HG_MORALITY_CEIL
    /\ resolved \in [Wanderers -> BOOLEAN]
    /\ forgiven \subseteq Pairs
    /\ given \in [Pairs -> Nat]
    /\ grants \in [Wanderers -> Nat]
    /\ deeds \in Nat /\ logins \in Nat

Init ==
    /\ online = [w \in Wanderers |-> FALSE]
    /\ row = [w \in Wanderers |-> Newcomer]
    /\ char = [w \in Wanderers |-> Newcomer]
    /\ resolved = [w \in Wanderers |-> FALSE]
    /\ forgiven = {} /\ given = [p \in Pairs |-> 0]
    /\ grants = [w \in Wanderers |-> 0]
    /\ deeds = 0 /\ logins = 0

-----------------------------------------------------------------------------
(* Sessions. *)

\* apply_hub_sheet, as far as standing goes: the brand is only ever added, and
\* what moral_arc has marked is not part of a sheet.
Apply(c, sheet) ==
    [c EXCEPT !.faction = sheet.faction,
              !.morality = sheet.morality,
              !.sworn = c.sworn \/ sheet.sworn]

Login(w) ==
    /\ ~online[w] /\ logins < MaxLogins
    /\ char' \in {[char EXCEPT ![w] = c] : c \in {row[w]} \cup {Apply(row[w], s) : s \in Sheets}}
    /\ online' = [online EXCEPT ![w] = TRUE]
    /\ logins' = logins + 1
    /\ UNCHANGED <<resolved, row, forgiven, given, grants, deeds>>

\* LWS_CALLBACK_CLOSED
Close(w) ==
    /\ online[w]
    /\ row' = [row EXCEPT ![w] = char[w]]
    /\ online' = [online EXCEPT ![w] = FALSE]
    /\ char' = [char EXCEPT ![w] = Newcomer]
    /\ resolved' = [resolved EXCEPT ![w] = FALSE]
    /\ UNCHANGED <<forgiven, given, grants, deeds, logins>>

\* The process ends without its closes: memory goes, the rows stay.
LoseMemory ==
    /\ online' = [w \in Wanderers |-> FALSE]
    /\ char' = [w \in Wanderers |-> Newcomer]
    /\ resolved' = [w \in Wanderers |-> FALSE]
    /\ forgiven' = {} /\ given' = [p \in Pairs |-> 0]

Crash ==
    /\ LoseMemory
    /\ UNCHANGED <<row, grants, deeds, logins>>

\* handle_play, a step through an exit: the row follows the room.
Walk(w, r) ==
    /\ online[w] /\ r # char[w].room
    /\ char' = [char EXCEPT ![w].room = r]
    /\ row' = [row EXCEPT ![w] = char'[w]]
    /\ UNCHANGED <<online, resolved, forgiven, given, grants, deeds, logins>>

-----------------------------------------------------------------------------
(* Deeds. *)

\* Mutant of Shift: the ceiling is forgotten.
ShiftUnclamped(c, delta) ==
    LET m == c.morality + delta IN
    [c EXCEPT !.morality = IF m < HG_MORALITY_FLOOR THEN HG_MORALITY_FLOOR ELSE m]

\* shift_morality
Shift(c, delta) ==
    LET m == c.morality + delta IN
    [c EXCEPT !.morality = IF m > HG_MORALITY_CEIL THEN HG_MORALITY_CEIL
                           ELSE IF m < HG_MORALITY_FLOOR THEN HG_MORALITY_FLOOR ELSE m]

Strays(c) == ~c.strayed /\ c.morality <= HG_STRAY_FLOOR
ComesBack(c) ==
    /\ c.strayed /\ ~c.redeemed
    /\ c.morality >= HG_REDEEM_CEIL /\ c.faction # "front"

\* moral_arc: what it marks.
Judge(c) == [c EXCEPT !.strayed = @ \/ Strays(c), !.redeemed = @ \/ ComesBack(c)]

\* resolve_return: the name is given, and the row saved.
Return(w) == grants' = [grants EXCEPT ![w] = @ + 1]

\* Mutant of MoralArc: a mark is not saved, only what the deed itself saved.
MoralArcUnsaved(w, c) ==
    /\ char' = [char EXCEPT ![w] = Judge(c)]
    /\ row' = [row EXCEPT ![w] = c]
    /\ \/ ComesBack(c) /\ ~c.sworn /\ Return(w)
       \/ ~(ComesBack(c) /\ ~c.sworn) /\ UNCHANGED grants

\* moral_arc after a deed that has saved c: marked, saved again, and named the
\* Returned unless the mark remains.
MoralArc(w, c) ==
    /\ char' = [char EXCEPT ![w] = Judge(c)]
    /\ row' = [row EXCEPT ![w] = Judge(c)]
    /\ \/ ComesBack(c) /\ ~c.sworn /\ Return(w)
       \/ ~(ComesBack(c) /\ ~c.sworn) /\ UNCHANGED grants

\* A deed makes c of the character and saves it, and moral_arc follows, unless
\* the process dies between the two.  A stand in the market resolves it.
Deed(w, c, stand) ==
    /\ deeds < MaxDeeds /\ deeds' = deeds + 1
    /\ \/ /\ MoralArc(w, c)
          /\ resolved' = [resolved EXCEPT ![w] = @ \/ stand]
          /\ UNCHANGED <<online, forgiven, given>>
       \/ /\ row' = [row EXCEPT ![w] = c]
          /\ LoseMemory
          /\ UNCHANGED grants
    /\ UNCHANGED logins

\* An oath to the Front; the hunted are branded for it.
Sworn(w, others) ==
    LET c == [char[w] EXCEPT !.faction = "front", !.sworn = @ \/ w \in Hunted] IN
    Shift(c, IF w \in Hunted THEN -40 ELSE others)

\* dais_pledge: only who stands with nobody may kneel.
DaisPledge(w) ==
    /\ online[w] /\ char[w].room = "dais"
    /\ char[w].faction = "none"
    /\ Deed(w, Sworn(w, -25), FALSE)

\* cmd_join in the market: once a session, whatever one was before.
Join(w) ==
    /\ online[w] /\ char[w].room = "market"
    /\ ~resolved[w]
    /\ Deed(w, Sworn(w, -15), TRUE)

\* cmd_defend
Defend(w) ==
    /\ online[w] /\ char[w].room = "market"
    /\ ~resolved[w]
    /\ Deed(w, Shift([char[w] EXCEPT !.faction = "ally"], 10), TRUE)

\* dais_defect: its own test for the return is the one of moral_arc.
DaisDefect(w) ==
    /\ online[w] /\ char[w].room = "dais"
    /\ char[w].faction = "front"
    /\ Deed(w, Shift([char[w] EXCEPT !.faction = "ally"], 30), FALSE)

\* cmd_free_captive, cmd_shelter
Free(w) ==
    /\ online[w] /\ char[w].room = "cells"
    /\ \E delta \in {12, 15} : Deed(w, Shift(char[w], delta), FALSE)

\* handle_play, "steal"
Steal(w) ==
    /\ online[w] /\ char[w].room = "market"
    /\ Deed(w, Shift(char[w], -8), FALSE)

\* cmd_cache, cmd_witness: a small good, saved, and not judged.
SmallGood(w) ==
    /\ online[w] /\ deeds < MaxDeeds
    /\ char' = [char EXCEPT ![w] = Shift(@, 2)]
    /\ row' = [row EXCEPT ![w] = char'[w]]
    /\ deeds' = deeds + 1
    /\ UNCHANGED <<online, resolved, forgiven, given, grants, logins>>

\* cmd_use of dust: neither clamped nor judged.
Dose(w) ==
    /\ online[w] /\ deeds < MaxDeeds
    /\ char' = [char EXCEPT ![w].morality = @ - 10]
    /\ row' = [row EXCEPT ![w] = char'[w]]
    /\ deeds' = deeds + 1
    /\ UNCHANGED <<online, resolved, forgiven, given, grants, logins>>

-----------------------------------------------------------------------------
(* Forgiveness. *)

Marked(c) == c.sworn \/ c.strayed \/ c.faction = "front" \/ c.morality <= -50

\* Mutant of HasForgiven: forgiver and subject are taken for each other.
HasForgivenSwapped(f, s) == <<s, f>> \in forgiven

HasForgiven(f, s) == <<f, s>> \in forgiven

\* mark_forgiven: with a full table, nothing is remembered.
MarkForgiven(f, s) ==
    forgiven' = IF Cardinality(forgiven) < MaxForgiven THEN forgiven \cup {<<f, s>>} ELSE forgiven

\* Mutant of Lifts: the brand does not stand in the way of the return.
LiftsTheSworn(c) == c.strayed /\ ~c.redeemed /\ c.faction # "front"

\* The mercy brings back who may come back, at whatever morality.
Lifts(c) == ~c.sworn /\ c.strayed /\ ~c.redeemed /\ c.faction # "front"

\* cmd_forgive: f forgives s, who stands in the same room.
Forgive(f, s) ==
    /\ online[f] /\ online[s] /\ f # s /\ deeds < MaxDeeds
    /\ char[s].room = char[f].room
    /\ ~HasForgiven(f, s) /\ Marked(char[s])
    /\ MarkForgiven(f, s)
    /\ given' = [given EXCEPT ![<<f, s>>] = @ + 1]
    /\ LET up == char[s].morality + 5
           c  == [char[s] EXCEPT
                    !.morality = IF up > HG_MORALITY_CEIL THEN HG_MORALITY_CEIL ELSE up]
       IN
       /\ char' = [char EXCEPT ![s] = [c EXCEPT !.redeemed = @ \/ Lifts(c)], ![f] = Shift(@, 2)]
       /\ \/ Lifts(c) /\ Return(s)
          \/ ~Lifts(c) /\ UNCHANGED grants
    /\ row' = [row EXCEPT ![s] = char'[s], ![f] = char'[f]]
    /\ deeds' = deeds + 1
    /\ UNCHANGED <<online, resolved, logins>>

-----------------------------------------------------------------------------

Next ==
    \/ Crash
    \/ \E w \in Wanderers :
          \/ Login(w) \/ Close(w)
          \/ \E r \in Rooms : Walk(w, r)
          \/ DaisPledge(w) \/ Join(w) \/ Defend(w) \/ DaisDefect(w)
          \/ Free(w) \/ Steal(w) \/ SmallGood(w) \/ Dose(w)
          \/ \E s \in Wanderers : Forgive(w, s)

Spec == Init /\ [][Next]_vars

-----------------------------------------------------------------------------
(* Properties. *)

\* The character that counts: the session's, or without one the row.
Self(w) == IF online[w] THEN char[w] ELSE row[w]

Stage(c) == IF ~c.strayed THEN "steady" ELSE IF c.redeemed THEN "back" ELSE "strayed"

Promise == INSTANCE Arc WITH
    stage <- [w \in Wanderers |-> Stage(Self(w))],
    branded <- [w \in Wanderers |-> Self(w).sworn],
    front <- [w \in Wanderers |-> Self(w).faction = "front"]

\* Whatever order the verbs come in, over reconnects, merges, forgiveness and
\* crashes: one strays once and comes back once, and is named the Returned only
\* then, neither branded nor of the Front.  (moral_arc, resolve_return,
\* dais_defect, cmd_forgive.)
ArcKept == Promise!Spec

\* A crash takes no mark back: what moral_arc marked is in the row already.
\* (moral_arc runs after the verb's own save, so it has to save for itself.)
MarksOnDisk ==
    \A w \in Wanderers : online[w] =>
        row[w].strayed = char[w].strayed /\ row[w].redeemed = char[w].redeemed

\* "It was true the first time; it does not need saying twice": with room in
\* the table, one process lets each pair forgive once.  (cmd_forgive.)
ForgivenOnce == \A p \in Pairs : given[p] <= 1

=============================================================================
