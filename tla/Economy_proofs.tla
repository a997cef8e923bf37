--------------------------- MODULE Economy_proofs ---------------------------
(***************************************************************************)
(* Every thing of Economy stays one thing, for any wanderers, rooms, sums, *)
(* packs and bounds; and all gold is accounted for: what there is, is what *)
(* was made less what was spent, for any finite set of wanderers.  A sum   *)
(* changes by what one of its terms changes by (Induction!SumExcept).      *)
(***************************************************************************)
EXTENDS Economy, Induction

\* A character as the code can make it: no debts, and no more than a pack holds.
Sound(c) ==
    /\ c \in Character /\ c.gold >= 0
    /\ IsFiniteSet(c.pack) /\ Cardinality(c.pack) <= MaxPack

\* A thing in somebody's hands, or gone, has been issued: the next is another.
AllIssued ==
    /\ \A w \in Wanderers : \A t \in Held(w) : t.no < issued[t.to]
    /\ \A t \in gone : t.no < issued[t.to]

Holdings ==
    /\ online \in [Wanderers -> BOOLEAN]
    /\ char \in [Wanderers -> Character]
    /\ row \in [Wanderers -> Character]
    /\ \A w \in Wanderers : Sound(char[w]) /\ Sound(row[w])
    /\ issued \in [Wanderers -> Nat]
    /\ gone \subseteq Thing
    /\ AllIssued /\ OnePlace

Ledger == caches \in [Rooms -> Nat] /\ deeds \in Nat /\ logins \in Nat

ThingInv == Holdings /\ Ledger

-----------------------------------------------------------------------------
(* Packs and purses. *)

LEMMA ValueNat == \A k \in Kinds : Value[k] \in Nat
    BY DEF Kinds, Value

LEMMA PriceNat == \A k \in DOMAIN Price : Price[k] \in Nat /\ k \in Kinds
    BY DEF Price, Kinds, Value

LEMMA WithSound ==
    ASSUME NEW c, Sound(c), NEW t \in Thing, HasRoom(c)
    PROVE  Sound(With(c, t)) /\ With(c, t).pack = c.pack \cup {t}
<1> DEFINE p == c.pack \cup {t}
<1>1. IsFiniteSet(p) /\ Cardinality(p) <= Cardinality(c.pack) + 1
    <2>1. Cardinality(c.pack) \in Nat
        BY FS_CardinalityType DEF Sound
    <2> QED
        BY <2>1, FS_AddElement DEF Sound
<1>2. Cardinality(c.pack) \in Nat /\ Cardinality(p) \in Nat
    BY <1>1, FS_CardinalityType DEF Sound
<1>3. Cardinality(p) <= MaxPack
    BY <1>1, <1>2, PackAssumption DEF HasRoom
<1>4. With(c, t) = [room |-> c.room, gold |-> c.gold, pack |-> p]
    BY DEF With, Sound, Character
<1> HIDE DEF p
<1> QED
    <2>1. p \subseteq Thing
        BY DEF p, Sound, Character
    <2> QED
        BY <1>1, <1>3, <1>4, <2>1 DEF Sound, Character, p

LEMMA WithoutSound ==
    ASSUME NEW c, Sound(c), NEW t
    PROVE  Sound(Without(c, t)) /\ Without(c, t).pack = c.pack \ {t}
<1> DEFINE p == c.pack \ {t}
<1>1. p \subseteq c.pack
    OBVIOUS
<1>2. IsFiniteSet(p) /\ Cardinality(p) <= Cardinality(c.pack)
    BY <1>1, FS_Subset DEF Sound
<1>3. Cardinality(c.pack) \in Nat /\ Cardinality(p) \in Nat
    BY <1>2, FS_CardinalityType DEF Sound
<1>4. Cardinality(p) <= MaxPack
    BY <1>2, <1>3, PackAssumption DEF Sound
<1>5. Without(c, t) = [room |-> c.room, gold |-> c.gold, pack |-> p]
    BY DEF Without, Sound, Character
<1> QED
    <2> HIDE DEF p
    <2>1. p \subseteq Thing
        BY DEF p, Sound, Character
    <2> QED
        BY <1>2, <1>4, <1>5, <2>1 DEF Sound, Character, p

\* Gold alone, or the room alone.
LEMMA PurseSound ==
    ASSUME NEW c, Sound(c), NEW g \in Nat, NEW r \in Rooms
    PROVE  /\ Sound([c EXCEPT !.gold = g]) /\ [c EXCEPT !.gold = g].pack = c.pack
           /\ Sound([c EXCEPT !.room = r]) /\ [c EXCEPT !.room = r].pack = c.pack
<1>1. [c EXCEPT !.gold = g] = [room |-> c.room, gold |-> g, pack |-> c.pack]
    BY DEF Sound, Character
<1>2. [c EXCEPT !.room = r] = [room |-> r, gold |-> c.gold, pack |-> c.pack]
    BY DEF Sound, Character
<1> QED
    BY <1>1, <1>2 DEF Sound, Character

LEMMA NobodySound == Sound(Nobody) /\ Nobody.pack = {}
<1>1. IsFiniteSet({}) /\ Cardinality({}) = 0
    BY FS_EmptySet
<1> QED
    BY <1>1, PackAssumption, RoomAssumption DEF Nobody, Sound, Character

\* A pack with one thing in it.
LEMMA OneThingSound ==
    ASSUME NEW t \in Thing, NEW r \in Rooms, NEW g \in Nat
    PROVE  Sound([room |-> r, gold |-> g, pack |-> {t}])
<1>1. IsFiniteSet({t}) /\ Cardinality({t}) = 1
    BY FS_Singleton
<1> QED
    BY <1>1, PackAssumption DEF Sound, Character

LEMMA FreshThing ==
    ASSUME ThingInv, NEW w \in Wanderers, NEW k \in Kinds
    PROVE  /\ Fresh(w, k) \in Thing
           /\ Fresh(w, k).to = w /\ Fresh(w, k).no = issued[w]
           /\ \A v \in Wanderers : Fresh(w, k) \notin Held(v)
           /\ Fresh(w, k) \notin gone
<1>1. issued[w] \in Nat
    BY DEF ThingInv, Holdings
<1>2. Fresh(w, k) \in Thing /\ Fresh(w, k).to = w /\ Fresh(w, k).no = issued[w]
    BY <1>1 DEF Fresh, Thing
<1> QED
    BY <1>1, <1>2 DEF ThingInv, Holdings, AllIssued

-----------------------------------------------------------------------------
(* Steps. *)

\* Nobody holds more than before: closes, crashes, the first save of a gift.
LEMMA LessHeld ==
    ASSUME ThingInv,
           online' \in [Wanderers -> BOOLEAN],
           char' \in [Wanderers -> Character], row' \in [Wanderers -> Character],
           \A w \in Wanderers : Sound(char'[w]) /\ Sound(row'[w]),
           \A w \in Wanderers : char'[w].pack \cup row'[w].pack \subseteq Held(w),
           UNCHANGED <<issued, gone>>
    PROVE  Holdings'
    BY DEF ThingInv, Holdings, AllIssued, OnePlace, Held, Sound, Character

\* A verb of w that saves what it does: it keeps, drops or uses up things of
\* w's, or brings in a new one.
LEMMA BecomeKeeps ==
    ASSUME ThingInv, NEW w \in Wanderers, NEW c, Sound(c), Become(w, c),
           \/ /\ c.pack \subseteq char[w].pack
              /\ UNCHANGED <<issued, gone>>
           \/ \E t \in char[w].pack :
                 /\ c.pack = char[w].pack \ {t} /\ gone' = gone \cup {t}
                 /\ UNCHANGED issued
           \/ \E k \in Kinds :
                 /\ c.pack = char[w].pack \cup {Fresh(w, k)}
                 /\ Issue(w) /\ UNCHANGED gone
    PROVE  Holdings'
<1>1. /\ online' \in [Wanderers -> BOOLEAN]
      /\ char' \in [Wanderers -> Character] /\ row' \in [Wanderers -> Character]
      /\ \A v \in Wanderers : Sound(char'[v]) /\ Sound(row'[v])
    BY DEF ThingInv, Holdings, Become, Sound
<1>2. \A v \in Wanderers : /\ v # w => char'[v] = char[v] /\ row'[v] = row[v]
                           /\ char'[w] = c /\ row'[w] = c
    BY DEF ThingInv, Holdings, Become
<1>3. \A v \in Wanderers : v # w => Held(v)' = Held(v)
    BY <1>2 DEF Held
<1>4. Held(w)' = c.pack
    BY <1>2 DEF Held
<1>5. CASE c.pack \subseteq char[w].pack /\ UNCHANGED <<issued, gone>>
    <2>1. \A v \in Wanderers : char'[v].pack \cup row'[v].pack \subseteq Held(v)
        BY <1>2, <1>5 DEF Held
    <2> QED
        BY <1>1, <1>5, <2>1, LessHeld
<1>6. CASE \E t \in char[w].pack : /\ c.pack = char[w].pack \ {t}
                                   /\ gone' = gone \cup {t} /\ UNCHANGED issued
    <2>1. PICK t \in char[w].pack : /\ c.pack = char[w].pack \ {t}
                                    /\ gone' = gone \cup {t} /\ UNCHANGED issued
        BY <1>6
    <2>2. t \in Held(w) /\ t \in Thing /\ Held(w)' \subseteq Held(w) /\ t \notin Held(w)'
        BY <1>4, <2>1 DEF Held, ThingInv, Holdings, Character
    <2>3. \A v \in Wanderers : Held(v)' \subseteq Held(v)
        BY <1>3, <2>2
    <2>4. \A v \in Wanderers : t \notin Held(v)'
        BY <1>3, <2>2 DEF ThingInv, Holdings, OnePlace
    <2>5. gone' \subseteq Thing /\ issued' \in [Wanderers -> Nat]
        BY <2>1, <2>2 DEF ThingInv, Holdings
    <2>6. AllIssued'
        BY <2>1, <2>2, <2>3 DEF ThingInv, Holdings, AllIssued
    <2>7. OnePlace'
        BY <2>1, <2>3, <2>4 DEF ThingInv, Holdings, OnePlace
    <2> QED
        BY <1>1, <2>5, <2>6, <2>7 DEF Holdings, Sound
<1>7. CASE \E k \in Kinds : /\ c.pack = char[w].pack \cup {Fresh(w, k)}
                            /\ Issue(w) /\ UNCHANGED gone
    <2>1. PICK k \in Kinds : /\ c.pack = char[w].pack \cup {Fresh(w, k)}
                             /\ Issue(w) /\ UNCHANGED gone
        BY <1>7
    <2> DEFINE t == Fresh(w, k)
    <2>2. /\ t \in Thing /\ t.to = w /\ t.no = issued[w]
          /\ \A v \in Wanderers : t \notin Held(v)
          /\ t \notin gone
        BY FreshThing
    <2>3. Held(w)' \subseteq Held(w) \cup {t}
        BY <1>4, <2>1 DEF Held
    <2>4. /\ issued' \in [Wanderers -> Nat] /\ issued'[w] = issued[w] + 1
          /\ \A v \in Wanderers : issued[v] \in Nat /\ issued'[v] \in Nat
                                 /\ issued[v] <= issued'[v]
        BY <2>1 DEF ThingInv, Holdings, Issue
    <2>5. \A v \in Wanderers : \A u \in Held(v) : u \in Thing
        BY DEF ThingInv, Holdings, Held, Character
    <2> HIDE DEF t
    <2>6. AllIssued'
        <3>1. \A v \in Wanderers : \A u \in Held(v) :
                 u.to \in Wanderers /\ u.no \in Nat /\ u.no < issued[u.to]
            BY <2>5 DEF ThingInv, Holdings, AllIssued, Thing
        <3>2. \A u \in gone : u.to \in Wanderers /\ u.no \in Nat /\ u.no < issued[u.to]
            BY DEF ThingInv, Holdings, AllIssued, Thing
        <3>3. \A v \in Wanderers : \A u \in Held(v)' : u.no < issued'[u.to]
            BY <1>3, <2>2, <2>3, <2>4, <3>1
        <3> QED
            BY <2>1, <2>4, <3>2, <3>3 DEF AllIssued
    <2>7. OnePlace'
        BY <1>3, <2>1, <2>2, <2>3 DEF ThingInv, Holdings, OnePlace
    <2> QED
        BY <1>1, <2>1, <2>4, <2>6, <2>7 DEF ThingInv, Holdings, Sound
<1> QED
    BY <1>5, <1>6, <1>7

\* Memory goes: what is left is what the rows say.
LEMMA LossKeeps ==
    ASSUME ThingInv, LoseMemory, UNCHANGED <<issued, gone>>,
           row' \in [Wanderers -> Character],
           \A w \in Wanderers : Sound(row'[w]) /\ row'[w].pack \subseteq Held(w)
    PROVE  Holdings'
<1>1. char' \in [Wanderers -> Character]
    BY NobodySound DEF LoseMemory, Sound
<1>2. \A w \in Wanderers : Sound(char'[w]) /\ char'[w].pack = {}
    BY NobodySound DEF LoseMemory
<1>3. online' \in [Wanderers -> BOOLEAN]
    BY DEF LoseMemory
<1> QED
    BY <1>1, <1>2, <1>3, LessHeld

-----------------------------------------------------------------------------
(* Actions. *)

LEMMA InitThings == Init => ThingInv
<1> SUFFICES ASSUME Init PROVE ThingInv
    OBVIOUS
<1>1. \A w \in Wanderers :
         /\ [kind |-> "shiv", to |-> w, no |-> 0] \in Thing
         /\ Sound(Newcomer(w))
         /\ Newcomer(w).pack = {[kind |-> "shiv", to |-> w, no |-> 0]}
    <2>1. "shiv" \in Kinds
        BY DEF Kinds, Value
    <2> QED
        BY <2>1, OneThingSound, RoomAssumption DEF Newcomer, Thing, InitialGold
<1>2. \A w \in Wanderers : Held(w) = {[kind |-> "shiv", to |-> w, no |-> 0]}
    BY <1>1, NobodySound DEF Init, Held
<1>3. AllIssued /\ OnePlace
    BY <1>2 DEF Init, AllIssued, OnePlace
<1> QED
    BY <1>1, <1>3, NobodySound DEF Init, ThingInv, Holdings, Ledger, Sound

LEMMA LoginThings == ASSUME ThingInv, NEW w \in Wanderers, Login(w) PROVE ThingInv'
<1>1. online' \in [Wanderers -> BOOLEAN]
    BY DEF Login, ThingInv, Holdings
<1>2. CASE row[w].pack # {} /\ char' = [char EXCEPT ![w] = row[w]] /\ UNCHANGED issued
    <2>1. char' \in [Wanderers -> Character]
        BY <1>2 DEF ThingInv, Holdings
    <2>2. \A v \in Wanderers : /\ Sound(char'[v]) /\ Sound(row'[v])
                               /\ char'[v].pack \cup row'[v].pack \subseteq Held(v)
        BY <1>2 DEF Login, ThingInv, Holdings, Held
    <2>3. Holdings'
        BY <1>1, <1>2, <2>1, <2>2, LessHeld DEF Login, ThingInv, Holdings
    <2> QED
        BY <2>3 DEF Login, ThingInv, Ledger
<1>3. CASE /\ row[w].pack = {} /\ Issue(w)
           /\ char' = [char EXCEPT ![w] = [row[w] EXCEPT !.pack = {Fresh(w, "shiv")}]]
    <2> DEFINE t == Fresh(w, "shiv")
               c == [row[w] EXCEPT !.pack = {t}]
    <2>1. /\ t \in Thing /\ t.to = w /\ t.no = issued[w]
          /\ \A v \in Wanderers : t \notin Held(v)
          /\ t \notin gone
        <3>1. "shiv" \in Kinds
            BY DEF Kinds, Value
        <3> QED
            BY <3>1, FreshThing
    <2>2. row[w] \in Character /\ row[w].gold \in Nat /\ row[w].room \in Rooms
        BY DEF ThingInv, Holdings, Sound, Character
    <2>3. c = [room |-> row[w].room, gold |-> row[w].gold, pack |-> {t}]
        BY <2>2 DEF Character
    <2>4. Sound(c) /\ c.pack = {t} /\ c \in Character
        <3> HIDE DEF t
        <3> QED
            BY <2>1, <2>2, <2>3, OneThingSound DEF Sound
    <2>5. char' = [char EXCEPT ![w] = c] /\ UNCHANGED <<row, gone>>
        BY <1>3 DEF Login
    <2>6. issued' \in [Wanderers -> Nat] /\ issued'[w] = issued[w] + 1
          /\ \A v \in Wanderers : issued[v] \in Nat /\ issued'[v] \in Nat
                                 /\ issued[v] <= issued'[v]
        BY <1>3 DEF ThingInv, Holdings, Issue
    <2> HIDE DEF t, c
    <2>7. /\ char' \in [Wanderers -> Character] /\ row' \in [Wanderers -> Character]
          /\ \A v \in Wanderers : Sound(char'[v]) /\ Sound(row'[v])
        BY <2>4, <2>5 DEF ThingInv, Holdings
    <2>8. /\ \A v \in Wanderers : v # w => Held(v)' = Held(v)
          /\ Held(w)' \subseteq Held(w) \cup {t}
        BY <2>4, <2>5 DEF ThingInv, Holdings, Held
    <2>9. AllIssued'
        <3>1. \A v \in Wanderers : \A u \in Held(v) :
                 u.to \in Wanderers /\ u.no \in Nat /\ u.no < issued[u.to]
            BY DEF ThingInv, Holdings, AllIssued, Held, Character, Thing
        <3>2. \A u \in gone : u.to \in Wanderers /\ u.no \in Nat /\ u.no < issued[u.to]
            BY DEF ThingInv, Holdings, AllIssued, Thing
        <3>3. \A v \in Wanderers : \A u \in Held(v)' : u.no < issued'[u.to]
            BY <2>1, <2>6, <2>8, <3>1
        <3> QED
            BY <2>5, <2>6, <3>2, <3>3 DEF AllIssued
    <2>10. OnePlace'
        BY <2>1, <2>5, <2>8 DEF ThingInv, Holdings, OnePlace
    <2> QED
        BY <1>1, <2>5, <2>6, <2>7, <2>9, <2>10 DEF Login, ThingInv, Holdings, Ledger, Sound
<1> QED
    BY <1>2, <1>3 DEF Login

LEMMA CloseThings == ASSUME ThingInv, NEW w \in Wanderers, Close(w) PROVE ThingInv'
<1>1. /\ online' \in [Wanderers -> BOOLEAN]
      /\ char' \in [Wanderers -> Character] /\ row' \in [Wanderers -> Character]
    BY NobodySound DEF Close, ThingInv, Holdings, Sound
<1>2. \A v \in Wanderers : /\ Sound(char'[v]) /\ Sound(row'[v])
                           /\ char'[v].pack \cup row'[v].pack \subseteq Held(v)
    BY NobodySound DEF Close, ThingInv, Holdings, Held
<1>3. Holdings'
    BY <1>1, <1>2, LessHeld DEF Close
<1> QED
    BY <1>3 DEF Close, ThingInv, Ledger

LEMMA CrashThings == ASSUME ThingInv, Crash PROVE ThingInv'
<1>1. Holdings'
    BY LossKeeps DEF Crash, ThingInv, Holdings, Held
<1> QED
    BY <1>1 DEF Crash, LoseMemory, ThingInv, Ledger

LEMMA WalkThings ==
    ASSUME ThingInv, NEW w \in Wanderers, NEW r \in Rooms, Walk(w, r) PROVE ThingInv'
<1> DEFINE c == [char[w] EXCEPT !.room = r]
<1>1. Sound(c) /\ c.pack = char[w].pack
    <2>1. Sound(char[w])
        BY DEF ThingInv, Holdings
    <2> QED
        BY <2>1, PurseSound
<1>2. Become(w, c) /\ UNCHANGED <<caches, issued, gone, deeds>>
    BY DEF Walk
<1> HIDE DEF c
<1>3. Holdings'
    BY <1>1, <1>2, BecomeKeeps
<1> QED
    BY <1>2, <1>3 DEF ThingInv, Ledger, Become

\* Gold that changes hands; the pack stays as it is.
LEMMA PurseThings ==
    ASSUME ThingInv, NEW w \in Wanderers, NEW g \in Nat,
           Does, Become(w, [char[w] EXCEPT !.gold = g]),
           UNCHANGED <<issued, gone>>, caches' \in [Rooms -> Nat]
    PROVE  ThingInv'
<1> DEFINE c == [char[w] EXCEPT !.gold = g]
<1>1. Sound(char[w]) /\ char[w].room \in Rooms
    BY DEF ThingInv, Holdings, Character
<1>2. Sound(c) /\ c.pack = char[w].pack
    BY <1>1, PurseSound
<1> HIDE DEF c
<1>3. Holdings'
    BY <1>2, BecomeKeeps DEF c
<1> QED
    BY <1>3 DEF ThingInv, Ledger, Become, Does

LEMMA GoldThings ==
    ASSUME ThingInv, NEW w \in Wanderers,
           \/ \E n \in Sums : Cache(w, n) \/ Earn(w, n)
           \/ Gather(w)
    PROVE  ThingInv'
<1>1. /\ Sound(char[w]) /\ char[w].gold \in Nat /\ char[w].room \in Rooms
      /\ caches \in [Rooms -> Nat] /\ caches[char[w].room] \in Nat
    BY DEF ThingInv, Holdings, Ledger, Sound, Character
<1>2. CASE \E n \in Sums : Cache(w, n)
    <2>1. PICK n \in Sums : Cache(w, n)
        BY <1>2
    <2>2. n \in Nat
        BY SumAssumption
    <2>3. char[w].gold - n \in Nat
        BY <1>1, <2>1, <2>2 DEF Cache
    <2>4. caches' \in [Rooms -> Nat]
        BY <1>1, <2>1, <2>2 DEF Cache
    <2> QED
        BY <2>1, <2>3, <2>4, PurseThings DEF Cache
<1>3. CASE \E n \in Sums : Earn(w, n)
    <2>1. PICK n \in Sums : Earn(w, n)
        BY <1>3
    <2>2. char[w].gold + n \in Nat
        BY <1>1, SumAssumption
    <2> QED
        BY <1>1, <2>1, <2>2, PurseThings DEF Earn
<1>4. CASE Gather(w)
    <2>1. char[w].gold + caches[char[w].room] \in Nat
        BY <1>1
    <2>2. caches' \in [Rooms -> Nat]
        BY <1>1, <1>4 DEF Gather
    <2> QED
        BY <1>4, <2>1, <2>2, PurseThings DEF Gather
<1> QED
    BY <1>2, <1>3, <1>4

\* Something new, at a price that can be paid.
LEMMA NewThings ==
    ASSUME ThingInv, NEW w \in Wanderers, NEW k \in Kinds, NEW g \in Nat,
           HasRoom(char[w]), Does,
           Become(w, [With(char[w], Fresh(w, k)) EXCEPT !.gold = g]),
           Issue(w), UNCHANGED <<caches, gone>>
    PROVE  ThingInv'
<1> DEFINE t == Fresh(w, k)
           d == With(char[w], t)
           c == [d EXCEPT !.gold = g]
<1>1. Sound(char[w]) /\ char[w].room \in Rooms /\ t \in Thing
    BY FreshThing DEF ThingInv, Holdings, Character
<1>2. Sound(d) /\ d.pack = char[w].pack \cup {t}
    <2> HIDE DEF t
    <2> QED
        BY <1>1, WithSound
<1>3. Sound(c) /\ c.pack = char[w].pack \cup {t}
    <2> HIDE DEF d
    <2> QED
        BY <1>1, <1>2, PurseSound
<1> HIDE DEF c
<1>4. Holdings'
    BY <1>3, BecomeKeeps DEF c
<1> QED
    BY <1>4 DEF ThingInv, Ledger, Become, Does

LEMMA BuyThings ==
    ASSUME ThingInv, NEW w \in Wanderers,
           BuyDust(w) \/ \E k \in DOMAIN Price : Buy(w, k)
    PROVE  ThingInv'
<1>1. /\ Sound(char[w]) /\ char[w].gold \in Nat
      /\ char[w] \in Character
    BY DEF ThingInv, Holdings, Sound, Character
<1>2. CASE BuyDust(w)
    <2> DEFINE g == char[w].gold - HG_DUST_COST
               paid == [char[w] EXCEPT !.gold = g]
    <2>1. g \in Nat /\ HG_DUST_COST \in Nat
        BY <1>1, <1>2 DEF BuyDust, HG_DUST_COST
    <2>2. "dust" \in Kinds
        BY DEF Kinds, Value
    <2>3. CASE HasRoom(paid) /\ Become(w, With(paid, Fresh(w, "dust"))) /\ Issue(w)
        <3>1. HasRoom(char[w])
            BY <1>1, <2>3 DEF HasRoom, Character
        <3>2. With(paid, Fresh(w, "dust"))
                = [With(char[w], Fresh(w, "dust")) EXCEPT !.gold = g]
            BY <1>1 DEF With, Character
        <3> HIDE DEF g
        <3> QED
            BY <1>2, <2>1, <2>2, <2>3, <3>1, <3>2, NewThings DEF BuyDust
    <2>4. CASE ~HasRoom(paid) /\ Become(w, paid) /\ UNCHANGED issued
        <3>1. caches' \in [Rooms -> Nat] /\ UNCHANGED <<issued, gone>> /\ Does
            BY <1>2, <2>4 DEF BuyDust, ThingInv, Ledger
        <3> HIDE DEF g
        <3> QED
            BY <2>1, <2>4, <3>1, PurseThings
    <2> QED
        BY <1>2, <2>3, <2>4 DEF BuyDust
<1>3. CASE \E k \in DOMAIN Price : Buy(w, k)
    <2>1. PICK k \in DOMAIN Price : Buy(w, k)
        BY <1>3
    <2>2. k \in Kinds /\ Price[k] \in Nat
        BY PriceNat
    <2> DEFINE d == With(char[w], Fresh(w, k))
               g == char[w].gold - Price[k]
    <2>3. g \in Nat
        BY <1>1, <2>1, <2>2 DEF Buy
    <2>4. [d EXCEPT !.gold = @ - Price[k]] = [d EXCEPT !.gold = g]
        BY <1>1 DEF With, Character
    <2> HIDE DEF g
    <2> QED
        BY <2>1, <2>2, <2>3, <2>4, NewThings DEF Buy
<1> QED
    BY <1>2, <1>3

LEMMA RewardThings ==
    ASSUME ThingInv, NEW w \in Wanderers, NEW k \in Kinds, Reward(w, k)
    PROVE  ThingInv'
<1>1. Sound(char[w]) /\ Fresh(w, k) \in Thing
    BY FreshThing DEF ThingInv, Holdings
<1> DEFINE c == With(char[w], Fresh(w, k))
<1>2. Sound(c) /\ c.pack = char[w].pack \cup {Fresh(w, k)}
    BY <1>1, WithSound DEF Reward
<1> HIDE DEF c
<1>3. Holdings'
    BY <1>2, BecomeKeeps DEF Reward, c
<1> QED
    BY <1>3 DEF Reward, ThingInv, Ledger, Become, Does

\* What is sold or used up.
LEMMA SpendThings ==
    ASSUME ThingInv, NEW w \in Wanderers, NEW t \in char[w].pack,
           Sell(w, t) \/ Use(w, t)
    PROVE  ThingInv'
<1> DEFINE d == Without(char[w], t)
<1>1. /\ Sound(char[w]) /\ char[w].gold \in Nat /\ char[w].room \in Rooms
      /\ t \in Thing /\ t.kind \in Kinds
    BY DEF ThingInv, Holdings, Sound, Character, Thing
<1>2. Sound(d) /\ d.pack = char[w].pack \ {t}
    BY <1>1, WithoutSound
<1>3. d.gold = char[w].gold
    BY DEF Without
<1> HIDE DEF d
<1>4. CASE Use(w, t)
    <2>1. Holdings'
        BY <1>2, <1>4, BecomeKeeps DEF Use, d
    <2> QED
        BY <1>4, <2>1 DEF Use, ThingInv, Ledger, Become, Does
<1>5. CASE Sell(w, t)
    <2>1. Value[t.kind] \in Nat
        BY <1>1, ValueNat
    <2>2. PICK paid \in {Value[t.kind], (Value[t.kind] * 12) \div 10} :
             Become(w, [d EXCEPT !.gold = @ + paid])
        BY <1>5 DEF Sell, d
    <2>3. paid \in Nat
        <3> DEFINE v == Value[t.kind]
        <3>1. v \in Nat => (v * 12) \div 10 \in Nat
            <4> HIDE DEF v
            <4> QED
                OBVIOUS
        <3> QED
            BY <2>1, <3>1
    <2> DEFINE g == d.gold + paid
               c == [d EXCEPT !.gold = g]
    <2>4. g \in Nat
        BY <1>1, <1>3, <2>3
    <2>5. Become(w, c)
        BY <2>2
    <2> HIDE DEF g
    <2>6. Sound(c) /\ c.pack = char[w].pack \ {t}
        BY <1>1, <1>2, <2>4, PurseSound
    <2> HIDE DEF c
    <2>7. Holdings'
        BY <1>5, <2>5, <2>6, BecomeKeeps DEF Sell
    <2> QED
        BY <1>5, <2>5, <2>7 DEF Sell, ThingInv, Ledger, Become, Does
<1> QED
    BY <1>4, <1>5

\* A gift: with both saves, or with the first and no more.
LEMMA GiveThings ==
    ASSUME ThingInv, NEW f \in Wanderers, NEW s \in Wanderers, Give(f, s)
    PROVE  ThingInv'
<1>1. PICK t \in char[f].pack : GiveSaves(f, s, t)
    BY DEF Give
<1> DEFINE less == Without(char[f], t)
           more == With(char[s], t)
<1>2. /\ f # s /\ HasRoom(char[s]) /\ Does /\ UNCHANGED <<issued, gone, logins>>
      /\ Sound(char[f]) /\ Sound(char[s]) /\ t \in Thing
    BY DEF Give, ThingInv, Holdings, Character
<1>3. /\ Sound(less) /\ less.pack = char[f].pack \ {t}
      /\ Sound(more) /\ more.pack = char[s].pack \cup {t}
    BY <1>2, WithSound, WithoutSound
<1> HIDE DEF less, more
<1>4. CASE /\ char' = [char EXCEPT ![f] = less, ![s] = more]
           /\ row' = [row EXCEPT ![f] = less, ![s] = more]
           /\ UNCHANGED <<online, caches, wealth>>
    <2>1. /\ online' \in [Wanderers -> BOOLEAN]
          /\ char' \in [Wanderers -> Character] /\ row' \in [Wanderers -> Character]
          /\ \A v \in Wanderers : Sound(char'[v]) /\ Sound(row'[v])
        BY <1>3, <1>4 DEF ThingInv, Holdings, Sound
    <2>2. /\ \A v \in Wanderers : v # f /\ v # s => Held(v)' = Held(v)
          /\ Held(f)' = char[f].pack \ {t}
          /\ Held(s)' = char[s].pack \cup {t}
        BY <1>2, <1>3, <1>4 DEF ThingInv, Holdings, Held
    <2>3. t \in Held(f)
        BY DEF Held
    <2>4. OnePlace'
        <3>1. \A v \in Wanderers : v # f => t \notin Held(v)
            BY <2>3 DEF ThingInv, Holdings, OnePlace
        <3>2. t \notin gone
            BY <2>3 DEF ThingInv, Holdings, OnePlace
        <3>3. \A v \in Wanderers : /\ v # s => Held(v)' \subseteq Held(v) /\ t \notin Held(v)'
                                   /\ Held(s)' \subseteq Held(s) \cup {t}
            BY <1>2, <2>2, <3>1 DEF Held
        <3> QED
            BY <1>2, <3>1, <3>2, <3>3 DEF ThingInv, Holdings, OnePlace
    <2>5. AllIssued'
        <3>1. \A v \in Wanderers : \A u \in Held(v)' : \E x \in Wanderers : u \in Held(x)
            BY <1>2, <2>2, <2>3 DEF Held
        <3> QED
            BY <1>2, <3>1 DEF ThingInv, Holdings, AllIssued
    <2> QED
        BY <1>2, <1>4, <2>1, <2>4, <2>5 DEF ThingInv, Holdings, Ledger, Does, Sound
<1>5. CASE row' = [row EXCEPT ![f] = less] /\ LoseMemory
    <2>1. \A v \in Wanderers : Sound(row'[v]) /\ row'[v].pack \subseteq Held(v)
        BY <1>3, <1>5 DEF ThingInv, Holdings, Held
    <2>2. row' \in [Wanderers -> Character]
        BY <1>3, <1>5 DEF ThingInv, Holdings, Sound
    <2>3. Holdings'
        BY <1>2, <1>5, <2>1, <2>2, LossKeeps
    <2> QED
        BY <1>2, <1>5, <2>3 DEF LoseMemory, ThingInv, Ledger, Does
<1> QED
    BY <1>1, <1>4, <1>5 DEF GiveSaves, less, more

-----------------------------------------------------------------------------
(* Aid. *)

LEMMA OthersLeaveAid ==
    ASSUME ThingInv, UNCHANGED caches, NEW r \in Rooms
    PROVE  ~(caches'[r] < caches[r])
    BY DEF ThingInv, Ledger

LEMMA GatherFinds ==
    ASSUME ThingInv, NEW w \in Wanderers, Gather(w), NEW r \in Rooms,
           caches'[r] < caches[r]
    PROVE  Found(r)
<1>1. caches' = [caches EXCEPT ![char[w].room] = 0] /\ caches \in [Rooms -> Nat]
    BY DEF Gather, ThingInv, Ledger
<1>2. r = char[w].room
    BY <1>1
<1>3. row' = [row EXCEPT ![w] = [char[w] EXCEPT !.gold = @ + caches[r]]] /\ online[w]
    BY <1>2 DEF Gather, Become
<1>4. row'[w].gold = char[w].gold + caches[r]
    BY <1>3 DEF ThingInv, Holdings, Character
<1> QED
    BY <1>1, <1>2, <1>3, <1>4 DEF Found

LEMMA StepAid ==
    ASSUME ThingInv, [Next]_vars, NEW r \in Rooms, caches'[r] < caches[r]
    PROVE  Found(r) \/ ProcessEnds
<1>1. ~UNCHANGED caches
    BY OthersLeaveAid
<1>2. CASE LoseMemory
    BY <1>2 DEF LoseMemory, ProcessEnds
<1>3. ASSUME NEW w \in Wanderers, NEW n \in Sums, Cache(w, n) PROVE FALSE
    <2>1. /\ caches' = [caches EXCEPT ![char[w].room] = @ + n]
          /\ caches \in [Rooms -> Nat] /\ n \in Nat
        BY <1>3, SumAssumption DEF Cache, ThingInv, Ledger
    <2> QED
        BY <2>1
<1>4. ASSUME NEW f \in Wanderers, NEW s \in Wanderers, Give(f, s) PROVE LoseMemory
    BY <1>1, <1>4 DEF Give, GiveSaves
<1>5. ASSUME NEW w \in Wanderers,
             \/ Login(w) \/ Close(w) \/ BuyDust(w)
             \/ \E q \in Rooms : Walk(w, q)
             \/ \E n \in Sums : Earn(w, n)
             \/ \E k \in DOMAIN Price : Buy(w, k)
             \/ \E t \in char[w].pack : Sell(w, t) \/ Use(w, t)
             \/ Reward(w, "charm") \/ Reward(w, "antidote")
      PROVE  FALSE
    BY <1>1, <1>5 DEF Login, Close, BuyDust, Walk, Earn, Buy, Sell, Use, Reward
<1>6. CASE UNCHANGED vars
    BY <1>1, <1>6 DEF vars
<1> QED
    BY <1>2, <1>3, <1>4, <1>5, <1>6, GatherFinds DEF Next, Crash

-----------------------------------------------------------------------------
(* Gold. *)

\* What everybody has.
Purse == [w \in Wanderers |-> Self(w).gold]

\* Who plays has the gold of their row: a crash takes none of it.
GoldSaved == \A w \in Wanderers : online[w] => row[w].gold = char[w].gold

GoldInv ==
    /\ ThingInv /\ GoldSaved
    /\ wealth = SumOf(Purse, Wanderers) + SumOf(caches, Rooms)

\* The sum GoldAccounted takes is the sum of that function.
LEMMA PeoplesGold ==
    MapThenSumSet(LAMBDA w : Self(w).gold, Wanderers) = SumOf(Purse, Wanderers)
<1> DEFINE Own(it) ==
              it = [T \in SUBSET Wanderers |->
                      IF T = {} THEN 0
                      ELSE Self(First(T)).gold + it[T \ {First(T)}]]
           sum == CHOOSE it : Own(it)
<1>1. MapThenSumSet(LAMBDA w : Self(w).gold, Wanderers) = sum[Wanderers]
    BY DEF MapThenSumSet, MapThenFoldSet, First
<1>2. \A T \in SUBSET Wanderers : T # {} => Purse[First(T)] = Self(First(T)).gold
    BY FirstIn DEF Purse
<1>3. ASSUME NEW it PROVE Own(it) <=> AddsUp(it, Purse, Wanderers)
    BY <1>2 DEF AddsUp
<1>4. AddsUp(sum, Purse, Wanderers)
    <2>1. \E it : Own(it)
        BY <1>3, AddsUpExists, FiniteAssumption
    <2>2. Own(sum)
        BY <2>1
    <2> HIDE DEF sum, Own
    <2> QED
        BY <1>3, <2>2
<1>5. SumOf(Purse, Wanderers) = sum[Wanderers]
    <2> HIDE DEF sum
    <2> QED
        BY <1>4, SumChosen, FiniteAssumption
<1> QED
    BY <1>1, <1>5

LEMMA PurseType ==
    ASSUME ThingInv
    PROVE  /\ \A w \in Wanderers : Purse[w] \in Int /\ Purse[w] = Self(w).gold
           /\ SumOf(Purse, Wanderers) \in Int /\ SumOf(caches, Rooms) \in Int
<1>1. \A w \in Wanderers : Purse[w] \in Int /\ Purse[w] = Self(w).gold
    BY DEF ThingInv, Holdings, Purse, Self, Sound, Character
<1>2. \A r \in Rooms : caches[r] \in Int
    BY DEF ThingInv, Ledger
<1> QED
    BY <1>1, <1>2, SumType, FiniteAssumption

\* A verb of w that saves what it does changes one purse.
LEMMA BecomePurse ==
    ASSUME ThingInv, GoldSaved, NEW w \in Wanderers, NEW c, c.gold \in Int, Become(w, c)
    PROVE  /\ GoldSaved'
           /\ \A v \in Wanderers : Purse'[v] \in Int /\ (v # w => Purse'[v] = Purse[v])
           /\ Purse[w] = char[w].gold /\ Purse'[w] = c.gold
           /\ SumOf(Purse', Wanderers) = SumOf(Purse, Wanderers) + c.gold - char[w].gold
<1>1. /\ online[w] /\ online' = online
      /\ char'[w] = c /\ row'[w] = c
      /\ \A v \in Wanderers : v # w => char'[v] = char[v] /\ row'[v] = row[v]
    BY DEF Become, ThingInv, Holdings
<1>2. GoldSaved'
    BY <1>1 DEF GoldSaved
<1>3. /\ \A v \in Wanderers : v # w => Purse'[v] = Purse[v]
      /\ Purse[w] = char[w].gold /\ Purse'[w] = c.gold
    BY <1>1 DEF Purse, Self
<1>4. \A v \in Wanderers : Purse[v] \in Int /\ Purse'[v] \in Int
    BY <1>3, PurseType
<1>5. SumOf(Purse', Wanderers) = SumOf(Purse, Wanderers) + Purse'[w] - Purse[w]
    BY <1>3, <1>4, SumExcept, FiniteAssumption
<1> QED
    BY <1>2, <1>3, <1>4, <1>5

\* A verb of w that leaves the caches: what w gains the world gains.
LEMMA EarnGold ==
    ASSUME GoldInv, ThingInv', NEW w \in Wanderers, NEW c, NEW n \in Int,
           c.gold = char[w].gold + n, Become(w, c),
           UNCHANGED caches, wealth' = wealth + n
    PROVE  GoldInv'
<1>1. char[w].gold \in Int
    BY DEF GoldInv, ThingInv, Holdings, Sound, Character
<1>2. /\ GoldSaved'
      /\ SumOf(Purse', Wanderers) = SumOf(Purse, Wanderers) + c.gold - char[w].gold
    BY <1>1, BecomePurse DEF GoldInv
<1>3. SumOf(Purse, Wanderers) \in Int /\ SumOf(caches, Rooms) \in Int
    BY PurseType DEF GoldInv
<1> QED
    BY <1>1, <1>2, <1>3 DEF GoldInv

\* What one cache changes by, the caches do.
LEMMA OneCache ==
    ASSUME ThingInv, ThingInv', NEW r \in Rooms,
           \A q \in Rooms : q # r => caches'[q] = caches[q]
    PROVE  SumOf(caches', Rooms) = SumOf(caches, Rooms) + caches'[r] - caches[r]
<1>1. \A q \in Rooms : caches[q] \in Int /\ caches'[q] \in Int
    BY DEF ThingInv, Ledger
<1> QED
    BY <1>1, SumExcept, FiniteAssumption

\* A verb of w that takes n into the cache of a room, or out of it.
LEMMA CacheGold ==
    ASSUME GoldInv, ThingInv', NEW w \in Wanderers, NEW c, NEW n \in Int,
           c.gold = char[w].gold - n, Become(w, c),
           NEW r \in Rooms, caches' = [caches EXCEPT ![r] = caches[r] + n],
           UNCHANGED wealth
    PROVE  GoldInv'
<1>1. char[w].gold \in Int
    BY DEF GoldInv, ThingInv, Holdings, Sound, Character
<1>2. /\ GoldSaved'
      /\ SumOf(Purse', Wanderers) = SumOf(Purse, Wanderers) + c.gold - char[w].gold
    BY <1>1, BecomePurse DEF GoldInv
<1>3. SumOf(Purse, Wanderers) \in Int /\ SumOf(caches, Rooms) \in Int
    BY PurseType DEF GoldInv
<1>4. SumOf(caches', Rooms) = SumOf(caches, Rooms) + caches'[r] - caches[r]
    <2>1. \A q \in Rooms : q # r => caches'[q] = caches[q]
        BY DEF GoldInv, ThingInv, Ledger
    <2> QED
        BY <2>1, OneCache DEF GoldInv
<1>5. caches'[r] = caches[r] + n /\ caches[r] \in Int
    BY DEF GoldInv, ThingInv, Ledger
<1> QED
    BY <1>1, <1>2, <1>3, <1>4, <1>5 DEF GoldInv

\* Nobody's purse changes, nor the caches.
LEMMA SameGold ==
    ASSUME GoldInv, ThingInv', GoldSaved',
           \A w \in Wanderers : Self(w)'.gold = Self(w).gold,
           UNCHANGED <<caches, wealth>>
    PROVE  GoldInv'
<1>1. Purse' = Purse
    BY DEF Purse
<1> QED
    BY <1>1 DEF GoldInv

\* Memory goes, and with it the caches; the purses are what the rows have.
LEMMA LossGold ==
    ASSUME GoldInv, ThingInv', LoseMemory,
           \A w \in Wanderers : row'[w].gold = row[w].gold
    PROVE  GoldInv'
<1>1. \A w \in Wanderers : Self(w)'.gold = Self(w).gold
    BY DEF GoldInv, GoldSaved, LoseMemory, Self
<1>2. Purse' = Purse
    BY <1>1 DEF Purse
<1>3. SumOf(caches', Rooms) = 0
    <2>1. \A r \in Rooms : caches'[r] = 0
        BY DEF LoseMemory
    <2>2. SumOf(caches', Rooms) = 0 * Cardinality(Rooms)
        BY <2>1, SumConst, FiniteAssumption
    <2> QED
        BY <2>2, FS_CardinalityType, FiniteAssumption
<1>4. wealth' = wealth - SumOf(caches, Rooms)
    BY DEF LoseMemory, SumOf
<1>5. SumOf(Purse, Wanderers) \in Int /\ SumOf(caches, Rooms) \in Int
    BY PurseType DEF GoldInv
<1>6. GoldSaved'
    BY DEF LoseMemory, GoldSaved
<1> QED
    BY <1>2, <1>3, <1>4, <1>5, <1>6 DEF GoldInv

LEMMA InitGold == Init => GoldInv
<1> SUFFICES ASSUME Init PROVE GoldInv
    OBVIOUS
<1>1. ThingInv
    BY InitThings
<1>2. \A w \in Wanderers : Purse[w] = InitialGold
    BY DEF Init, Purse, Self, Newcomer
<1>3. SumOf(Purse, Wanderers) = InitialGold * Cardinality(Wanderers)
    BY <1>2, SumConst, FiniteAssumption DEF InitialGold
<1>4. SumOf(caches, Rooms) = 0 * Cardinality(Rooms)
    <2>1. \A r \in Rooms : caches[r] = 0
        BY DEF Init
    <2> QED
        BY <2>1, SumConst, FiniteAssumption
<1>5. Cardinality(Wanderers) \in Nat /\ Cardinality(Rooms) \in Nat
    BY FS_CardinalityType, FiniteAssumption
<1>6. wealth = SumOf(Purse, Wanderers) + SumOf(caches, Rooms)
    BY <1>3, <1>4, <1>5 DEF Init, InitialGold
<1> QED
    BY <1>1, <1>6 DEF GoldInv, GoldSaved, Init

LEMMA SessionGold ==
    ASSUME GoldInv, ThingInv', NEW w \in Wanderers, Login(w) \/ Close(w)
    PROVE  GoldInv'
<1>1. CASE Login(w)
    <2>1. /\ char'[w].gold = row[w].gold
          /\ \A v \in Wanderers : v # w => char'[v] = char[v]
        BY <1>1 DEF Login, GoldInv, ThingInv, Holdings, Character
    <2>2. /\ online'[w] /\ ~online[w]
          /\ \A v \in Wanderers : v # w => online'[v] = online[v]
          /\ UNCHANGED <<row, caches, wealth>>
        BY <1>1 DEF Login, GoldInv, ThingInv, Holdings
    <2>3. GoldSaved'
        BY <2>1, <2>2 DEF GoldInv, GoldSaved
    <2>4. \A v \in Wanderers : Self(v)'.gold = Self(v).gold
        BY <2>1, <2>2 DEF Self
    <2> QED
        BY <2>2, <2>3, <2>4, SameGold
<1>2. CASE Close(w)
    <2>1. /\ row'[w] = char[w] /\ ~online'[w] /\ online[w]
          /\ \A v \in Wanderers : v # w => /\ row'[v] = row[v] /\ char'[v] = char[v]
                                           /\ online'[v] = online[v]
          /\ UNCHANGED <<caches, wealth>>
        BY <1>2 DEF Close, GoldInv, ThingInv, Holdings
    <2>2. GoldSaved'
        BY <2>1 DEF GoldInv, GoldSaved
    <2>3. \A v \in Wanderers : Self(v)'.gold = Self(v).gold
        BY <2>1 DEF Self
    <2> QED
        BY <2>1, <2>2, <2>3, SameGold
<1> QED
    BY <1>1, <1>2

LEMMA VerbGold ==
    ASSUME GoldInv, ThingInv', NEW w \in Wanderers,
           \/ \E r \in Rooms : Walk(w, r)
           \/ \E n \in Sums : Cache(w, n) \/ Earn(w, n)
           \/ Gather(w)
           \/ \E t \in char[w].pack : Use(w, t)
           \/ \E k \in Kinds : Reward(w, k)
    PROVE  GoldInv'
<1>1. /\ char[w] \in Character /\ char[w].gold \in Int /\ char[w].room \in Rooms
      /\ caches[char[w].room] \in Int
    BY DEF GoldInv, ThingInv, Holdings, Ledger, Character
<1>2. CASE \E r \in Rooms : Walk(w, r)
    <2>1. PICK r \in Rooms : Walk(w, r)
        BY <1>2
    <2> DEFINE c == [char[w] EXCEPT !.room = r]
    <2>2. c.gold = char[w].gold + 0 /\ Become(w, c)
        BY <1>1, <2>1 DEF Walk, Character
    <2>3. UNCHANGED caches /\ wealth' = wealth + 0
        <3>1. wealth \in Int
            BY PurseType DEF GoldInv
        <3> QED
            BY <2>1, <3>1 DEF Walk
    <2> HIDE DEF c
    <2> QED
        BY <2>2, <2>3, EarnGold
<1>3. CASE \E n \in Sums : Cache(w, n)
    <2>1. PICK n \in Sums : Cache(w, n)
        BY <1>3
    <2> DEFINE c == [char[w] EXCEPT !.gold = char[w].gold - n]
    <2>2. /\ n \in Int /\ c.gold = char[w].gold - n /\ Become(w, c) /\ UNCHANGED wealth
          /\ caches' = [caches EXCEPT ![char[w].room] = caches[char[w].room] + n]
        BY <1>1, <2>1, SumAssumption DEF Cache, Character
    <2> HIDE DEF c
    <2> QED
        BY <1>1, <2>2, CacheGold
<1>4. CASE \E n \in Sums : Earn(w, n)
    <2>1. PICK n \in Sums : Earn(w, n)
        BY <1>4
    <2> DEFINE c == [char[w] EXCEPT !.gold = char[w].gold + n]
    <2>2. /\ n \in Int /\ c.gold = char[w].gold + n /\ Become(w, c)
          /\ UNCHANGED caches /\ wealth' = wealth + n
        BY <1>1, <2>1, SumAssumption DEF Earn, Character
    <2> HIDE DEF c
    <2> QED
        BY <2>2, EarnGold
<1>5. CASE Gather(w)
    <2> DEFINE r == char[w].room
               c == [char[w] EXCEPT !.gold = char[w].gold + caches[r]]
               n == 0 - caches[r]
    <2>1. /\ n \in Int /\ c.gold = char[w].gold - n /\ caches[r] + n = 0
          /\ Become(w, c) /\ UNCHANGED wealth
        BY <1>1, <1>5 DEF Gather, Character
    <2>2. caches' = [caches EXCEPT ![r] = caches[r] + n]
        <3> HIDE DEF n
        <3> QED
            BY <1>5, <2>1 DEF Gather
    <2> HIDE DEF c, n
    <2> QED
        BY <1>1, <2>1, <2>2, CacheGold
<1>6. CASE \/ \E t \in char[w].pack : Use(w, t)
           \/ \E k \in Kinds : Reward(w, k)
    <2>1. \E c : c.gold = char[w].gold /\ Become(w, c) /\ UNCHANGED <<caches, wealth>>
        BY <1>1, <1>6 DEF Use, Reward, With, Without, Character
    <2>2. PICK c : c.gold = char[w].gold /\ Become(w, c) /\ UNCHANGED <<caches, wealth>>
        BY <2>1
    <2>3. c.gold = char[w].gold + 0 /\ wealth' = wealth + 0
        <3>1. wealth \in Int
            BY PurseType DEF GoldInv
        <3> QED
            BY <1>1, <2>2, <3>1
    <2> QED
        BY <2>2, <2>3, EarnGold
<1> QED
    BY <1>2, <1>3, <1>4, <1>5, <1>6

LEMMA TradeGold ==
    ASSUME GoldInv, ThingInv', NEW w \in Wanderers,
           \/ BuyDust(w)
           \/ \E k \in DOMAIN Price : Buy(w, k)
           \/ \E t \in char[w].pack : Sell(w, t)
    PROVE  GoldInv'
<1>1. char[w] \in Character /\ char[w].gold \in Int /\ wealth \in Int
    BY PurseType DEF GoldInv, ThingInv, Holdings, Character
<1>2. CASE BuyDust(w)
    <2> DEFINE paid == [char[w] EXCEPT !.gold = char[w].gold - HG_DUST_COST]
               n == 0 - HG_DUST_COST
    <2>1. n \in Int /\ paid.gold = char[w].gold + n
        BY <1>1 DEF HG_DUST_COST, Character
    <2>2. With(paid, Fresh(w, "dust")).gold = paid.gold
        BY DEF With
    <2>3. UNCHANGED caches /\ wealth' = wealth + n
        BY <1>1, <1>2 DEF BuyDust, HG_DUST_COST
    <2>4. Become(w, With(paid, Fresh(w, "dust"))) \/ Become(w, paid)
        BY <1>2 DEF BuyDust
    <2> HIDE DEF paid, n
    <2> QED
        BY <2>1, <2>2, <2>3, <2>4, EarnGold
<1>3. CASE \E k \in DOMAIN Price : Buy(w, k)
    <2>1. PICK k \in DOMAIN Price : Buy(w, k)
        BY <1>3
    <2> DEFINE d == With(char[w], Fresh(w, k))
               c == [d EXCEPT !.gold = @ - Price[k]]
               n == 0 - Price[k]
    <2>2. Price[k] \in Nat
        BY PriceNat
    <2>3. n \in Int /\ c.gold = char[w].gold + n
        BY <1>1, <2>2 DEF With, Character
    <2>4. Become(w, c) /\ UNCHANGED caches /\ wealth' = wealth + n
        BY <1>1, <2>1, <2>2 DEF Buy
    <2> HIDE DEF c, n
    <2> QED
        BY <2>3, <2>4, EarnGold
<1>4. CASE \E t \in char[w].pack : Sell(w, t)
    <2>1. PICK t \in char[w].pack : Sell(w, t)
        BY <1>4
    <2> DEFINE d == Without(char[w], t)
    <2>2. PICK paid \in {Value[t.kind], (Value[t.kind] * 12) \div 10} :
             /\ Become(w, [d EXCEPT !.gold = @ + paid])
             /\ wealth' = wealth + paid
        BY <2>1 DEF Sell
    <2>3. paid \in Int
        <3> DEFINE v == Value[t.kind]
        <3>1. v \in Nat
            BY <1>1, ValueNat DEF Character, Thing
        <3>2. v \in Nat => (v * 12) \div 10 \in Int
            <4> HIDE DEF v
            <4> QED
                OBVIOUS
        <3> QED
            BY <3>1, <3>2
    <2> DEFINE c == [d EXCEPT !.gold = @ + paid]
    <2>4. c.gold = char[w].gold + paid
        BY <1>1 DEF Without, Character
    <2>5. UNCHANGED caches
        BY <2>1 DEF Sell
    <2> HIDE DEF c
    <2> QED
        BY <2>2, <2>3, <2>4, <2>5, EarnGold DEF c
<1> QED
    BY <1>2, <1>3, <1>4

LEMMA GiveGold ==
    ASSUME GoldInv, ThingInv', NEW f \in Wanderers, NEW s \in Wanderers, Give(f, s)
    PROVE  GoldInv'
<1>1. PICK t \in char[f].pack : GiveSaves(f, s, t)
    BY DEF Give
<1> DEFINE less == Without(char[f], t)
           more == With(char[s], t)
<1>2. /\ online[f] /\ online[s] /\ f # s
      /\ less.gold = char[f].gold /\ more.gold = char[s].gold
    BY DEF Give, With, Without
<1> HIDE DEF less, more
<1>3. CASE /\ char' = [char EXCEPT ![f] = less, ![s] = more]
           /\ row' = [row EXCEPT ![f] = less, ![s] = more]
           /\ UNCHANGED <<online, caches, wealth>>
    <2>1. \A v \in Wanderers :
             /\ char'[v].gold = char[v].gold
             /\ online[v] => row'[v].gold = char[v].gold
             /\ ~online[v] => row'[v] = row[v]
        BY <1>2, <1>3 DEF GoldInv, GoldSaved, ThingInv, Holdings
    <2>2. GoldSaved'
        BY <1>3, <2>1 DEF GoldSaved
    <2>3. \A v \in Wanderers : Self(v)'.gold = Self(v).gold
        BY <1>3, <2>1 DEF Self
    <2> QED
        BY <1>3, <2>2, <2>3, SameGold
<1>4. CASE row' = [row EXCEPT ![f] = less] /\ LoseMemory
    <2>1. \A v \in Wanderers : row'[v].gold = row[v].gold
        BY <1>2, <1>4 DEF GoldInv, GoldSaved, ThingInv, Holdings
    <2> QED
        BY <1>4, <2>1, LossGold
<1> QED
    BY <1>1, <1>3, <1>4 DEF GiveSaves, less, more

-----------------------------------------------------------------------------
(* Theorems. *)

\* Every step keeps each thing with one holder at most.
THEOREM StepThings == ThingInv /\ [Next]_vars => ThingInv'
<1> SUFFICES ASSUME ThingInv, [Next]_vars PROVE ThingInv'
    OBVIOUS
<1>1. CASE Crash
    BY <1>1, CrashThings
<1>2. ASSUME NEW w \in Wanderers, Login(w) \/ Close(w) \/ \E r \in Rooms : Walk(w, r)
      PROVE  ThingInv'
    BY <1>2, LoginThings, CloseThings, WalkThings
<1>3. ASSUME NEW w \in Wanderers,
             (\E n \in Sums : Cache(w, n) \/ Earn(w, n)) \/ Gather(w)
      PROVE  ThingInv'
    BY <1>3, GoldThings
<1>4. ASSUME NEW w \in Wanderers, BuyDust(w) \/ \E k \in DOMAIN Price : Buy(w, k)
      PROVE  ThingInv'
    BY <1>4, BuyThings
<1>5. ASSUME NEW w \in Wanderers, \E t \in char[w].pack : Sell(w, t) \/ Use(w, t)
      PROVE  ThingInv'
    BY <1>5, SpendThings
<1>6. ASSUME NEW w \in Wanderers, Reward(w, "charm") \/ Reward(w, "antidote")
      PROVE  ThingInv'
    <2>1. "charm" \in Kinds /\ "antidote" \in Kinds
        BY DEF Kinds, Value
    <2> QED
        BY <1>6, <2>1, RewardThings
<1>7. ASSUME NEW w \in Wanderers, NEW s \in Wanderers, Give(w, s) PROVE ThingInv'
    BY <1>7, GiveThings
<1>8. CASE UNCHANGED vars
    BY <1>8 DEF vars, ThingInv, Holdings, Ledger, AllIssued, OnePlace, Held, Sound
<1> QED
    BY <1>1, <1>2, <1>3, <1>4, <1>5, <1>6, <1>7, <1>8 DEF Next

\* Whatever is bought, given, sold or used up, and wherever the process dies:
\* no thing is in two hands and none comes back (cmd_give, cmd_sell_item,
\* cmd_use, and the saves they make).
THEOREM ThingsInOnePlace == Spec => []OnePlace
<1>1. Init => ThingInv
    BY InitThings
<1>2. ThingInv /\ [Next]_vars => ThingInv'
    BY StepThings
<1>3. ThingInv => OnePlace
    BY DEF ThingInv, Holdings
<1> QED
    BY <1>1, <1>2, <1>3, PTL DEF Spec

\* Every step changes what there is by what it makes, loses or spends.
THEOREM StepGold == GoldInv /\ [Next]_vars => GoldInv'
<1> SUFFICES ASSUME GoldInv, [Next]_vars PROVE GoldInv'
    OBVIOUS
<1>1. ThingInv'
    BY StepThings DEF GoldInv
<1>2. CASE Crash
    BY <1>1, <1>2, LossGold DEF Crash
<1>3. ASSUME NEW w \in Wanderers, Login(w) \/ Close(w) PROVE GoldInv'
    BY <1>1, <1>3, SessionGold
<1>4. ASSUME NEW w \in Wanderers,
             \/ \E r \in Rooms : Walk(w, r)
             \/ \E n \in Sums : Cache(w, n) \/ Earn(w, n)
             \/ Gather(w)
             \/ \E t \in char[w].pack : Use(w, t)
             \/ Reward(w, "charm") \/ Reward(w, "antidote")
      PROVE  GoldInv'
    <2>1. "charm" \in Kinds /\ "antidote" \in Kinds
        BY DEF Kinds, Value
    <2> QED
        BY <1>1, <1>4, <2>1, VerbGold
<1>5. ASSUME NEW w \in Wanderers,
             \/ BuyDust(w)
             \/ \E k \in DOMAIN Price : Buy(w, k)
             \/ \E t \in char[w].pack : Sell(w, t)
      PROVE  GoldInv'
    BY <1>1, <1>5, TradeGold
<1>6. ASSUME NEW w \in Wanderers, NEW s \in Wanderers, Give(w, s) PROVE GoldInv'
    BY <1>1, <1>6, GiveGold
<1>7. CASE UNCHANGED vars
    <2>1. GoldSaved' /\ \A w \in Wanderers : Self(w)'.gold = Self(w).gold
        BY <1>7 DEF vars, GoldInv, GoldSaved, Self
    <2>2. UNCHANGED <<caches, wealth>>
        BY <1>7 DEF vars
    <2> QED
        BY <1>1, <2>1, <2>2, SameGold
<1> QED
    BY <1>2, <1>3, <1>4, <1>5, <1>6, <1>7 DEF Next

\* The gold people have and the gold in caches is what came in less what was
\* paid and what went down with the caches, for any wanderers, rooms and sums
\* (cmd_cache, cmd_gather, cmd_buy, cmd_sell_item, cmd_give, and their saves).
THEOREM AllGoldAccounted == Spec => []GoldAccounted
<1>1. Init => GoldInv
    BY InitGold
<1>2. GoldInv /\ [Next]_vars => GoldInv'
    BY StepGold
<1>3. GoldInv => GoldAccounted
    BY PeoplesGold DEF GoldInv, GoldAccounted, SumOf
<1> QED
    BY <1>1, <1>2, <1>3, PTL DEF Spec

\* No pack holds more than it may, and nobody owes (hg_character_add_item, and
\* the guards of cmd_cache and cmd_buy).
THEOREM PacksAndPurses == Spec => []TypeOK
<1>1. Init => ThingInv
    BY InitThings
<1>2. ThingInv /\ [Next]_vars => ThingInv'
    BY StepThings
<1>3. ThingInv => TypeOK
    BY DEF ThingInv, Holdings, Ledger, Sound, TypeOK
<1> QED
    BY <1>1, <1>2, <1>3, PTL DEF Spec

\* Aid leaves a room only as a whole, to someone there whose row has it, or
\* with the process (cmd_gather, take_cache, and the save that follows).
THEOREM AidIsFound == Spec => AidWaits
<1>1. Init => ThingInv
    BY InitThings
<1>2. ThingInv /\ [Next]_vars => ThingInv'
    BY StepThings
<1>3. ThingInv /\ [Next]_vars
         => [\A r \in Rooms : caches'[r] < caches[r] => Found(r) \/ ProcessEnds]_vars
    BY StepAid
<1> QED
    BY <1>1, <1>2, <1>3, PTL DEF Spec, AidWaits

=============================================================================
