--------------------------- MODULE MoralArc_proofs ---------------------------
(***************************************************************************)
(* MoralArc keeps what Arc promises, for any wanderers, rooms, sheets of   *)
(* the hub and bounds.                                                     *)
(***************************************************************************)
EXTENDS MoralArc, FiniteSetTheorems, TLAPS

\* Only who strayed has come back: without it, straying could skip a stage.
BackHadStrayed ==
    \A w \in Wanderers : /\ char[w].redeemed => char[w].strayed
                         /\ row[w].redeemed => row[w].strayed

\* What every verb keeps.
MarkInv == TypeOK /\ MarksOnDisk /\ BackHadStrayed

\* A character a verb may save: its marks are those of the session's.
SameMarks(c, d) == c.strayed = d.strayed /\ c.redeemed = d.redeemed

Settled(c) ==
    /\ c \in Character /\ c.morality <= HG_MORALITY_CEIL
    /\ c.redeemed => c.strayed

\* shift_morality moves the morality alone, and not above the ceiling.
LEMMA ShiftKeeps ==
    ASSUME NEW c, Settled(c), NEW delta \in Int
    PROVE  Settled(Shift(c, delta)) /\ SameMarks(Shift(c, delta), c)
    BY DEF Shift, Settled, SameMarks, Character, Faction, HG_MORALITY_CEIL, HG_MORALITY_FLOOR

\* moral_arc only marks.
LEMMA JudgeKeeps ==
    ASSUME NEW c, Settled(c)
    PROVE  /\ Settled(Judge(c))
           /\ Judge(c).sworn = c.sworn /\ Judge(c).faction = c.faction
           /\ Judge(c).strayed = (c.strayed \/ Strays(c))
           /\ Judge(c).redeemed = (c.redeemed \/ ComesBack(c))
    BY DEF Judge, Settled, Character, Strays, ComesBack

\* What the hub's sheet leaves of a character.
LEMMA ApplyKeeps ==
    ASSUME NEW c, Settled(c), NEW s \in Sheets
    PROVE  Settled(Apply(c, s)) /\ SameMarks(Apply(c, s), c)
    BY SheetAssumption DEF Apply, Settled, SameMarks, Character, HubSheet, Faction

LEMMA NewcomerSettled == Settled(Newcomer)
    BY RoomAssumption DEF Newcomer, Settled, Character, Faction, HG_MORALITY_CEIL

-----------------------------------------------------------------------------
(* How a step of MoralArc is read as a step of Arc. *)

ArcStep ==
    \/ Promise!Next
    \/ UNCHANGED <<[w \in Wanderers |-> Stage(Self(w))], grants>>

\* What may happen to one wanderer's stage.
Moves(w) ==
    \/ Stage(Self(w))' = Stage(Self(w)) /\ UNCHANGED grants
    \/ /\ Stage(Self(w)) = "steady" /\ Stage(Self(w))' = "strayed"
       /\ UNCHANGED grants
    \/ /\ Stage(Self(w)) = "strayed" /\ Stage(Self(w))' = "back"
       /\ Self(w).faction' # "front"
       /\ \/ ~Self(w).sworn' /\ grants' = [grants EXCEPT ![w] = @ + 1]
          \/ Self(w).sworn' /\ UNCHANGED grants

\* A step in which at most one wanderer's stage moves, and moves so, is Arc's.
LEMMA OneMoves ==
    ASSUME NEW w \in Wanderers, Moves(w),
           \A v \in Wanderers \ {w} : Stage(Self(v))' = Stage(Self(v))
    PROVE  ArcStep
    <1> DEFINE stages == [v \in Wanderers |-> Stage(Self(v))]
               after  == Stage(Self(w))'
    <1>1. stages' = [stages EXCEPT ![w] = after]
        OBVIOUS
    <1>2. CASE Stage(Self(w))' = Stage(Self(w)) /\ UNCHANGED grants
        BY <1>1, <1>2 DEF ArcStep
    <1>3. CASE /\ Stage(Self(w)) = "steady" /\ Stage(Self(w))' = "strayed"
               /\ UNCHANGED grants
        <2>1. Promise!Stray(w)
            BY <1>1, <1>3 DEF Promise!Stray
        <2> QED BY <2>1 DEF ArcStep, Promise!Next
    <1>4. CASE /\ Stage(Self(w)) = "strayed" /\ Stage(Self(w))' = "back"
               /\ Self(w).faction' # "front" /\ ~Self(w).sworn'
               /\ grants' = [grants EXCEPT ![w] = @ + 1]
        <2>1. Promise!Return(w)
            BY <1>1, <1>4 DEF Promise!Return
        <2> QED BY <2>1 DEF ArcStep, Promise!Next
    <1>5. CASE /\ Stage(Self(w)) = "strayed" /\ Stage(Self(w))' = "back"
               /\ Self(w).faction' # "front" /\ Self(w).sworn'
               /\ UNCHANGED grants
        <2>1. Promise!Penance(w)
            BY <1>1, <1>5 DEF Promise!Penance
        <2> QED BY <2>1 DEF ArcStep, Promise!Next
    <1> QED BY <1>2, <1>3, <1>4, <1>5 DEF Moves

-----------------------------------------------------------------------------
(* The verbs. *)

\* A crash forgets what the rows say anyway.
LEMMA CrashStep ==
    ASSUME MarkInv, LoseMemory, UNCHANGED grants, deeds' \in Nat, logins' \in Nat,
           row' \in [Wanderers -> Character],
           \A w \in Wanderers : Settled(row'[w]) /\ SameMarks(row'[w], row[w])
    PROVE  MarkInv' /\ ArcStep
    <1>1. TypeOK'
        <2>1. /\ online' \in [Wanderers -> BOOLEAN] /\ char' \in [Wanderers -> Character]
              /\ \A w \in Wanderers : char'[w].morality <= HG_MORALITY_CEIL
            BY NewcomerSettled DEF LoseMemory, Settled
        <2>2. /\ resolved' \in [Wanderers -> BOOLEAN] /\ forgiven' \subseteq Pairs
              /\ given' \in [Pairs -> Nat] /\ grants' \in [Wanderers -> Nat]
            BY DEF MarkInv, TypeOK, LoseMemory
        <2> QED BY <2>1, <2>2 DEF TypeOK, Settled
    <1>2. MarksOnDisk' /\ BackHadStrayed'
        BY NewcomerSettled DEF MarksOnDisk, BackHadStrayed, LoseMemory, Settled
    <1>3. \A w \in Wanderers : Stage(Self(w))' = Stage(Self(w))
        BY DEF MarkInv, MarksOnDisk, Self, Stage, SameMarks, LoseMemory
    <1> QED BY <1>1, <1>2, <1>3 DEF MarkInv, ArcStep

\* A verb that saves a character with the marks it had.
LEMMA SaveStep ==
    ASSUME MarkInv, NEW w \in Wanderers, online[w], UNCHANGED <<online, grants>>,
           NEW c, Settled(c), SameMarks(c, char[w]),
           char' = [char EXCEPT ![w] = c], row' = [row EXCEPT ![w] = c],
           UNCHANGED <<resolved, forgiven, given>>, deeds' \in Nat, logins' \in Nat
    PROVE  MarkInv' /\ ArcStep
    <1>1. TypeOK'
        BY DEF MarkInv, TypeOK, Settled
    <1>2. MarksOnDisk' /\ BackHadStrayed'
        BY DEF MarkInv, TypeOK, MarksOnDisk, BackHadStrayed, Settled
    <1>3. \A v \in Wanderers : Stage(Self(v))' = Stage(Self(v))
        BY DEF MarkInv, TypeOK, Self, Stage, SameMarks
    <1> QED BY <1>1, <1>2, <1>3 DEF MarkInv, ArcStep

\* A verb that moral_arc follows.
LEMMA DeedStep ==
    ASSUME MarkInv, NEW w \in Wanderers, online[w],
           NEW c, Settled(c), SameMarks(c, char[w]), NEW stand \in BOOLEAN,
           Deed(w, c, stand)
    PROVE  MarkInv' /\ ArcStep
    <1>0. deeds' \in Nat /\ logins' \in Nat
        BY DEF MarkInv, TypeOK, Deed
    <1>1. CASE MoralArc(w, c) /\ UNCHANGED <<online, forgiven, given>>
                 /\ resolved' = [resolved EXCEPT ![w] = @ \/ stand]
        <2>1. Settled(Judge(c))
            BY JudgeKeeps
        <2>2. /\ char' = [char EXCEPT ![w] = Judge(c)] /\ row' = [row EXCEPT ![w] = Judge(c)]
              /\ grants' \in [Wanderers -> Nat]
            BY <1>1 DEF MoralArc, Return, MarkInv, TypeOK
        <2>3. TypeOK'
            BY <1>0, <1>1, <2>1, <2>2 DEF MarkInv, TypeOK, Settled
        <2>4. MarksOnDisk' /\ BackHadStrayed'
            BY <1>1, <2>1, <2>2 DEF MarkInv, TypeOK, MarksOnDisk, BackHadStrayed, Settled
        <2>5. \A v \in Wanderers \ {w} : Stage(Self(v))' = Stage(Self(v))
            BY <1>1, <2>2 DEF MarkInv, TypeOK, Self
        <2>6. Self(w) = char[w] /\ Self(w)' = Judge(c)
            BY <1>1, <2>2 DEF MarkInv, TypeOK, Self
        <2>7. Moves(w)
            <3>1. CASE Strays(c)
                <4>1. Stage(char[w]) = "steady" /\ Stage(Judge(c)) = "strayed"
                    BY <3>1, JudgeKeeps DEF Stage, Strays, ComesBack, SameMarks, Settled
                <4>2. UNCHANGED grants
                    BY <1>1, <3>1 DEF MoralArc, Strays, ComesBack
                <4> QED BY <2>6, <4>1, <4>2 DEF Moves
            <3>2. CASE ComesBack(c) /\ ~Strays(c)
                BY <1>1, <2>6, <3>2, JudgeKeeps
                   DEF Moves, Stage, ComesBack, SameMarks, MoralArc, Return, Settled, Character
            <3>3. CASE ~ComesBack(c) /\ ~Strays(c)
                <4>1. Stage(Judge(c)) = Stage(char[w])
                    BY <3>3, JudgeKeeps DEF Stage, SameMarks
                <4>2. UNCHANGED grants
                    BY <1>1, <3>3 DEF MoralArc
                <4> QED BY <2>6, <4>1, <4>2 DEF Moves
            <3> QED BY <3>1, <3>2, <3>3
        <2> QED BY <2>3, <2>4, <2>5, <2>7, OneMoves DEF MarkInv
    <1>2. CASE row' = [row EXCEPT ![w] = c] /\ LoseMemory /\ UNCHANGED grants
        <2>1. row' \in [Wanderers -> Character]
            BY <1>2 DEF MarkInv, TypeOK, Settled
        <2>2. \A v \in Wanderers : Settled(row'[v]) /\ SameMarks(row'[v], row[v])
            BY <1>2 DEF MarkInv, TypeOK, MarksOnDisk, BackHadStrayed, Settled, SameMarks
        <2> QED BY <1>0, <1>2, <2>1, <2>2, CrashStep
    <1> QED BY <1>1, <1>2 DEF Deed

LEMMA AllSettled ==
    ASSUME MarkInv, NEW w \in Wanderers
    PROVE  Settled(char[w]) /\ Settled(row[w])
    BY DEF MarkInv, TypeOK, BackHadStrayed, Settled

LEMMA LoginStep ==
    ASSUME MarkInv, NEW w \in Wanderers, Login(w)
    PROVE  MarkInv' /\ ArcStep
    <1>1. PICK c \in {row[w]} \cup {Apply(row[w], s) : s \in Sheets} :
              char' = [char EXCEPT ![w] = c]
        BY DEF Login
    <1>2. Settled(c) /\ SameMarks(c, row[w])
        BY <1>1, AllSettled, ApplyKeeps DEF SameMarks
    <1>3. TypeOK'
        BY <1>1, <1>2 DEF MarkInv, TypeOK, Login, Settled
    <1>4. MarksOnDisk' /\ BackHadStrayed'
        BY <1>1, <1>2 DEF MarkInv, TypeOK, MarksOnDisk, BackHadStrayed, Login, Settled, SameMarks
    <1>5. \A v \in Wanderers : Stage(Self(v))' = Stage(Self(v))
        BY <1>1, <1>2 DEF MarkInv, TypeOK, Self, Stage, SameMarks, Login
    <1> QED BY <1>3, <1>4, <1>5 DEF MarkInv, ArcStep, Login

LEMMA CloseStep ==
    ASSUME MarkInv, NEW w \in Wanderers, Close(w)
    PROVE  MarkInv' /\ ArcStep
    <1>1. TypeOK'
        BY NewcomerSettled DEF MarkInv, TypeOK, Close, Settled
    <1>2. MarksOnDisk' /\ BackHadStrayed'
        BY NewcomerSettled, AllSettled
           DEF MarkInv, TypeOK, MarksOnDisk, BackHadStrayed, Close, Settled
    <1>3. \A v \in Wanderers : Stage(Self(v))' = Stage(Self(v))
        BY DEF MarkInv, TypeOK, Self, Stage, Close
    <1> QED BY <1>1, <1>2, <1>3 DEF MarkInv, ArcStep, Close

\* Forgiveness moves two characters, and the stage of one.
LEMMA ForgiveStep ==
    ASSUME MarkInv, NEW f \in Wanderers, NEW s \in Wanderers, Forgive(f, s)
    PROVE  MarkInv' /\ ArcStep
    <1> DEFINE up == char[s].morality + 5
               c  == [char[s] EXCEPT
                        !.morality = IF up > HG_MORALITY_CEIL THEN HG_MORALITY_CEIL ELSE up]
               d  == [c EXCEPT !.redeemed = @ \/ Lifts(c)]
               e  == Shift(char[f], 2)
    <1>1. Settled(char[f]) /\ Settled(char[s])
        BY AllSettled
    <1>2. Settled(c) /\ SameMarks(c, char[s])
        BY <1>1 DEF Settled, SameMarks, Character, HG_MORALITY_CEIL
    <1>3. Settled(d) /\ d.strayed = c.strayed /\ d.redeemed = (c.redeemed \/ Lifts(c))
          /\ d.sworn = c.sworn /\ d.faction = c.faction
        BY <1>2 DEF Settled, Character, Lifts
    <1>4. Settled(e) /\ SameMarks(e, char[f])
        BY <1>1, ShiftKeeps
    <1>5. /\ f # s /\ online[f] /\ online[s] /\ UNCHANGED <<online, resolved, logins>>
          /\ deeds' = deeds + 1
          /\ char' = [char EXCEPT ![s] = d, ![f] = e]
          /\ \/ Lifts(c) /\ Return(s)
             \/ ~Lifts(c) /\ UNCHANGED grants
          /\ row' = [row EXCEPT ![s] = char'[s], ![f] = char'[f]]
        BY DEF Forgive, MarkInv, TypeOK
    <1>6. char'[s] = d /\ char'[f] = e /\ row'[s] = d /\ row'[f] = e
        BY <1>5 DEF MarkInv, TypeOK
    <1>7. /\ char' \in [Wanderers -> Character] /\ row' \in [Wanderers -> Character]
          /\ \A v \in Wanderers : Settled(char'[v]) /\ Settled(row'[v])
        BY <1>3, <1>4, <1>5, <1>6, AllSettled DEF MarkInv, TypeOK, Settled
    <1>8. TypeOK'
        <2>1. forgiven' \subseteq Pairs /\ given' \in [Pairs -> Nat]
            BY DEF Forgive, MarkForgiven, MarkInv, TypeOK, Pairs
        <2>2. grants' \in [Wanderers -> Nat]
            BY <1>5 DEF Return, MarkInv, TypeOK
        <2>3. \A v \in Wanderers : /\ char'[v].morality <= HG_MORALITY_CEIL
                                   /\ row'[v].morality <= HG_MORALITY_CEIL
            BY <1>7 DEF Settled
        <2>4. /\ online' \in [Wanderers -> BOOLEAN] /\ resolved' \in [Wanderers -> BOOLEAN]
              /\ deeds' \in Nat /\ logins' \in Nat
            BY <1>5 DEF MarkInv, TypeOK
        <2> QED BY <1>7, <2>1, <2>2, <2>3, <2>4 DEF TypeOK
    <1>0. \A v \in Wanderers \ {s, f} : char'[v] = char[v] /\ row'[v] = row[v]
        BY <1>5 DEF MarkInv, TypeOK
    <1> HIDE DEF d, e
    <1>9. MarksOnDisk' /\ BackHadStrayed'
        <2>1. BackHadStrayed'
            BY <1>7 DEF BackHadStrayed, Settled
        <2>2. ASSUME NEW v \in Wanderers, online[v]
              PROVE  row'[v].strayed = char'[v].strayed /\ row'[v].redeemed = char'[v].redeemed
            <3>1. CASE v \in {s, f}
                BY <1>6, <3>1
            <3>2. CASE v \notin {s, f}
                BY <1>0, <2>2, <3>2 DEF MarkInv, MarksOnDisk
            <3> QED BY <3>1, <3>2
        <2> QED BY <1>5, <2>1, <2>2 DEF MarksOnDisk
    <1>10. \A v \in Wanderers \ {s} : Stage(Self(v))' = Stage(Self(v))
        <2>1. Stage(Self(f))' = Stage(Self(f))
            <3>1. Self(f) = char[f] /\ Self(f)' = e
                BY <1>5, <1>6 DEF Self
            <3>2. Stage(e) = Stage(char[f])
                BY <1>4 DEF Stage, SameMarks
            <3> QED BY <3>1, <3>2 DEF Stage
        <2>2. ASSUME NEW v \in Wanderers \ {s, f} PROVE Self(v)' = Self(v)
            BY <1>0, <1>5 DEF Self
        <2> QED BY <2>1, <2>2 DEF Stage
    <1>11. Moves(s)
        <2>1. Self(s) = char[s] /\ Self(s)' = d
            BY <1>5, <1>6 DEF Self
        <2>2. CASE Lifts(c)
            BY <1>2, <1>3, <1>5, <2>1, <2>2 DEF Moves, Stage, Lifts, SameMarks, Return
        <2>3. CASE ~Lifts(c)
            <3>1. Stage(d) = Stage(char[s])
                BY <1>2, <1>3, <2>3 DEF Stage, SameMarks
            <3>2. UNCHANGED grants
                BY <1>5, <2>3
            <3> QED BY <2>1, <3>1, <3>2 DEF Moves
        <2> QED BY <2>2, <2>3
    <1> QED BY <1>8, <1>9, <1>10, <1>11, OneMoves DEF MarkInv

-----------------------------------------------------------------------------
(* The results. *)

LEMMA MarkInit == Init => MarkInv /\ Promise!Init
    <1> SUFFICES ASSUME Init PROVE MarkInv /\ Promise!Init
        OBVIOUS
    <1>1. TypeOK
        BY NewcomerSettled DEF Init, TypeOK, Settled
    <1>2. MarksOnDisk /\ BackHadStrayed
        BY DEF Init, MarksOnDisk, BackHadStrayed, Newcomer
    <1>3. Promise!Init
        BY DEF Init, Promise!Init, Self, Stage, Newcomer
    <1> QED BY <1>1, <1>2, <1>3 DEF MarkInv

LEMMA MarkStep == MarkInv /\ [Next]_vars => MarkInv' /\ ArcStep
    <1> SUFFICES ASSUME MarkInv, [Next]_vars PROVE MarkInv' /\ ArcStep
        OBVIOUS
    <1>1. CASE UNCHANGED vars
        BY <1>1 DEF vars, MarkInv, TypeOK, MarksOnDisk, BackHadStrayed, ArcStep, Self, Stage
    <1>2. CASE Crash
        BY <1>2, AllSettled, CrashStep
           DEF Crash, MarkInv, TypeOK, SameMarks, Settled
    <1>3. ASSUME NEW w \in Wanderers, Login(w) \/ Close(w) PROVE MarkInv' /\ ArcStep
        BY <1>3, LoginStep, CloseStep
    <1>4. ASSUME NEW w \in Wanderers, NEW r \in Rooms, Walk(w, r) PROVE MarkInv' /\ ArcStep
        <2> DEFINE c == [char[w] EXCEPT !.room = r]
        <2>1. Settled(c) /\ SameMarks(c, char[w])
            BY AllSettled DEF Settled, SameMarks, Character
        <2>2. char' = [char EXCEPT ![w] = c] /\ row' = [row EXCEPT ![w] = c]
            BY <1>4 DEF Walk, MarkInv, TypeOK
        <2> QED BY <1>4, <2>1, <2>2, SaveStep DEF Walk, MarkInv, TypeOK
    <1>5. ASSUME NEW w \in Wanderers, DaisPledge(w) \/ Join(w) PROVE MarkInv' /\ ArcStep
        <2> DEFINE c == [char[w] EXCEPT !.faction = "front", !.sworn = @ \/ w \in Hunted]
        <2>1. Settled(c) /\ SameMarks(c, char[w])
            BY AllSettled DEF Settled, SameMarks, Character, Faction
        <2>2. ASSUME NEW x \in Int
              PROVE  Settled(Sworn(w, x)) /\ SameMarks(Sworn(w, x), char[w])
            <3> DEFINE y == IF w \in Hunted THEN -40 ELSE x
            <3>1. y \in Int /\ Sworn(w, x) = Shift(c, y)
                BY DEF Sworn
            <3> HIDE DEF c, y
            <3>2. Settled(Shift(c, y)) /\ SameMarks(Shift(c, y), c)
                BY <2>1, <3>1, ShiftKeeps
            <3> QED BY <2>1, <3>1, <3>2 DEF SameMarks
        <2>3. CASE DaisPledge(w)
            <3> DEFINE d == Sworn(w, -25)
            <3>1. online[w] /\ Deed(w, d, FALSE)
                BY <2>3 DEF DaisPledge
            <3>2. Settled(d) /\ SameMarks(d, char[w])
                BY <2>2
            <3> HIDE DEF d
            <3> QED BY <3>1, <3>2, DeedStep
        <2>4. CASE Join(w)
            <3> DEFINE d == Sworn(w, -15)
            <3>1. online[w] /\ Deed(w, d, TRUE)
                BY <2>4 DEF Join
            <3>2. Settled(d) /\ SameMarks(d, char[w])
                BY <2>2
            <3> HIDE DEF d
            <3> QED BY <3>1, <3>2, DeedStep
        <2> QED BY <1>5, <2>3, <2>4
    <1>6. ASSUME NEW w \in Wanderers, Defend(w) \/ DaisDefect(w) PROVE MarkInv' /\ ArcStep
        <2> DEFINE c == [char[w] EXCEPT !.faction = "ally"]
        <2>1. Settled(c) /\ SameMarks(c, char[w])
            BY AllSettled DEF Settled, SameMarks, Character, Faction
        <2>2. ASSUME NEW x \in Int PROVE Settled(Shift(c, x)) /\ SameMarks(Shift(c, x), c)
            <3> HIDE DEF c
            <3> QED BY <2>1, ShiftKeeps
        <2>3. CASE Defend(w)
            <3> DEFINE d == Shift(c, 10)
            <3>1. online[w] /\ Deed(w, d, TRUE)
                BY <2>3 DEF Defend
            <3>2. Settled(d) /\ SameMarks(d, char[w])
                BY <2>1, <2>2 DEF SameMarks
            <3> HIDE DEF d
            <3> QED BY <3>1, <3>2, DeedStep
        <2>4. CASE DaisDefect(w)
            <3> DEFINE d == Shift(c, 30)
            <3>1. online[w] /\ Deed(w, d, FALSE)
                BY <2>4 DEF DaisDefect
            <3>2. Settled(d) /\ SameMarks(d, char[w])
                BY <2>1, <2>2 DEF SameMarks
            <3> HIDE DEF d
            <3> QED BY <3>1, <3>2, DeedStep
        <2> QED BY <1>6, <2>3, <2>4
    <1>7. ASSUME NEW w \in Wanderers, Free(w) \/ Steal(w) PROVE MarkInv' /\ ArcStep
        <2>1. ASSUME NEW x \in Int
              PROVE  Settled(Shift(char[w], x)) /\ SameMarks(Shift(char[w], x), char[w])
            BY AllSettled, ShiftKeeps
        <2>2. CASE Free(w)
            <3>1. PICK x \in {12, 15} : Deed(w, Shift(char[w], x), FALSE)
                BY <2>2 DEF Free
            <3> DEFINE d == Shift(char[w], x)
            <3>2. Settled(d) /\ SameMarks(d, char[w])
                BY <2>1
            <3>3. online[w] /\ Deed(w, d, FALSE)
                BY <2>2, <3>1 DEF Free
            <3> HIDE DEF d
            <3> QED BY <3>2, <3>3, DeedStep
        <2>3. CASE Steal(w)
            <3> DEFINE d == Shift(char[w], -8)
            <3>1. online[w] /\ Deed(w, d, FALSE)
                BY <2>3 DEF Steal
            <3>2. Settled(d) /\ SameMarks(d, char[w])
                BY <2>1 DEF SameMarks
            <3> HIDE DEF d
            <3> QED BY <3>1, <3>2, DeedStep
        <2> QED BY <1>7, <2>2, <2>3
    <1>8. ASSUME NEW w \in Wanderers, SmallGood(w) PROVE MarkInv' /\ ArcStep
        <2> DEFINE c == Shift(char[w], 2)
        <2>1. Settled(c) /\ SameMarks(c, char[w])
            BY AllSettled, ShiftKeeps
        <2>2. char' = [char EXCEPT ![w] = c] /\ row' = [row EXCEPT ![w] = c]
            BY <1>8 DEF SmallGood, MarkInv, TypeOK
        <2>3. /\ online[w] /\ UNCHANGED <<online, resolved, forgiven, given, grants>>
              /\ deeds' \in Nat /\ logins' \in Nat
            BY <1>8 DEF SmallGood, MarkInv, TypeOK
        <2> HIDE DEF c
        <2> QED BY <2>1, <2>2, <2>3, SaveStep
    <1>9. ASSUME NEW w \in Wanderers, Dose(w) PROVE MarkInv' /\ ArcStep
        <2> DEFINE c == [char[w] EXCEPT !.morality = @ - 10]
        <2>1. Settled(c) /\ SameMarks(c, char[w])
            BY AllSettled DEF Settled, SameMarks, Character, HG_MORALITY_CEIL
        <2>2. char' = [char EXCEPT ![w] = c] /\ row' = [row EXCEPT ![w] = c]
            BY <1>9 DEF Dose, MarkInv, TypeOK
        <2>3. /\ online[w] /\ UNCHANGED <<online, resolved, forgiven, given, grants>>
              /\ deeds' \in Nat /\ logins' \in Nat
            BY <1>9 DEF Dose, MarkInv, TypeOK
        <2> HIDE DEF c
        <2> QED BY <2>1, <2>2, <2>3, SaveStep
    <1> QED BY <1>1, <1>2, <1>3, <1>4, <1>5, <1>6, <1>7, <1>8, <1>9, ForgiveStep DEF Next

LEMMA MarkAlways == Spec => []MarkInv
    <1>1. Init => MarkInv
        BY MarkInit
    <1>2. MarkInv /\ [Next]_vars => MarkInv'
        BY MarkStep
    <1> QED BY <1>1, <1>2, PTL DEF Spec

\* Every variable keeps its type, and no morality in memory or in a row is above its
\* ceiling.  (shift_morality, cmd_forgive.)
THEOREM ArcTypes == Spec => []TypeOK
    <1>1. MarkInv => TypeOK
        BY DEF MarkInv
    <1> QED BY <1>1, MarkAlways, PTL

\* A crash takes no mark of moral_arc back.
THEOREM MarksSurvive == Spec => []MarksOnDisk
    <1>1. MarkInv => MarksOnDisk
        BY DEF MarkInv
    <1> QED BY <1>1, MarkAlways, PTL

\* MoralArc implements Arc: one strays once, comes back once, and is named the
\* Returned only if neither branded nor of the Front.
THEOREM ArcIsKept == Spec => ArcKept
    <1>1. Init => MarkInv /\ Promise!Init
        BY MarkInit
    <1>2. MarkInv /\ [Next]_vars => MarkInv'
        BY MarkStep
    <1>3. MarkInv /\ [Next]_vars =>
              [Promise!Next]_<<[w \in Wanderers |-> Stage(Self(w))], grants>>
        BY MarkStep DEF ArcStep
    <1> QED BY <1>1, <1>2, <1>3, PTL DEF Spec, ArcKept, Promise!Spec

-----------------------------------------------------------------------------
(* The table of forgiven pairs. *)

\* Who can forgive whom: nobody forgives themselves.
Others == {p \in Pairs : p[1] # p[2]}

TableHoldsAll == IsFiniteSet(Others) /\ Cardinality(Others) <= MaxForgiven

\* The table says exactly what this process let each pair do.
TableTrue ==
    /\ forgiven \subseteq Others
    /\ given = [p \in Pairs |-> IF p \in forgiven THEN 1 ELSE 0]

\* With room for all, a pair that is not in the table finds room in it.
LEMMA RoomForOneMore ==
    ASSUME TableHoldsAll, NEW p \in Others, NEW T \in SUBSET Others, p \notin T
    PROVE  Cardinality(T) < MaxForgiven
    <1>1. IsFiniteSet(T) /\ T \cup {p} \in SUBSET Others
        BY FS_Subset DEF TableHoldsAll
    <1>2. Cardinality(T \cup {p}) = Cardinality(T) + 1
        BY <1>1, FS_AddElement
    <1>3. Cardinality(T \cup {p}) <= Cardinality(Others)
        BY <1>1, FS_Subset DEF TableHoldsAll
    <1>4. Cardinality(T) \in Nat /\ Cardinality(Others) \in Nat
        BY <1>1, FS_CardinalityType DEF TableHoldsAll
    <1> QED BY <1>2, <1>3, <1>4, CapAssumption DEF TableHoldsAll

LEMMA TableStep ==
    ASSUME TableHoldsAll, TableTrue, [Next]_vars
    PROVE  TableTrue'
    <1>1. CASE UNCHANGED <<forgiven, given>>
        BY <1>1 DEF TableTrue
    <1>2. CASE LoseMemory
        BY <1>2 DEF LoseMemory, TableTrue
    <1>3. ASSUME NEW f \in Wanderers, NEW s \in Wanderers, Forgive(f, s)
          PROVE  TableTrue'
        <2>1. <<f, s>> \in Others /\ <<f, s>> \notin forgiven
            BY <1>3 DEF Forgive, HasForgiven, Others, Pairs
        <2>2. Cardinality(forgiven) < MaxForgiven
            BY <2>1, RoomForOneMore DEF TableTrue
        <2>3. /\ forgiven' = forgiven \cup {<<f, s>>}
              /\ given' = [given EXCEPT ![<<f, s>>] = @ + 1]
            BY <1>3, <2>2 DEF Forgive, MarkForgiven
        <2> QED BY <2>1, <2>3 DEF TableTrue, Others
    <1> QED BY <1>1, <1>2, <1>3
            DEF Next, vars, Crash, Login, Close, Walk, DaisPledge, Join, Defend, DaisDefect,
                Free, Steal, SmallGood, Dose, Deed

\* One process lets each pair forgive once, if its table can hold every pair.
THEOREM ForgivenOnceOnly ==
    ASSUME TableHoldsAll
    PROVE  Spec => []ForgivenOnce
    <1>1. Init => TableTrue
        BY DEF Init, TableTrue
    <1>2. TableTrue /\ [Next]_vars => TableTrue'
        BY TableStep
    <1>3. TableTrue => ForgivenOnce
        BY DEF TableTrue, ForgivenOnce
    <1> QED BY <1>1, <1>2, <1>3, PTL DEF Spec

=============================================================================
