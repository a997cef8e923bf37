-------------------------- MODULE Identity_proofs --------------------------
(* Proofs about Identity, for any sessions, names, queue sizes and mode.    *)
EXTENDS Identity, FiniteSetTheorems, SequenceTheorems, TLAPS

-----------------------------------------------------------------------------
(* The queues. *)

\* A queue with room made for one more entry is a queue of the old entries, in
\* their order.  (The memmove in commit_hub, queue_char_load, flush_pending_loads.)
LEMMA MakeRoomLemma ==
    ASSUME NEW S, NEW q \in Seq(S), NEW cap \in Nat \ {0}
    PROVE  /\ MakeRoom(q, cap) \in Seq(S)
           /\ MakeRoom(q, cap) = q \/ (q # <<>> /\ MakeRoom(q, cap) = Tail(q))
  BY DEF MakeRoom

\* queue_char_load keeps a queue of names.
LEMMA QueueLoadType ==
    ASSUME NEW q \in Seq(Names), NEW n \in Names
    PROVE  QueueLoad(q, n) \in Seq(Names)
  BY MakeRoomLemma, CapAssumption DEF QueueLoad

\* session_unregister keeps a list of sessions.
LEMMA UnlinkType ==
    ASSUME NEW q \in Seq(Sessions), NEW s
    PROVE  Unlink(q, s) \in Seq(Sessions)
  <1>1. CASE s \notin Queued(q)
    BY <1>1 DEF Unlink
  <1>2. CASE s \in Queued(q)
    <2> DEFINE k == CHOOSE i \in DOMAIN q : q[i] = s
    <2>1. k \in 1..Len(q)
      BY <1>2 DEF Queued
    <2> HIDE DEF k
    <2>2. (\A i \in 1..(k - 1) : q[i] \in Sessions) /\ \A i \in (k + 1)..Len(q) : q[i] \in Sessions
      BY <2>1
    <2>4. SubSeq(q, 1, k - 1) \in Seq(Sessions)
      BY <2>1, <2>2, SubSeqProperties
    <2>5. SubSeq(q, k + 1, Len(q)) \in Seq(Sessions)
      BY <2>1, <2>2, SubSeqProperties
    <2>3. Unlink(q, s) = SubSeq(q, 1, k - 1) \o SubSeq(q, k + 1, Len(q))
      BY <1>2 DEF Unlink, k
    <2> QED BY <2>4, <2>5, <2>3
  <1> QED BY <1>1, <1>2

\* No name is twice in a queue of commits.
Distinct(q) == \A i, j \in DOMAIN q : q[i].name = q[j].name => i = j

\* What commit_hub makes of the queue: the new commit, and older entries of
\* other names, no name twice.
LEMMA QueueCommitLemma ==
    ASSUME NEW q \in Seq(Commit), NEW c \in Commit, Distinct(q)
    PROVE  LET r == QueueCommit(q, c) IN
           /\ r \in Seq(Commit)
           /\ Distinct(r)
           /\ \A i \in DOMAIN r : \/ r[i] = c
                                  \/ r[i].name # c.name /\ \E j \in DOMAIN q : r[i] = q[j]
  <1> DEFINE r == QueueCommit(q, c)
  <1>1. CASE c.name \in NamesIn(q)
    <2>1. r = [i \in DOMAIN q |-> IF q[i].name = c.name THEN c ELSE q[i]]
      BY <1>1 DEF QueueCommit
    <2>2. DOMAIN r = 1..Len(q) /\ \A i \in DOMAIN r : r[i] \in Commit
      BY <2>1
    <2>3. r \in Seq(Commit)
      <3>1. r \in [1..Len(q) -> Commit]
        BY <2>1
      <3> QED BY <3>1
    <2>4. \A i \in DOMAIN q : r[i].name = q[i].name
      BY <2>1
    <2> QED BY <2>1, <2>2, <2>3, <2>4 DEF Distinct
  <1>2. CASE c.name \notin NamesIn(q)
    <2> DEFINE m == MakeRoom(q, CommitCap)
    <2>1. r = Append(m, c)
      BY <1>2 DEF QueueCommit
    <2>2. m \in Seq(Commit) /\ (m = q \/ (q # <<>> /\ m = Tail(q)))
      BY MakeRoomLemma, CapAssumption
    <2>3. \A j \in DOMAIN q : q[j].name # c.name
      BY <1>2 DEF NamesIn, Queued
    <2>4. Distinct(m) /\ \A i \in DOMAIN m : \E j \in DOMAIN q : m[i] = q[j]
      <3>1. CASE m = q
        BY <3>1
      <3>2. CASE q # <<>> /\ m = Tail(q)
        <4>1. DOMAIN m = 1..(Len(q) - 1) /\ \A i \in DOMAIN m : m[i] = q[i + 1] /\ i + 1 \in DOMAIN q
          BY <3>2
        <4>2. \A i, j \in DOMAIN m : m[i].name = m[j].name => i = j
          <5> TAKE i, j \in DOMAIN m
          <5> HAVE m[i].name = m[j].name
          <5>1. q[i + 1].name = q[j + 1].name /\ i + 1 \in DOMAIN q /\ j + 1 \in DOMAIN q
            BY <4>1
          <5>2. i + 1 = j + 1
            BY <5>1 DEF Distinct
          <5>3. i \in Int /\ j \in Int
            BY <4>1
          <5> QED BY <5>2, <5>3
        <4> QED BY <4>1, <4>2 DEF Distinct
      <3> QED BY <2>2, <3>1, <3>2
    <2>5. /\ r \in Seq(Commit)
          /\ DOMAIN r = 1..(Len(m) + 1)
          /\ r[Len(m) + 1] = c
          /\ \A i \in 1..Len(m) : r[i] = m[i]
      <3> HIDE DEF r, m
      <3> QED BY <2>1, <2>2
    <2>6. \A i \in 1..Len(m) : r[i].name # c.name /\ \E j \in DOMAIN q : r[i] = q[j]
      BY <2>2, <2>3, <2>4, <2>5
    <2> HIDE DEF r, m
    <2>7. \A i \in DOMAIN r : i = Len(m) + 1 \/ i \in DOMAIN m
      BY <2>2, <2>5
    <2>8. Distinct(r)
      <3> SUFFICES ASSUME NEW i \in DOMAIN r, NEW j \in DOMAIN r, r[i].name = r[j].name
                   PROVE  i = j
        BY DEF Distinct
      <3>1. CASE i = Len(m) + 1 /\ j = Len(m) + 1
        BY <3>1
      <3>2. CASE i \in 1..Len(m) /\ j \in 1..Len(m)
        <4>1. i \in DOMAIN m /\ j \in DOMAIN m
          BY <3>2, <2>2
        <4>2. r[i] = m[i] /\ r[j] = m[j]
          BY <3>2, <2>5
        <4>3. m[i].name = m[j].name
          BY <4>2
        <4> QED BY <4>1, <4>3, <2>4 DEF Distinct
      <3>3. ~(i = Len(m) + 1 /\ j \in 1..Len(m)) /\ ~(j = Len(m) + 1 /\ i \in 1..Len(m))
        BY <2>5, <2>6
      <3> QED BY <2>2, <2>5, <3>1, <3>2, <3>3
    <2> QED BY <2>2, <2>5, <2>6, <2>7, <2>8 DEF r
  <1> QED BY <1>1, <1>2


-----------------------------------------------------------------------------
(* Type correctness. *)

\* The two sheets the program makes: a newborn's, and one with a field changed.
LEMMA SheetType ==
    /\ Blank \in Sheet
    /\ \A c \in Sheet : [c EXCEPT !.xp = @ + 1] \in Sheet /\ [c EXCEPT !.sworn = TRUE] \in Sheet
  <1>1. Blank \in Sheet
    BY DEF Blank, Sheet
  <1>2. ASSUME NEW c \in Sheet
        PROVE  [c EXCEPT !.xp = @ + 1] \in Sheet /\ [c EXCEPT !.sworn = TRUE] \in Sheet
    <2>1. c.xp + 1 \in Nat
      BY <1>2 DEF Sheet
    <2>2. \A x \in Nat : [c EXCEPT !.xp = x] \in Sheet
      BY <1>2, Zenon DEF Sheet
    <2>3. [c EXCEPT !.sworn = TRUE] \in Sheet
      BY <1>2, Zenon DEF Sheet
    <2> QED BY <2>1, <2>2, <2>3
  <1> QED BY <1>1, <1>2

\* What a start finds in the files of the old format leaves the store's rows sheets.
LEMMA ImportType ==
    ASSUME NEW rows \in [Names -> Sheet \cup {NoSheet}], NEW files \in Files
    PROVE  Import(rows, files) \in [Names -> Sheet \cup {NoSheet}]
  <1>1. files \in [Names -> Sheet \cup {NoSheet}]
    BY LegacyAssumption DEF Files
  <1> QED BY <1>1 DEF Import

\* A commit queued, sent at once or dropped leaves every queue and the hub of
\* their types.
LEMMA CommitHubType ==
    ASSUME TypeOK, Distinct(commits), NEW n \in Names, NEW c \in Sheet, CommitHub(n, c)
    PROVE  /\ commits' \in Seq(Commit)
           /\ pc' \in {"off", "test", "loading", "committing", "sleep"}
           /\ hub' \in [Names -> Sheet \cup {NoSheet}]
           /\ issued' \in [Names -> Nat] /\ sent' \in [Names -> Nat]
           /\ arrived' \in [Names -> Nat]
  <1> DEFINE stamp == issued[n] + 1
             entry == [name |-> n, sheet |-> c, stamp |-> stamp]
  <1>1. stamp \in Nat /\ entry \in Commit
    BY DEF TypeOK, Commit
  <1>2. QueueCommit(commits, entry) \in Seq(Commit)
    BY <1>1, QueueCommitLemma DEF TypeOK
  <1>3. CASE mode = "worker"
    <2>1. /\ commits' = QueueCommit(commits, entry) /\ issued' = [issued EXCEPT ![n] = stamp]
          /\ Signal /\ UNCHANGED <<hub, sent, arrived>>
      BY <1>3 DEF CommitHub
    <2>2. pc' \in {"off", "test", "loading", "committing", "sleep"}
      BY <2>1 DEF Signal, TypeOK
    <2> QED BY <1>1, <1>2, <2>1, <2>2 DEF TypeOK
  <1>4. CASE mode = "direct"
    <2>1. /\ issued' = [issued EXCEPT ![n] = stamp] /\ sent' = [sent EXCEPT ![n] = stamp]
          /\ hub' \in {hub, [hub EXCEPT ![n] = c]}
          /\ arrived' \in {arrived, [arrived EXCEPT ![n] = stamp]}
          /\ UNCHANGED <<commits, pc>>
      BY <1>4 DEF CommitHub, HubStores
    <2> HIDE DEF stamp
    <2> QED BY <1>1, <2>1 DEF TypeOK
  <1>5. CASE mode = "local"
    BY <1>5 DEF CommitHub, TypeOK, hubVars
  <1> QED BY <1>3, <1>4, <1>5 DEF TypeOK

\* hg_store_save keeps the store a table of sheets.
LEMMA SaveType ==
    ASSUME TypeOK, NEW n \in Names, NEW c \in Sheet, Save(n, c)
    PROVE  store' \in [Names -> Sheet \cup {NoSheet}]
  BY DEF TypeOK, Save

\* What finish_login does to a session's state, its sheet and the load queue.
LEMMA FinishLoginType ==
    ASSUME TypeOK, NEW s \in Sessions, NEW n \in Names, NEW c \in Sheet,
           FinishLogin(s, n, c)
    PROVE  /\ \E v \in {"hub", "playing"} : state' = [state EXCEPT ![s] = v]
           /\ char' \in [Sessions -> Sheet]
           /\ loads' \in Seq(Names)
           /\ pc' \in {"off", "test", "loading", "committing", "sleep"}
  <1>1. QueueLoad(loads, n) \in Seq(Names)
    BY QueueLoadType DEF TypeOK
  <1>2. Apply(c, hub[n]) \in Sheet
    BY DEF TypeOK, Apply, Sheet
  <1> QED BY <1>1, <1>2 DEF FinishLogin, TypeOK, Signal

\* A session's state, name and list entry after a login, where the name is known.
LEMMA LoginType ==
    ASSUME TypeOK, NEW s \in Sessions, Register(s)
    PROVE  roster' \in Seq(Sessions)
  BY ConcatProperties DEF TypeOK, Register

\* The type invariant is not inductive alone: a coalescing push is well typed
\* only on a queue that holds no name twice.
TypeInv == TypeOK /\ Distinct(commits) /\ Distinct(commitBatch)

\* A commit never queues a name twice.
LEMMA CommitHubDistinct ==
    ASSUME TypeInv, NEW n \in Names, NEW c \in Sheet, CommitHub(n, c)
    PROVE  Distinct(commits')
  <1> DEFINE entry == [name |-> n, sheet |-> c, stamp |-> issued[n] + 1]
  <1>1. entry \in Commit
    BY DEF TypeInv, TypeOK, Commit
  <1>2. Distinct(QueueCommit(commits, entry))
    BY <1>1, QueueCommitLemma DEF TypeInv, TypeOK
  <1> QED BY <1>2 DEF CommitHub, TypeInv

\* Every step keeps the types, and every queue of commits without repeats.
LEMMA TypeStep == TypeInv /\ [Next]_vars => TypeInv'
  <1> SUFFICES ASSUME TypeInv, [Next]_vars
               PROVE  TypeInv'
    OBVIOUS
  <1> USE DEF TypeInv
  <1>1. ASSUME NEW s \in Sessions, Connect(s)
        PROVE  TypeInv'
    BY <1>1 DEF TypeOK, Connect, Distinct, workerVars, hubVars
  <1>2. ASSUME NEW s \in Sessions, NEW n \in Names, HandleName(s, n)
        PROVE  TypeInv'
    <2>1. CASE store[n] # NoSheet
      <3>1. FinishLogin(s, n, store[n]) /\ Register(s) /\ store[n] \in Sheet
        BY <1>2, <2>1 DEF HandleName, TypeOK
      <3>2. roster' \in Seq(Sessions)
        BY <3>1, LoginType
      <3>3. /\ \E v \in {"hub", "playing"} : state' = [state EXCEPT ![s] = v]
            /\ char' \in [Sessions -> Sheet]
            /\ loads' \in Seq(Names)
            /\ pc' \in {"off", "test", "loading", "committing", "sleep"}
        BY <3>1, FinishLoginType
      <3> QED BY <1>2, <3>2, <3>3 DEF TypeOK, HandleName, Distinct, hubVars, bounds
    <2>2. CASE store[n] = NoSheet
      <3>1. /\ state' = [state EXCEPT ![s] = "race"] /\ char' = [char EXCEPT ![s] = Blank]
            /\ who' = [who EXCEPT ![s] = n]
            /\ UNCHANGED <<mode, phase, roster, loads, pc, inbox, store, stage, stop, loadBatch,
                           results, commits, commitBatch, hubVars, bounds>>
        BY <1>2, <2>2 DEF HandleName
      <3>2. /\ state' \in [Sessions -> {"gone", "name", "race", "hub", "playing"}]
            /\ who' \in [Sessions -> Names \cup {NoName}] /\ char' \in [Sessions -> Sheet]
            /\ \A t \in Sessions : state'[t] \in {"race", "hub", "playing"} => who'[t] \in Names
        BY <3>1, SheetType DEF TypeOK
      <3> QED BY <3>1, <3>2 DEF TypeOK, Distinct, hubVars, bounds
    <2> QED BY <2>1, <2>2
  <1>3. ASSUME NEW s \in Sessions, HandleRace(s)
        PROVE  TypeInv'
    <2>1. FinishLogin(s, who[s], char[s]) /\ Register(s) /\ who[s] \in Names /\ char[s] \in Sheet
      BY <1>3 DEF HandleRace, TypeOK
    <2>2. roster' \in Seq(Sessions)
      BY <2>1, LoginType
    <2>3. /\ \E v \in {"hub", "playing"} : state' = [state EXCEPT ![s] = v]
          /\ char' \in [Sessions -> Sheet]
          /\ loads' \in Seq(Names)
          /\ pc' \in {"off", "test", "loading", "committing", "sleep"}
      BY <2>1, FinishLoginType
    <2> QED BY <1>3, <2>1, <2>2, <2>3 DEF TypeOK, HandleRace, Distinct, hubVars, bounds
  <1>4. ASSUME NEW s \in Sessions, Earn(s)
        PROVE  TypeInv'
    <2> DEFINE c == [char[s] EXCEPT !.xp = @ + 1]
    <2>1. c \in Sheet /\ who[s] \in Names
      BY <1>4, SheetType DEF Earn, TypeOK
    <2>2. store' \in [Names -> Sheet \cup {NoSheet}]
      BY <1>4, <2>1, SaveType DEF Earn
    <2> HIDE DEF c
    <2>3. char' = [char EXCEPT ![s] = c] /\ deeds' = deeds + 1
      BY <1>4 DEF Earn, c
    <2>4. UNCHANGED <<mode, phase, state, who, roster, inbox, workerVars, hubVars, logins, boots>>
      BY <1>4 DEF Earn
    <2> QED BY <2>1, <2>2, <2>3, <2>4 DEF TypeOK, Distinct, workerVars, hubVars
  <1>5. ASSUME NEW s \in Sessions, Pledge(s)
        PROVE  TypeInv'
    <2> DEFINE c == [char[s] EXCEPT !.sworn = TRUE]
    <2>1. c \in Sheet /\ who[s] \in Names
      BY <1>5, SheetType DEF Pledge, TypeOK
    <2>2. Save(who[s], c) /\ CommitHub(who[s], c)
      BY <1>5 DEF Pledge
    <2>3. store' \in [Names -> Sheet \cup {NoSheet}]
      BY <2>1, <2>2, SaveType
    <2>4. Distinct(commits')
      BY <2>1, <2>2, CommitHubDistinct
    <2> HIDE DEF c
    <2>5. char' = [char EXCEPT ![s] = c]
      BY <1>5 DEF Pledge, c
    <2>6. /\ commits' \in Seq(Commit)
          /\ pc' \in {"off", "test", "loading", "committing", "sleep"}
          /\ hub' \in [Names -> Sheet \cup {NoSheet}]
          /\ issued' \in [Names -> Nat] /\ sent' \in [Names -> Nat]
          /\ arrived' \in [Names -> Nat]
      BY <2>1, <2>2, CommitHubType
    <2>7. /\ deeds' = deeds + 1 /\ commitBatch' = commitBatch
          /\ UNCHANGED <<mode, phase, state, who, roster, inbox, stage, stop, loads, loadBatch,
                         results, logins, boots>>
      BY <1>5 DEF Pledge
    <2>8. char' \in [Sessions -> Sheet] /\ deeds' \in Nat
      BY <2>1, <2>5, <2>7 DEF TypeOK
    <2> QED BY <2>3, <2>4, <2>6, <2>7, <2>8 DEF TypeOK, Distinct
  <1>6. ASSUME NEW s \in Sessions, Travel(s)
        PROVE  TypeInv'
    <2>1. char[s] \in Sheet /\ who[s] \in Names /\ Save(who[s], char[s]) /\ CommitHub(who[s], char[s])
      BY <1>6 DEF Travel, TypeOK
    <2>2. store' \in [Names -> Sheet \cup {NoSheet}] /\ Distinct(commits')
      BY <2>1, SaveType, CommitHubDistinct
    <2>3. /\ commits' \in Seq(Commit)
          /\ pc' \in {"off", "test", "loading", "committing", "sleep"}
          /\ hub' \in [Names -> Sheet \cup {NoSheet}]
          /\ issued' \in [Names -> Nat] /\ sent' \in [Names -> Nat]
          /\ arrived' \in [Names -> Nat]
      BY <2>1, CommitHubType
    <2>4. /\ deeds' = deeds + 1 /\ commitBatch' = commitBatch
          /\ UNCHANGED <<mode, phase, state, who, char, roster, inbox, stage, stop, loads,
                         loadBatch, results, logins, boots>>
      BY <1>6 DEF Travel, loopVars
    <2> QED BY <2>2, <2>3, <2>4 DEF TypeOK, Distinct
  <1>7. ASSUME NEW s \in Sessions, Close(s)
        PROVE  TypeInv'
    <2>1. roster' \in Seq(Sessions)
      BY <1>7, UnlinkType DEF Close, TypeOK
    <2>2. CASE state[s] = "playing"
      <3>1. char[s] \in Sheet /\ who[s] \in Names /\ Save(who[s], char[s]) /\ CommitHub(who[s], char[s])
        BY <1>7, <2>2 DEF Close, TypeOK
      <3>2. store' \in [Names -> Sheet \cup {NoSheet}] /\ Distinct(commits')
        BY <3>1, SaveType, CommitHubDistinct
      <3> QED BY <1>7, <2>1, <3>1, <3>2, CommitHubType DEF TypeOK, Close, Distinct, Blank, Sheet, bounds
    <2>3. CASE state[s] # "playing"
      BY <1>7, <2>1, <2>3 DEF TypeOK, Close, Distinct, Blank, Sheet, bounds, hubVars
    <2> QED BY <2>2, <2>3
  <1>8. ASSUME Drain
        PROVE  TypeInv'
    BY <1>8 DEF TypeOK, Drain, Distinct, loopVars, hubVars, bounds
  <1>9. ASSUME Admit
        PROVE  TypeInv'
    <2> DEFINE r == Head(inbox)
    <2>1. r \in Result /\ Tail(inbox) \in Seq(Result)
      BY <1>9 DEF Admit, TypeOK
    <2>2. \A c \in Sheet : Apply(c, r.sheet) \in Sheet
      BY <2>1 DEF Result, Apply, Sheet
    <2> HIDE DEF r
    <2>3. CASE Waiting(r.name) = {}
      BY <1>9, <2>1, <2>3 DEF Admit, r, TypeOK, Distinct, workerVars, hubVars, bounds
    <2>4. CASE Waiting(r.name) # {}
      <3>1. PICK i \in Waiting(r.name) :
                   /\ char' = [char EXCEPT ![roster[i]] = Apply(@, r.sheet)]
                   /\ state' = [state EXCEPT ![roster[i]] = "playing"]
        BY <1>9, <2>4 DEF Admit, r
      <3> DEFINE t == roster[i]
      <3>2. t \in Sessions /\ who[t] \in Names
        BY <2>1, <3>1 DEF Waiting, TypeOK, Result
      <3> HIDE DEF t
      <3>3. /\ state' = [state EXCEPT ![t] = "playing"]
            /\ char' = [char EXCEPT ![t] = Apply(char[t], r.sheet)]
            /\ Apply(char[t], r.sheet) \in Sheet
        BY <2>2, <3>1, <3>2 DEF t, TypeOK
      <3>4. /\ inbox' \in Seq(Result)
            /\ UNCHANGED <<mode, phase, who, roster, store, workerVars, hubVars, bounds>>
        BY <1>9, <2>1 DEF Admit, r
      <3> QED BY <3>2, <3>3, <3>4 DEF TypeOK, Distinct, workerVars, hubVars, bounds
    <2> QED BY <2>3, <2>4
  <1>10. ASSUME Worker
         PROVE  TypeInv'
    <2> USE DEF workerRest, loopVars, bounds
    <2>1. CASE TakeLoads
      BY <2>1 DEF TypeOK, TakeLoads, Distinct
    <2>2. CASE LoadOne
      <3>1. Head(loadBatch) \in Names /\ Tail(loadBatch) \in Seq(Names)
        BY <2>2 DEF LoadOne, TypeOK
      <3>2. \A h \in {hub[Head(loadBatch)], NoSheet} :
              Append(MakeRoom(results, LoadCap), [name |-> Head(loadBatch), sheet |-> h])
                \in Seq(Result)
        <4> SUFFICES ASSUME NEW h \in {hub[Head(loadBatch)], NoSheet}
                     PROVE  Append(MakeRoom(results, LoadCap),
                                   [name |-> Head(loadBatch), sheet |-> h]) \in Seq(Result)
          OBVIOUS
        <4>1. h \in Sheet \cup {NoSheet}
          BY <3>1 DEF TypeOK
        <4>2. [name |-> Head(loadBatch), sheet |-> h] \in Result
          BY <3>1, <4>1 DEF Result
        <4>3. MakeRoom(results, LoadCap) \in Seq(Result)
          BY MakeRoomLemma, CapAssumption DEF TypeOK
        <4> QED BY <4>2, <4>3
      <3>3. results' \in Seq(Result)
        BY <2>2, <3>2 DEF LoadOne
      <3> QED BY <2>2, <3>1, <3>3 DEF TypeOK, LoadOne, Distinct
    <2>3. CASE TakeCommits
      BY <2>3 DEF TypeOK, TakeCommits, Distinct
    <2>4. CASE CommitOne
      <3>1. /\ Head(commitBatch) \in Commit /\ Tail(commitBatch) \in Seq(Commit)
            /\ \A i \in DOMAIN Tail(commitBatch) :
                  Tail(commitBatch)[i] = commitBatch[i + 1] /\ i + 1 \in DOMAIN commitBatch
        BY <2>4 DEF CommitOne, TypeOK
      <3>2. Distinct(Tail(commitBatch))
        <4> SUFFICES ASSUME NEW i \in DOMAIN Tail(commitBatch), NEW j \in DOMAIN Tail(commitBatch),
                            commitBatch[i + 1].name = commitBatch[j + 1].name
                     PROVE  i = j
          BY <3>1 DEF Distinct
        <4>1. i + 1 = j + 1
          BY <3>1 DEF Distinct
        <4>2. i \in Int /\ j \in Int
          BY <3>1
        <4> QED BY <4>1, <4>2
      <3>3. /\ hub' \in [Names -> Sheet \cup {NoSheet}]
            /\ sent' \in [Names -> Nat] /\ arrived' \in [Names -> Nat]
        BY <2>4, <3>1 DEF CommitOne, HubStores, TypeOK, Commit
      <3>4. commitBatch' = Tail(commitBatch)
        BY <2>4 DEF CommitOne
      <3> QED BY <2>4, <3>1, <3>2, <3>3, <3>4 DEF TypeOK, CommitOne
    <2>5. CASE Refresh
      BY <2>5 DEF TypeOK, Refresh, Distinct
    <2>6. CASE Polled
      BY <2>6 DEF TypeOK, Polled, Distinct
    <2>7. CASE Rest
      BY <2>7 DEF TypeOK, Rest, Distinct
    <2>8. CASE Timeout
      BY <2>8 DEF TypeOK, Timeout, Distinct
    <2>9. CASE Return
      BY <2>9 DEF TypeOK, Return, Distinct
    <2> QED BY <1>10, <2>1, <2>2, <2>3, <2>4, <2>5, <2>6, <2>7, <2>8, <2>9 DEF Worker
  <1>11. ASSUME Stop \/ BeginJoin \/ Exit \/ Crash \/ Boot
         PROVE  TypeInv'
    <2> USE DEF loopVars, workerVars, hubVars, bounds
    <2>1. CASE Stop
      BY <2>1 DEF TypeOK, Stop, Distinct
    <2>2. CASE BeginJoin
      BY <2>2 DEF TypeOK, BeginJoin, Distinct, Signal
    <2>3. CASE Exit
      BY <2>3 DEF TypeOK, Exit, Distinct
    <2>4. CASE Crash
      BY <2>4 DEF TypeOK, Crash, Distinct, Blank, Sheet
    <2>5. CASE Boot
      <3>1. pc' \in {"off", "test", "loading", "committing", "sleep"}
        BY <2>5 DEF Boot
      <3>2. /\ stage' = "loop" /\ stop' = FALSE /\ phase' = "up" /\ boots' = boots + 1
            /\ loads' = <<>> /\ loadBatch' = <<>> /\ results' = <<>>
            /\ commits' = <<>> /\ commitBatch' = <<>> /\ mode' \in Modes
        BY <2>5 DEF Boot
      <3>3. sent' = issued
        BY <2>5 DEF Boot
      <3>4. TypeOK'
        <4>1. UNCHANGED <<state, who, char, roster, inbox, hub, issued, arrived,
                          logins, deeds>>
          BY <2>5 DEF Boot, loopVars
        <4>2. /\ phase' \in {"up", "closing", "joining", "exited", "crashed"} /\ boots' \in Nat
              /\ mode' \in {"worker", "direct", "local"}
          BY <3>2, ModeAssumption DEF TypeOK
        <4>3. stage' \in {"loop", "refresh", "polled", "final"} /\ stop' \in BOOLEAN
          BY <3>2
        <4>4. /\ loads' \in Seq(Names) /\ loadBatch' \in Seq(Names) /\ results' \in Seq(Result)
              /\ commits' \in Seq(Commit) /\ commitBatch' \in Seq(Commit)
          BY <3>2
        <4>5. store' \in [Names -> Sheet \cup {NoSheet}]
          <5>1. PICK files \in Files : store' = Import(store, files)
            BY <2>5 DEF Boot
          <5>2. store \in [Names -> Sheet \cup {NoSheet}]
            BY DEF TypeOK
          <5> QED BY <5>1, <5>2, ImportType
        <4>6. sent' \in [Names -> Nat]
          <5>1. issued \in [Names -> Nat]
            BY DEF TypeOK
          <5> QED BY <3>3, <5>1
        <4>7. /\ state' \in [Sessions -> {"gone", "name", "race", "hub", "playing"}]
              /\ who' \in [Sessions -> Names \cup {NoName}] /\ char' \in [Sessions -> Sheet]
              /\ \A s \in Sessions : state'[s] \in {"race", "hub", "playing"} => who'[s] \in Names
              /\ roster' \in Seq(Sessions) /\ inbox' \in Seq(Result)
          <5>1. state' = state /\ who' = who /\ char' = char /\ roster' = roster /\ inbox' = inbox
            BY <4>1
          <5> QED BY <5>1 DEF TypeOK
        <4>8. /\ hub' \in [Names -> Sheet \cup {NoSheet}] /\ issued' \in [Names -> Nat]
              /\ arrived' \in [Names -> Nat] /\ logins' \in Nat /\ deeds' \in Nat
          BY <4>1 DEF TypeOK
        <4> QED BY <3>1, <4>2, <4>3, <4>4, <4>5, <4>6, <4>7, <4>8 DEF TypeOK
      <3> QED BY <3>2, <3>4 DEF Distinct
    <2> QED BY <1>11, <2>1, <2>2, <2>3, <2>4, <2>5
  <1>12. ASSUME NEW n \in Names, Elsewhere(n)
         PROVE  TypeInv'
    <2>1. hub[n] \in Sheet
      BY <1>12 DEF TypeOK, Elsewhere
    <2>2. [hub[n] EXCEPT !.xp = @ + 1] \in Sheet
      BY <2>1, SheetType
    <2>3. hub' = [hub EXCEPT ![n] = [hub[n] EXCEPT !.xp = @ + 1]]
      BY <1>12 DEF Elsewhere
    <2>4. hub' \in [Names -> Sheet \cup {NoSheet}]
      BY <2>2, <2>3 DEF TypeOK
    <2>5. deeds' = deeds + 1 /\ UNCHANGED <<commits, commitBatch>>
      BY <1>12 DEF Elsewhere, workerVars
    <2>6. UNCHANGED <<mode, phase, loopVars, inbox, store, workerVars, issued, sent, arrived,
                      logins, boots>>
      BY <1>12 DEF Elsewhere
    <2>7. TypeOK'
      BY <2>4, <2>5, <2>6 DEF TypeOK, loopVars, workerVars
    <2> QED BY <2>5, <2>7 DEF Distinct
  <1>13. ASSUME UNCHANGED vars
         PROVE  TypeInv'
    BY <1>13 DEF TypeOK, vars, Distinct, loopVars, workerVars, hubVars, bounds
  <1> QED BY <1>1, <1>2, <1>3, <1>4, <1>5, <1>6, <1>7, <1>8, <1>9, <1>10, <1>11, <1>12, <1>13
          DEF Next, SessionStep, Stopped

\* Every variable keeps its type, and no name is queued twice for the hub.
THEOREM TypeCorrect == Spec => []TypeInv
  <1>1. Init => TypeInv
    <2> SUFFICES ASSUME Init PROVE TypeInv
      OBVIOUS
    <2>1. pc \in {"off", "test", "loading", "committing", "sleep"}
      BY DEF Init
    <2>2. Distinct(commits) /\ Distinct(commitBatch)
      BY DEF Init, Distinct
    <2>3. TypeOK
      <3>1. /\ phase \in {"up", "closing", "joining", "exited", "crashed"}
            /\ mode \in {"worker", "direct", "local"}
            /\ state \in [Sessions -> {"gone", "name", "race", "hub", "playing"}]
            /\ who \in [Sessions -> Names \cup {NoName}]
            /\ char \in [Sessions -> Sheet]
            /\ \A s \in Sessions : state[s] \in {"race", "hub", "playing"} => who[s] \in Names
        BY SheetType, ModeAssumption DEF Init
      <3>2. /\ roster \in Seq(Sessions) /\ inbox \in Seq(Result) /\ results \in Seq(Result)
            /\ loads \in Seq(Names) /\ loadBatch \in Seq(Names)
            /\ commits \in Seq(Commit) /\ commitBatch \in Seq(Commit)
        BY DEF Init
      <3>3. /\ store \in [Names -> Sheet \cup {NoSheet}] /\ hub \in [Names -> Sheet \cup {NoSheet}]
            /\ issued \in [Names -> Nat] /\ sent \in [Names -> Nat] /\ arrived \in [Names -> Nat]
        BY ImportType DEF Init
      <3>4. /\ stage \in {"loop", "refresh", "polled", "final"} /\ stop \in BOOLEAN
            /\ logins \in Nat /\ deeds \in Nat /\ boots \in Nat
        BY DEF Init
      <3> QED BY <2>1, <3>1, <3>2, <3>3, <3>4 DEF TypeOK
    <2> QED BY <2>2, <2>3 DEF TypeInv
  <1> QED BY <1>1, TypeStep, PTL DEF Spec

-----------------------------------------------------------------------------
(* The hub receives each name's sheets in the order they were committed. *)

\* A commit is newer than the last one that arrived, and not newer than the
\* last one issued, for its name.
Between(c, arr, iss) == arr[c.name] < c.stamp /\ c.stamp <= iss[c.name]

\* Why the order holds: what is in the worker's hands precedes what is queued.
Ordered(q, b, arr, iss) ==
    /\ \A n \in Names : arr[n] <= iss[n]
    /\ \A i \in DOMAIN q : Between(q[i], arr, iss)
    /\ \A i \in DOMAIN b : Between(b[i], arr, iss)
    /\ \A i \in DOMAIN b, j \in DOMAIN q : b[i].name = q[j].name => b[i].stamp < q[j].stamp

OrderInv ==
    /\ Ordered(commits, commitBatch, arrived, issued)
    /\ mode # "worker" => commits = <<>> /\ commitBatch = <<>>

Forward == \A n \in Names : arrived'[n] >= arrived[n]

\* Pushing the newest commit of a name follows every older one of that name.
LEMMA PushOrdered ==
    ASSUME NEW q \in Seq(Commit), NEW b \in Seq(Commit), Distinct(q),
           NEW arr \in [Names -> Nat], NEW iss \in [Names -> Nat], Ordered(q, b, arr, iss),
           NEW e \in Commit, e.stamp = iss[e.name] + 1
    PROVE  Ordered(QueueCommit(q, e), b, arr, [iss EXCEPT ![e.name] = e.stamp])
  <1> DEFINE r == QueueCommit(q, e)
             iss2 == [iss EXCEPT ![e.name] = e.stamp]
  <1>1. e.name \in Names /\ e.stamp \in Nat
    BY DEF Commit
  <1>2. /\ r \in Seq(Commit)
        /\ \A i \in DOMAIN r : \/ r[i] = e
                               \/ r[i].name # e.name /\ \E j \in DOMAIN q : r[i] = q[j]
    BY QueueCommitLemma
  <1>3. iss2 \in [Names -> Nat] /\ \A n \in Names : iss[n] <= iss2[n]
    BY <1>1
  <1>4. iss2[e.name] = e.stamp
    BY <1>1
  <1> HIDE DEF r, iss2
  <1>5. \A n \in Names : arr[n] <= iss2[n]
    <2> TAKE n \in Names
    <2>1. arr[n] <= iss[n] /\ iss[n] <= iss2[n] /\ arr[n] \in Nat /\ iss[n] \in Nat /\ iss2[n] \in Nat
      BY <1>3 DEF Ordered
    <2> QED BY <2>1
  <1>6. ASSUME NEW x \in Commit, Between(x, arr, iss)
        PROVE  Between(x, arr, iss2)
    <2>1. x.name \in Names /\ x.stamp \in Nat
      BY DEF Commit
    <2>2. iss[x.name] <= iss2[x.name] /\ iss[x.name] \in Nat /\ iss2[x.name] \in Nat
      BY <1>3, <2>1
    <2> QED BY <1>6, <2>1, <2>2 DEF Between
  <1>7. Between(e, arr, iss2)
    <2>1. arr[e.name] <= iss[e.name] /\ arr[e.name] \in Nat /\ iss[e.name] \in Nat
      BY <1>1 DEF Ordered
    <2> QED BY <1>1, <1>4, <2>1 DEF Between
  <1>8. \A i \in DOMAIN r : Between(r[i], arr, iss2)
    <2> TAKE i \in DOMAIN r
    <2>1. CASE r[i] = e
      BY <1>7, <2>1
    <2>2. CASE \E j \in DOMAIN q : r[i] = q[j]
      <3>1. PICK j \in DOMAIN q : r[i] = q[j]
        BY <2>2
      <3>2. q[j] \in Commit /\ Between(q[j], arr, iss)
        BY <3>1 DEF Ordered
      <3> QED BY <1>6, <3>1, <3>2
    <2> QED BY <1>2, <2>1, <2>2
  <1>9. \A i \in DOMAIN b : Between(b[i], arr, iss2)
    <2> TAKE i \in DOMAIN b
    <2>1. b[i] \in Commit /\ Between(b[i], arr, iss)
      BY DEF Ordered
    <2> QED BY <1>6, <2>1
  <1>10. \A i \in DOMAIN b, j \in DOMAIN r : b[i].name = r[j].name => b[i].stamp < r[j].stamp
    <2> TAKE i \in DOMAIN b, j \in DOMAIN r
    <2> HAVE b[i].name = r[j].name
    <2>1. b[i] \in Commit /\ Between(b[i], arr, iss)
      BY DEF Ordered
    <2>2. CASE r[j] = e
      <3>1. b[i].stamp <= iss[e.name] /\ b[i].stamp \in Nat /\ iss[e.name] \in Nat
        BY <1>1, <2>1, <2>2 DEF Between, Commit
      <3> QED BY <3>1, <2>2
    <2>3. CASE \E k \in DOMAIN q : r[j] = q[k]
      BY <2>3 DEF Ordered
    <2> QED BY <1>2, <2>2, <2>3
  <1> QED BY <1>5, <1>8, <1>9, <1>10 DEF Ordered, r, iss2

\* Trying the oldest commit of a batch, whether it arrives or not, keeps the
\* order of the rest.
LEMMA PopOrdered ==
    ASSUME NEW q \in Seq(Commit), NEW b \in Seq(Commit), b # <<>>, Distinct(b),
           NEW arr \in [Names -> Nat], NEW iss \in [Names -> Nat], Ordered(q, b, arr, iss),
           NEW arr2, \/ arr2 = arr
                     \/ arr2 = [arr EXCEPT ![Head(b).name] = Head(b).stamp]
    PROVE  Ordered(q, Tail(b), arr2, iss) /\ \A n \in Names : arr2[n] >= arr[n]
  <1> DEFINE t == Tail(b)
             h == Head(b)
  <1>1. /\ h = b[1] /\ 1 \in DOMAIN b /\ h \in Commit
        /\ \A i \in DOMAIN t : t[i] = b[i + 1] /\ i + 1 \in DOMAIN b /\ i + 1 # 1 /\ t[i] \in Commit
    OBVIOUS
  <1>2. h.name \in Names /\ h.stamp \in Nat /\ Between(h, arr, iss)
    BY <1>1 DEF Commit, Ordered
  <1>3. \A i \in DOMAIN t : t[i].name # h.name
    BY <1>1 DEF Distinct
  <1>4. \A j \in DOMAIN q : q[j].name = h.name => h.stamp < q[j].stamp
    BY <1>1 DEF Ordered
  <1>5. /\ \A i \in DOMAIN t : Between(t[i], arr, iss)
        /\ \A i \in DOMAIN t, j \in DOMAIN q : t[i].name = q[j].name => t[i].stamp < q[j].stamp
    BY <1>1 DEF Ordered
  <1>6. \A j \in DOMAIN q : q[j] \in Commit /\ q[j].name \in Names
    <2> TAKE j \in DOMAIN q
    <2>1. q[j] \in Commit
      OBVIOUS
    <2> QED BY <2>1 DEF Commit
  <1>7. CASE arr2 = arr
    BY <1>5, <1>7 DEF Ordered
  <1> HIDE DEF t, h
  <1>8. CASE arr2 = [arr EXCEPT ![h.name] = h.stamp]
    <2>1. arr2[h.name] = h.stamp /\ \A n \in Names : n # h.name => arr2[n] = arr[n]
      BY <1>2, <1>8
    <2>2. \A n \in Names : arr2[n] <= iss[n] /\ arr2[n] >= arr[n]
      <3> TAKE n \in Names
      <3>1. arr[n] \in Nat /\ iss[n] \in Nat /\ arr[n] <= iss[n]
        BY DEF Ordered
      <3> QED BY <1>2, <2>1, <3>1 DEF Between
    <2>3. \A j \in DOMAIN q : Between(q[j], arr2, iss)
      <3> TAKE j \in DOMAIN q
      <3>1. Between(q[j], arr, iss)
        BY DEF Ordered
      <3> QED BY <1>4, <1>6, <2>1, <3>1 DEF Between
    <2>4. \A i \in DOMAIN t : Between(t[i], arr2, iss)
      <3> TAKE i \in DOMAIN t
      <3>1. t[i].name \in Names
        BY <1>1 DEF Commit
      <3> QED BY <1>3, <1>5, <2>1, <3>1 DEF Between
    <2> QED BY <1>5, <2>2, <2>3, <2>4 DEF Ordered, t
  <1> QED BY <1>7, <1>8 DEF h

\* Every step keeps the order, and none takes an arrival back.
LEMMA OrderStep ==
    ASSUME TypeInv, OrderInv, [Next]_vars
    PROVE  OrderInv' /\ Forward
  <1>1. /\ commits \in Seq(Commit) /\ commitBatch \in Seq(Commit)
        /\ Distinct(commits) /\ Distinct(commitBatch)
        /\ issued \in [Names -> Nat] /\ arrived \in [Names -> Nat]
    BY DEF TypeInv, TypeOK
  <1>2. ASSUME UNCHANGED <<mode, commits, commitBatch, issued, arrived>>
        PROVE  OrderInv' /\ Forward
    BY <1>1, <1>2 DEF OrderInv, Forward
  <1>3. ASSUME commits' = <<>>, commitBatch' = <<>> \/ commitBatch' = commits,
               UNCHANGED <<mode, issued, arrived>>
        PROVE  OrderInv' /\ Forward
    BY <1>1, <1>3 DEF OrderInv, Ordered, Forward
  <1>11. ASSUME commits' = <<>>, commitBatch' = <<>>, UNCHANGED <<issued, arrived>>
         PROVE  OrderInv' /\ Forward
    BY <1>1, <1>11 DEF OrderInv, Ordered, Forward
  <1>4. ASSUME NEW n \in Names, NEW c \in Sheet, CommitHub(n, c), UNCHANGED <<mode, commitBatch>>
        PROVE  OrderInv' /\ Forward
    <2> DEFINE e == [name |-> n, sheet |-> c, stamp |-> issued[n] + 1]
    <2>1. e \in Commit /\ e.name = n /\ e.stamp = issued[n] + 1
      BY <1>1 DEF Commit
    <2> HIDE DEF e
    <2>2. CASE mode = "worker"
      <3>1. /\ commits' = QueueCommit(commits, e)
            /\ issued' = [issued EXCEPT ![e.name] = e.stamp] /\ arrived' = arrived
        BY <1>4, <2>1, <2>2 DEF CommitHub, e
      <3>2. Ordered(commits', commitBatch, arrived, issued')
        BY <1>1, <2>1, <3>1, PushOrdered DEF OrderInv
      <3> QED BY <1>1, <1>4, <2>2, <3>1, <3>2 DEF OrderInv, Forward
    <2>3. CASE mode # "worker"
      <3>1. commits = <<>> /\ commitBatch = <<>> /\ commits' = commits
        BY <1>4, <2>3 DEF OrderInv, CommitHub
      <3>2. \/ issued' = issued /\ arrived' = arrived
            \/ /\ issued' = [issued EXCEPT ![n] = issued[n] + 1]
               /\ \/ arrived' = arrived
                  \/ arrived' = [arrived EXCEPT ![n] = issued[n] + 1]
        BY <1>4, <2>3 DEF CommitHub, HubStores, hubVars
      <3>3. \A m \in Names : arrived[m] <= issued[m] /\ arrived[m] \in Nat /\ issued[m] \in Nat
        BY <1>1 DEF OrderInv, Ordered
      <3>4. \A m \in Names : arrived'[m] <= issued'[m] /\ arrived'[m] >= arrived[m]
        <4> TAKE m \in Names
        <4>1. CASE m = n
          BY <1>1, <3>2, <3>3, <4>1
        <4>2. CASE m # n
          <5>1. issued'[m] = issued[m] /\ arrived'[m] = arrived[m]
            BY <1>1, <3>2, <4>2
          <5> QED BY <3>3, <5>1
        <4> QED BY <4>1, <4>2
      <3> QED BY <1>4, <3>1, <3>4 DEF OrderInv, Ordered, Forward
    <2> QED BY <2>2, <2>3
  <1>5. ASSUME NEW s \in Sessions, SessionStep(s)
        PROVE  OrderInv' /\ Forward
    <2>1. CASE \/ Connect(s) \/ HandleRace(s) \/ Earn(s) \/ \E n \in Names : HandleName(s, n)
      BY <1>2, <2>1 DEF Connect, HandleRace, Earn, HandleName, workerVars, hubVars
    <2>2. CASE Pledge(s)
      <3>1. who[s] \in Names /\ [char[s] EXCEPT !.sworn = TRUE] \in Sheet
        BY <2>2, SheetType DEF Pledge, TypeInv, TypeOK
      <3> QED BY <1>4, <2>2, <3>1 DEF Pledge
    <2>3. CASE Travel(s)
      <3>1. who[s] \in Names /\ char[s] \in Sheet
        BY <2>3 DEF Travel, TypeInv, TypeOK
      <3> QED BY <1>4, <2>3, <3>1 DEF Travel
    <2>4. CASE Close(s)
      <3>1. CASE state[s] = "playing"
        <4>1. who[s] \in Names /\ char[s] \in Sheet
          BY <3>1 DEF TypeInv, TypeOK
        <4> QED BY <1>4, <2>4, <3>1, <4>1 DEF Close
      <3>2. CASE state[s] # "playing"
        BY <1>2, <2>4, <3>2 DEF Close, hubVars
      <3> QED BY <3>1, <3>2
    <2> QED BY <1>5, <2>1, <2>2, <2>3, <2>4 DEF SessionStep
  <1>6. CASE CommitOne
    <2>1. /\ commitBatch # <<>> /\ commitBatch' = Tail(commitBatch)
          /\ UNCHANGED <<mode, commits, issued>>
          /\ \/ arrived' = arrived
             \/ arrived' = [arrived EXCEPT ![Head(commitBatch).name] = Head(commitBatch).stamp]
      BY <1>6 DEF CommitOne, HubStores, workerRest
    <2>2. /\ Ordered(commits, Tail(commitBatch), arrived', issued)
          /\ \A n \in Names : arrived'[n] >= arrived[n]
      <3> HIDE DEF Ordered
      <3> QED BY <1>1, <2>1, PopOrdered DEF OrderInv
    <2>3. mode = "worker"
      BY <2>1 DEF OrderInv
    <2> QED BY <2>1, <2>2, <2>3 DEF OrderInv, Forward
  <1>7. CASE TakeCommits \/ Refresh
    BY <1>3, <1>7 DEF TakeCommits, Refresh, workerRest
  <1>8. CASE Crash \/ Boot
    BY <1>8, <1>11 DEF Crash, Boot, hubVars
  <1>9. CASE \/ Drain \/ Admit \/ TakeLoads \/ LoadOne \/ Polled \/ Rest \/ Timeout \/ Return
    BY <1>2, <1>9 DEF Drain, Admit, TakeLoads, LoadOne, Polled, Rest, Timeout, Return,
                      workerRest, workerVars, hubVars
  <1>10. CASE \/ Stop \/ BeginJoin \/ Exit \/ UNCHANGED vars
              \/ \E n \in Names : Elsewhere(n)
    BY <1>2, <1>10 DEF Stop, BeginJoin, Exit, Elsewhere, vars, workerVars, hubVars
  <1> QED BY <1>5, <1>6, <1>7, <1>8, <1>9, <1>10 DEF Next, Worker, Stopped

\* A name's sheets reach the hub in the order this world committed them, for
\* any number of sessions and names, any queue sizes, failures and restarts.
THEOREM CommitsStayInOrder == Spec => CommitsInOrder
  <1>1. Init => OrderInv
    BY DEF Init, OrderInv, Ordered
  <1>2. TypeInv /\ OrderInv /\ [Next]_vars => OrderInv' /\ Forward
    BY OrderStep
  <1>3. Forward => [\A n \in Names : arrived'[n] >= arrived[n]]_vars
    BY DEF Forward
  <1> QED BY <1>1, <1>2, <1>3, TypeCorrect, PTL DEF Spec, CommitsInOrder

-----------------------------------------------------------------------------
(* The worker's wait. *)

\* A worker asleep has no load and no commit queued and was not told to stop:
\* whoever gives it one of them wakes it in the same critical section.
THEOREM WorkIsNoticed == Spec => []NoSleepOnWork
  <1>1. Init => NoSleepOnWork
    BY DEF Init, NoSleepOnWork
  <1>2. NoSleepOnWork /\ [Next]_vars => NoSleepOnWork'
    <2> SUFFICES ASSUME NoSleepOnWork, [Next]_vars, pc' = "sleep"
                 PROVE  loads' = <<>> /\ commits' = <<>> /\ ~stop'
      BY DEF NoSleepOnWork
    <2> USE DEF NoSleepOnWork
    <2>1. ASSUME NEW n, NEW c, CommitHub(n, c)
          PROVE  pc = "sleep" /\ commits' = commits
      BY <2>1 DEF CommitHub, Signal
    <2>2. ASSUME NEW s, NEW n, NEW c, FinishLogin(s, n, c)
          PROVE  pc = "sleep" /\ loads' = loads
      BY <2>2 DEF FinishLogin, Signal
    <2>3. ASSUME NEW s \in Sessions, SessionStep(s)
          PROVE  loads' = <<>> /\ commits' = <<>> /\ ~stop'
      <3>1. CASE Connect(s) \/ Earn(s)
        BY <3>1 DEF Connect, Earn, workerVars
      <3>2. CASE HandleRace(s)
        BY <2>2, <3>2 DEF HandleRace
      <3>3. CASE Pledge(s)
        <4>1. CommitHub(who[s], [char[s] EXCEPT !.sworn = TRUE]) /\ UNCHANGED <<loads, stop>>
          BY <3>3 DEF Pledge
        <4> QED BY <2>1, <4>1
      <3>4. CASE Travel(s) \/ Close(s)
        <4>1. (CommitHub(who[s], char[s]) \/ UNCHANGED <<commits, pc>>) /\ UNCHANGED <<loads, stop>>
          BY <3>4 DEF Travel, Close
        <4> QED BY <2>1, <4>1
      <3>5. ASSUME NEW n \in Names, HandleName(s, n)
            PROVE  loads' = <<>> /\ commits' = <<>> /\ ~stop'
        BY <2>2, <3>5 DEF HandleName
      <3> QED BY <2>3, <3>1, <3>2, <3>3, <3>4, <3>5 DEF SessionStep
    <2>4. CASE Worker
      BY <2>4 DEF Worker, TakeLoads, LoadOne, TakeCommits, CommitOne, Refresh, Polled, Rest,
                  Timeout, Return
    <2>5. CASE Drain \/ Admit \/ Stop \/ BeginJoin \/ Exit \/ Crash \/ Boot
      BY <2>5 DEF Drain, Admit, Stop, BeginJoin, Exit, Crash, Boot, Signal, workerVars
    <2>6. CASE UNCHANGED vars \/ \E n \in Names : Elsewhere(n)
      BY <2>6 DEF vars, Elsewhere, workerVars
    <2> QED BY <2>3, <2>4, <2>5, <2>6 DEF Next, Stopped
  <1> QED BY <1>1, <1>2, PTL DEF Spec

-----------------------------------------------------------------------------
(* The brand, where no two live sessions share a name. *)

\* What a session's slot knows of its name's row: none while a race is asked for,
\* and once the login goes on, a row whose brand the character carries.
SeatOK(st, w, c, rows) ==
    /\ st = "race" => rows[w] = NoSheet
    /\ st \in {"hub", "playing"} => rows[w] # NoSheet /\ (rows[w].sworn => c.sworn)

OneEach == \A s, t \in Sessions : who[s] \in Names /\ who[s] = who[t] => s = t

Down == phase \in {"joining", "exited", "crashed"}

BrandInv ==
    /\ OneEach
    /\ \A s \in Sessions : SeatOK(state[s], who[s], char[s], store)
    /\ Down => \A s \in Sessions : state[s] = "gone"

Kept == \A n \in Names : store[n] # NoSheet /\ store[n].sworn =>
            store'[n] # NoSheet /\ store'[n].sworn

\* The rows after one session's step: as they were, or its own row written by it.
Writes(s, c) ==
    /\ who[s] \in Names /\ c \in Sheet
    /\ store' = [store EXCEPT ![who[s]] = c]
    /\ state[s] = "race" \/ (state[s] = "playing" /\ (char[s].sworn => c.sworn))

\* One session moves, and its slot stays true: every slot does, and no brand goes.
LEMMA OneMoves ==
    ASSUME TypeOK, BrandInv, NEW s \in Sessions, NEW c,
           \A t \in Sessions : t # s =>
               state'[t] = state[t] /\ who'[t] = who[t] /\ char'[t] = char[t],
           OneEach', SeatOK(state'[s], who'[s], char'[s], store'),
           store' = store \/ Writes(s, c), phase' = phase, ~Down
    PROVE  BrandInv' /\ Kept
  <1>1. ASSUME NEW t \in Sessions PROVE SeatOK(state'[t], who'[t], char'[t], store')
    <2>1. CASE t = s
      BY <2>1
    <2>2. CASE t # s
      <3>1. SeatOK(state[t], who[t], char[t], store)
        BY DEF BrandInv
      <3>2. state'[t] = state[t] /\ who'[t] = who[t] /\ char'[t] = char[t]
        BY <2>2
      <3>3. CASE state[t] \in {"race", "hub", "playing"}
        <4>1. who[t] \in Names
          BY <3>3 DEF TypeOK
        <4>2. store'[who[t]] = store[who[t]]
          <5>1. CASE store' = store
            BY <5>1
          <5>2. CASE Writes(s, c)
            <6>1. who[s] # who[t]
              BY <2>2, <4>1 DEF BrandInv, OneEach
            <6> QED BY <4>1, <5>2, <6>1 DEF Writes, TypeOK
          <5> QED BY <5>1, <5>2
        <4> QED BY <3>1, <3>2, <4>2 DEF SeatOK
      <3>4. CASE state[t] \notin {"race", "hub", "playing"}
        BY <3>2, <3>4 DEF SeatOK
      <3> QED BY <3>3, <3>4
    <2> QED BY <2>1, <2>2
  <1>2. BrandInv'
    <2>1. ~Down'
      BY DEF Down
    <2> QED BY <1>1, <2>1 DEF BrandInv
  <1>3. Kept
    <2>1. CASE store' = store
      BY <2>1 DEF Kept
    <2>2. CASE Writes(s, c)
      <3>1. ASSUME NEW n \in Names, store[n] # NoSheet, store[n].sworn
            PROVE  store'[n] # NoSheet /\ store'[n].sworn
        <4>1. CASE n # who[s]
          <5>1. store'[n] = store[n]
            BY <2>2, <4>1 DEF Writes, TypeOK
          <5> QED BY <3>1, <5>1
        <4>2. CASE n = who[s]
          <5>1. store'[n] = c /\ c # NoSheet
            BY <2>2, <4>2, NoSheetAssumption DEF Writes, TypeOK
          <5>2. SeatOK(state[s], n, char[s], store)
            BY <4>2 DEF BrandInv
          <5>3. state[s] = "playing" /\ (char[s].sworn => c.sworn)
            BY <2>2, <3>1, <5>2 DEF Writes, SeatOK
          <5>4. char[s].sworn
            BY <3>1, <5>2, <5>3 DEF SeatOK
          <5> QED BY <5>1, <5>3, <5>4
        <4> QED BY <4>1, <4>2
      <3> QED BY <3>1 DEF Kept
    <2> QED BY <2>1, <2>2
  <1> QED BY <1>2, <1>3

\* A login goes on with a character that carries the brand of the one it was given.
LEMMA FinishCarries ==
    ASSUME TypeOK, NEW s \in Sessions, NEW n \in Names, NEW c \in Sheet, FinishLogin(s, n, c)
    PROVE  /\ state'[s] \in {"hub", "playing"} /\ (c.sworn => char'[s].sworn)
           /\ \A t \in Sessions : t # s => state'[t] = state[t] /\ char'[t] = char[t]
  <1>1. \/ char' = [char EXCEPT ![s] = c]
        \/ char' = [char EXCEPT ![s] = Apply(c, hub[n])]
    BY DEF FinishLogin
  <1>2. c.sworn => Apply(c, hub[n]).sworn
    BY DEF Apply
  <1>3. state' = [state EXCEPT ![s] = "hub"] \/ state' = [state EXCEPT ![s] = "playing"]
    BY DEF FinishLogin
  <1>4. char'[s] = c \/ char'[s] = Apply(c, hub[n])
    BY <1>1 DEF TypeOK
  <1>5. state'[s] \in {"hub", "playing"}
    BY <1>3 DEF TypeOK
  <1>6. \A t \in Sessions : t # s => state'[t] = state[t] /\ char'[t] = char[t]
    BY <1>1, <1>3 DEF TypeOK
  <1>7. CASE char'[s] = c
    BY <1>5, <1>6, <1>7
  <1>8. CASE char'[s] = Apply(c, hub[n])
    BY <1>2, <1>5, <1>6, <1>8
  <1> QED BY <1>4, <1>7, <1>8

LEMMA BrandStep ==
    ASSUME SharedNames = FALSE, TypeInv, TypeInv', BrandInv, [Next]_vars
    PROVE  BrandInv' /\ Kept
  <1>1. TypeOK /\ TypeOK'
    BY DEF TypeInv
  <1>2. ASSUME UNCHANGED <<state, who, char, store>>,
               phase' = phase \/ ~Down' \/ \A s \in Sessions : state[s] = "gone"
        PROVE  BrandInv' /\ Kept
    <2>1. OneEach' /\ \A s \in Sessions : SeatOK(state'[s], who'[s], char'[s], store')
      BY <1>2 DEF BrandInv, OneEach
    <2>2. Down' => \A s \in Sessions : state'[s] = "gone"
      BY <1>2 DEF BrandInv, Down
    <2>3. Kept
      BY <1>2 DEF Kept
    <2> QED BY <2>1, <2>2, <2>3 DEF BrandInv
  <1>3. ASSUME NEW s \in Sessions, SessionStep(s)
        PROVE  BrandInv' /\ Kept
    <2>1. CASE Connect(s)
      <3>1. /\ state' = [state EXCEPT ![s] = "name"] /\ UNCHANGED <<who, char, store, phase>>
            /\ ~Down
        BY <2>1 DEF Connect, Serving, Down
      <3>2. /\ \A t \in Sessions : t # s =>
                   state'[t] = state[t] /\ who'[t] = who[t] /\ char'[t] = char[t]
            /\ state'[s] = "name" /\ OneEach'
        BY <1>1, <3>1 DEF TypeOK, BrandInv, OneEach
      <3>3. SeatOK(state'[s], who'[s], char'[s], store')
        BY <3>2 DEF SeatOK
      <3> QED BY <1>1, <3>1, <3>2, <3>3, OneMoves
    <2>2. ASSUME NEW n \in Names, HandleName(s, n)
          PROVE  BrandInv' /\ Kept
      <3>1. /\ who' = [who EXCEPT ![s] = n] /\ UNCHANGED <<store, phase>> /\ ~Down
            /\ \A t \in Sessions : who[t] # n
        BY <2>2 DEF HandleName, Serving, Down
      <3>2. who'[s] = n /\ \A t \in Sessions : t # s => who'[t] = who[t]
        BY <1>1, <3>1 DEF TypeOK
      <3>3. OneEach'
        BY <3>1, <3>2 DEF BrandInv, OneEach
      <3>4. CASE store[n] # NoSheet /\ FinishLogin(s, n, store[n])
        <4>1. store[n] \in Sheet
          BY <1>1, <3>4 DEF TypeOK
        <4>2. /\ state'[s] \in {"hub", "playing"} /\ (store[n].sworn => char'[s].sworn)
              /\ \A t \in Sessions : t # s => state'[t] = state[t] /\ char'[t] = char[t]
          BY <1>1, <3>4, <4>1, FinishCarries
        <4>3. SeatOK(state'[s], who'[s], char'[s], store')
          BY <3>1, <3>2, <3>4, <4>2 DEF SeatOK
        <4> QED BY <1>1, <3>1, <3>2, <3>3, <4>2, <4>3, OneMoves
      <3>5. CASE store[n] = NoSheet /\ state' = [state EXCEPT ![s] = "race"]
                 /\ char' = [char EXCEPT ![s] = Blank]
        <4>1. /\ state'[s] = "race"
              /\ \A t \in Sessions : t # s => state'[t] = state[t] /\ char'[t] = char[t]
          BY <1>1, <3>5 DEF TypeOK
        <4>2. SeatOK(state'[s], who'[s], char'[s], store')
          BY <3>1, <3>2, <3>5, <4>1 DEF SeatOK
        <4> QED BY <1>1, <3>1, <3>2, <3>3, <4>1, <4>2, OneMoves
      <3> QED BY <2>2, <3>4, <3>5 DEF HandleName
    <2>3. CASE HandleRace(s)
      <3>1. /\ state[s] = "race" /\ UNCHANGED <<who, phase>> /\ ~Down
            /\ store' = [store EXCEPT ![who[s]] = char[s]]
            /\ FinishLogin(s, who[s], char[s])
        BY <2>3 DEF HandleRace, Serving, Down
      <3>2. who[s] \in Names /\ char[s] \in Sheet
        BY <1>1, <3>1 DEF TypeOK
      <3>3. /\ state'[s] \in {"hub", "playing"} /\ (char[s].sworn => char'[s].sworn)
            /\ \A t \in Sessions : t # s => state'[t] = state[t] /\ char'[t] = char[t]
        BY <1>1, <3>1, <3>2, FinishCarries
      <3>4. store'[who'[s]] = char[s] /\ char[s] # NoSheet
        BY <1>1, <3>1, <3>2, NoSheetAssumption DEF TypeOK
      <3>5. SeatOK(state'[s], who'[s], char'[s], store')
        BY <3>3, <3>4 DEF SeatOK
      <3>6. Writes(s, char[s]) /\ OneEach'
        BY <3>1, <3>2 DEF Writes, BrandInv, OneEach
      <3> QED BY <1>1, <3>1, <3>3, <3>5, <3>6, OneMoves
    <2>4. ASSUME NEW c \in Sheet, state[s] = "playing", char[s].sworn => c.sworn, Save(who[s], c),
                 UNCHANGED <<state, who, phase>>, ~Down, char' = [char EXCEPT ![s] = c]
          PROVE  BrandInv' /\ Kept
      <3>1. who[s] \in Names /\ char'[s] = c /\ \A t \in Sessions : t # s => char'[t] = char[t]
        BY <1>1, <2>4 DEF TypeOK
      <3>2. store' = store \/ store' = [store EXCEPT ![who[s]] = c]
        BY <2>4 DEF Save
      <3>3. store' = store \/ Writes(s, c)
        BY <2>4, <3>1, <3>2 DEF Writes
      <3>4. OneEach'
        BY <2>4 DEF BrandInv, OneEach
      <3>5. SeatOK(state'[s], who'[s], char'[s], store')
        <4>1. CASE store' = store
          <5>1. SeatOK(state[s], who[s], char[s], store)
            BY DEF BrandInv
          <5> QED BY <2>4, <3>1, <4>1, <5>1 DEF SeatOK
        <4>2. CASE store' = [store EXCEPT ![who[s]] = c]
          <5>1. store'[who'[s]] = c /\ c # NoSheet
            BY <1>1, <2>4, <3>1, <4>2, NoSheetAssumption DEF TypeOK
          <5> QED BY <2>4, <3>1, <5>1 DEF SeatOK
        <4> QED BY <3>2, <4>1, <4>2
      <3> QED BY <1>1, <2>4, <3>1, <3>3, <3>4, <3>5, OneMoves
    <2>5. CASE Earn(s)
      <3> DEFINE c == [char[s] EXCEPT !.xp = @ + 1]
      <3>1. char[s] \in Sheet
        BY <1>1 DEF TypeOK
      <3>2. c \in Sheet /\ c.sworn = char[s].sworn
        BY <3>1, SheetType DEF Sheet
      <3> HIDE DEF c
      <3>3. /\ state[s] = "playing" /\ Save(who[s], c) /\ char' = [char EXCEPT ![s] = c]
            /\ UNCHANGED <<state, who, phase>> /\ ~Down
        BY <2>5 DEF Earn, Serving, Down, c
      <3> QED BY <2>4, <3>2, <3>3
    <2>6. CASE Pledge(s)
      <3> DEFINE c == [char[s] EXCEPT !.sworn = TRUE]
      <3>1. char[s] \in Sheet
        BY <1>1 DEF TypeOK
      <3>2. c \in Sheet /\ c.sworn
        BY <3>1, SheetType DEF Sheet
      <3> HIDE DEF c
      <3>3. /\ state[s] = "playing" /\ Save(who[s], c) /\ char' = [char EXCEPT ![s] = c]
            /\ UNCHANGED <<state, who, phase>> /\ ~Down
        BY <2>6 DEF Pledge, Serving, Down, c
      <3> QED BY <2>4, <3>2, <3>3
    <2>7. CASE Travel(s)
      <3>1. char[s] \in Sheet /\ char = [char EXCEPT ![s] = char[s]]
        BY <1>1 DEF TypeOK
      <3>2. /\ state[s] = "playing" /\ Save(who[s], char[s]) /\ char' = char
            /\ UNCHANGED <<state, who, phase>> /\ ~Down
        BY <2>7 DEF Travel, Serving, Down, loopVars
      <3> QED BY <2>4, <3>1, <3>2
    <2>8. CASE Close(s)
      <3>1. /\ state' = [state EXCEPT ![s] = "gone"] /\ who' = [who EXCEPT ![s] = NoName]
            /\ char' = [char EXCEPT ![s] = Blank] /\ phase' = phase /\ ~Down
        BY <2>8 DEF Close, Serving, Down
      <3>2. /\ state'[s] = "gone" /\ who'[s] = NoName
            /\ \A t \in Sessions : t # s =>
                   state'[t] = state[t] /\ who'[t] = who[t] /\ char'[t] = char[t]
        BY <1>1, <3>1 DEF TypeOK
      <3>3. OneEach' /\ SeatOK(state'[s], who'[s], char'[s], store')
        BY <3>2, NoNameAssumption DEF BrandInv, OneEach, SeatOK
      <3>4. store' = store \/ Writes(s, char[s])
        <4>1. CASE state[s] = "playing" /\ Save(who[s], char[s])
          <5>1. who[s] \in Names /\ char[s] \in Sheet
            BY <1>1, <4>1 DEF TypeOK
          <5> QED BY <4>1, <5>1 DEF Save, Writes
        <4> QED BY <2>8, <4>1 DEF Close
      <3> QED BY <1>1, <3>1, <3>2, <3>3, <3>4, OneMoves
    <2> QED BY <1>3, <2>1, <2>2, <2>3, <2>5, <2>6, <2>7, <2>8 DEF SessionStep
  <1>4. CASE Admit
    <2>1. UNCHANGED <<who, store, phase>> /\ ~Down
      BY <1>4 DEF Admit, Down
    <2>2. OneEach'
      BY <2>1 DEF BrandInv, OneEach
    <2>3. CASE UNCHANGED <<char, state>>
      BY <1>2, <2>1, <2>3
    <2>4. ASSUME NEW i \in Waiting(Head(inbox).name),
                 char' = [char EXCEPT ![roster[i]] = Apply(@, Head(inbox).sheet)],
                 state' = [state EXCEPT ![roster[i]] = "playing"]
          PROVE  BrandInv' /\ Kept
      <3> DEFINE s == roster[i]
      <3>1. s \in Sessions /\ state[s] = "hub"
        BY <1>1 DEF Waiting, TypeOK
      <3> HIDE DEF s
      <3>2. /\ state'[s] = "playing" /\ char'[s] = Apply(char[s], Head(inbox).sheet)
            /\ \A t \in Sessions : t # s =>
                   state'[t] = state[t] /\ who'[t] = who[t] /\ char'[t] = char[t]
        BY <1>1, <2>1, <2>4, <3>1 DEF TypeOK, s
      <3>3. char[s].sworn => char'[s].sworn
        <4>1. char[s].sworn => Apply(char[s], Head(inbox).sheet).sworn
          BY DEF Apply
        <4> QED BY <3>2, <4>1
      <3>4. SeatOK(state[s], who[s], char[s], store)
        BY <3>1 DEF BrandInv
      <3>5. SeatOK(state'[s], who'[s], char'[s], store')
        BY <2>1, <3>1, <3>2, <3>3, <3>4 DEF SeatOK
      <3> QED BY <1>1, <2>1, <2>2, <3>1, <3>2, <3>5, OneMoves
    <2> QED BY <1>4, <2>3, <2>4 DEF Admit
  <1>5. CASE Crash
    <2>1. /\ state' = [s \in Sessions |-> "gone"] /\ who' = [s \in Sessions |-> NoName]
          /\ store' = store
      BY <1>5 DEF Crash
    <2>2. \A s \in Sessions : state'[s] = "gone" /\ who'[s] = NoName
      BY <2>1
    <2> QED BY <2>1, <2>2, NoNameAssumption DEF BrandInv, OneEach, SeatOK, Kept
  <1>6. CASE Boot
    <2>1. Down /\ ~Down' /\ UNCHANGED <<state, who, char>>
      BY <1>6 DEF Boot, Down, loopVars
    <2>2. \A s \in Sessions : state'[s] = "gone"
      BY <2>1 DEF BrandInv
    <2>3. PICK files \in Files : store' = Import(store, files)
      BY <1>6 DEF Boot
    <2>4. Kept
      BY <2>3 DEF Kept, Import
    <2> QED BY <2>1, <2>2, <2>4 DEF BrandInv, OneEach, SeatOK
  <1>7. CASE Drain \/ Worker \/ Stop \/ BeginJoin \/ Exit \/ UNCHANGED vars
             \/ \E n \in Names : Elsewhere(n)
    <2>1. /\ UNCHANGED <<state, who, char, store>>
          /\ phase' = phase \/ ~Down' \/ (\A s \in Sessions : state[s] = "gone") \/ Down
      BY <1>7 DEF Drain, Worker, TakeLoads, LoadOne, TakeCommits, CommitOne, Refresh, Polled, Rest,
             Timeout, Return, workerRest, Stop, BeginJoin, Exit, Elsewhere, vars, loopVars, Down
    <2> QED BY <1>2, <2>1 DEF BrandInv
  <1> QED BY <1>3, <1>4, <1>5, <1>6, <1>7 DEF Next, Stopped

\* The stored brand is write-once wherever no two live sessions share a name, for any
\* number of them, with a disk that may fail, restarts and imports.  (handle_name,
\* hg_store_save, apply_hub_sheet, migrate_legacy_json.)
THEOREM BrandIsForever ==
    ASSUME SharedNames = FALSE
    PROVE  Spec => BrandKept
  <1>1. Init => BrandInv
    <2> SUFFICES ASSUME Init PROVE BrandInv
      OBVIOUS
    <2>1. \A s \in Sessions : state[s] = "gone" /\ who[s] = NoName
      BY DEF Init
    <2> QED BY <2>1, NoNameAssumption DEF BrandInv, OneEach, SeatOK
  <1>2. TypeInv /\ TypeInv' /\ BrandInv /\ [Next]_vars => BrandInv' /\ Kept
    BY BrandStep
  <1>3. Kept => [\A n \in Names : store[n] # NoSheet /\ store[n].sworn =>
                     store'[n] # NoSheet /\ store'[n].sworn]_vars
    BY DEF Kept
  <1> QED BY <1>1, <1>2, <1>3, TypeCorrect, PTL DEF Spec, BrandKept

\* In particular every variable keeps its type.
THEOREM IdentityTypes == Spec => []TypeOK
  <1>1. TypeInv => TypeOK
    BY DEF TypeInv
  <1> QED BY <1>1, TypeCorrect, PTL

-----------------------------------------------------------------------------
(* Nothing committed is forgotten, where the queue has room for every name. *)

RoomForAll == IsFiniteSet(Names) /\ Cardinality(Names) <= CommitCap

\* A queue of other names' commits is never full: none is dropped for a new one.
LEMMA RoomForOne ==
    ASSUME RoomForAll, NEW q \in Seq(Commit), Distinct(q), NEW n \in Names,
           \A j \in DOMAIN q : q[j].name # n
    PROVE  MakeRoom(q, CommitCap) = q
  <1> DEFINE f == [i \in 1 .. Len(q) |-> q[i].name]
             T == Names \ {n}
  <1>1. /\ IsFiniteSet(T) /\ Cardinality(T) = Cardinality(Names) - 1
        /\ Cardinality(Names) \in Nat
    BY FS_RemoveElement, FS_CardinalityType DEF RoomForAll
  <1>2. IsFiniteSet(1 .. Len(q)) /\ Cardinality(1 .. Len(q)) = Len(q)
    <2>1. 1 \in Int /\ Len(q) \in Int /\ Len(q) >= 0
      OBVIOUS
    <2>2. /\ IsFiniteSet(1 .. Len(q))
          /\ Cardinality(1 .. Len(q)) = IF 1 > Len(q) THEN 0 ELSE Len(q) - 1 + 1
      BY <2>1, FS_Interval
    <2> QED BY <2>1, <2>2
  <1>3. f \in [1 .. Len(q) -> T]
    <2>1. ASSUME NEW i \in 1 .. Len(q) PROVE q[i].name \in T
      <3>1. q[i] \in Commit
        OBVIOUS
      <3> QED BY <3>1 DEF Commit
    <2> QED BY <2>1
  <1> HIDE DEF T
  <1>4. SUFFICES ASSUME Len(q) >= CommitCap PROVE FALSE
    BY DEF MakeRoom
  <1>5. Cardinality(T) < Cardinality(1 .. Len(q))
    BY <1>1, <1>2, <1>4, CapAssumption DEF RoomForAll
  <1> HIDE DEF f
  <1>6. \E x, y \in 1 .. Len(q) : x # y /\ f[x] = f[y]
    BY <1>1, <1>2, <1>3, <1>5, FS_PigeonHole
  <1>7. PICK x \in 1 .. Len(q), y \in 1 .. Len(q) : x # y /\ f[x] = f[y]
    BY <1>6
  <1>8. q[x].name = q[y].name
    BY <1>7 DEF f
  <1> QED BY <1>7, <1>8 DEF Distinct

\* commit_hub puts the new commit in the queue, and every other name's stays there.
LEMMA QueueCommitKeeps ==
    ASSUME RoomForAll, NEW q \in Seq(Commit), Distinct(q), NEW e \in Commit
    PROVE  LET r == QueueCommit(q, e) IN
           /\ \E i \in DOMAIN r : r[i] = e
           /\ \A j \in DOMAIN q : q[j].name # e.name => \E i \in DOMAIN r : r[i] = q[j]
  <1> DEFINE r == QueueCommit(q, e)
  <1>1. CASE e.name \in NamesIn(q)
    <2>1. r = [i \in DOMAIN q |-> IF q[i].name = e.name THEN e ELSE q[i]]
      BY <1>1 DEF QueueCommit
    <2>2. PICK k \in DOMAIN q : q[k].name = e.name
      BY <1>1 DEF NamesIn, Queued
    <2> HIDE DEF r
    <2>3. r[k] = e /\ k \in DOMAIN r
      BY <2>1, <2>2
    <2>4. \A j \in DOMAIN q : q[j].name # e.name => j \in DOMAIN r /\ r[j] = q[j]
      BY <2>1
    <2> QED BY <2>3, <2>4 DEF r
  <1>2. CASE e.name \notin NamesIn(q)
    <2>1. e.name \in Names /\ \A j \in DOMAIN q : q[j].name # e.name
      BY <1>2 DEF NamesIn, Queued, Commit
    <2>2. r = Append(q, e)
      <3>1. MakeRoom(q, CommitCap) = q
        BY <2>1, RoomForOne
      <3> QED BY <1>2, <3>1 DEF QueueCommit
    <2> HIDE DEF r
    <2>3. /\ DOMAIN r = 1 .. Len(q) + 1 /\ r[Len(q) + 1] = e
          /\ \A j \in DOMAIN q : j \in DOMAIN r /\ r[j] = q[j]
      BY <2>2
    <2> QED BY <2>3 DEF r
  <1> QED BY <1>1, <1>2

\* The newest commit of a name was tried, waits, or is in the worker's hands.
Carried(q, b, snt, iss) ==
    \A n \in Names :
        \/ snt[n] = iss[n]
        \/ \E j \in DOMAIN q : q[j].name = n /\ q[j].stamp = iss[n]
        \/ \E j \in DOMAIN b : b[j].name = n /\ b[j].stamp = iss[n]

LEMMA PushCarried ==
    ASSUME RoomForAll, NEW q \in Seq(Commit), NEW b \in Seq(Commit), Distinct(q),
           NEW snt \in [Names -> Nat], NEW iss \in [Names -> Nat], Carried(q, b, snt, iss),
           NEW e \in Commit, e.stamp = iss[e.name] + 1
    PROVE  Carried(QueueCommit(q, e), b, snt, [iss EXCEPT ![e.name] = e.stamp])
  <1> DEFINE r == QueueCommit(q, e)
             iss2 == [iss EXCEPT ![e.name] = e.stamp]
  <1>1. /\ \E i \in DOMAIN r : r[i] = e
        /\ \A j \in DOMAIN q : q[j].name # e.name => \E i \in DOMAIN r : r[i] = q[j]
    BY QueueCommitKeeps
  <1>2. e.name \in Names /\ iss2[e.name] = e.stamp
        /\ \A n \in Names : n # e.name => iss2[n] = iss[n]
    BY DEF Commit
  <1> HIDE DEF r, iss2
  <1>3. ASSUME NEW n \in Names
        PROVE  \/ snt[n] = iss2[n]
               \/ \E j \in DOMAIN r : r[j].name = n /\ r[j].stamp = iss2[n]
               \/ \E j \in DOMAIN b : b[j].name = n /\ b[j].stamp = iss2[n]
    <2>1. CASE n = e.name
      BY <1>1, <1>2, <2>1
    <2>2. CASE n # e.name
      <3>1. iss2[n] = iss[n]
        BY <1>2, <2>2
      <3>2. CASE \E j \in DOMAIN q : q[j].name = n /\ q[j].stamp = iss[n]
        <4>1. PICK j \in DOMAIN q : q[j].name = n /\ q[j].stamp = iss[n]
          BY <3>2
        <4>2. PICK i \in DOMAIN r : r[i] = q[j]
          BY <1>1, <2>2, <4>1
        <4> QED BY <3>1, <4>1, <4>2
      <3> QED BY <3>1, <3>2 DEF Carried
    <2> QED BY <2>1, <2>2
  <1> QED BY <1>3 DEF Carried, r, iss2

LEMMA PopCarried ==
    ASSUME NEW q \in Seq(Commit), NEW b \in Seq(Commit), b # <<>>,
           NEW snt \in [Names -> Nat], NEW iss \in [Names -> Nat],
           Ordered(q, b, snt, iss), Carried(q, b, snt, iss)
    PROVE  Carried(q, Tail(b), [snt EXCEPT ![Head(b).name] = Head(b).stamp], iss)
  <1> DEFINE t == Tail(b)
             h == Head(b)
             snt2 == [snt EXCEPT ![h.name] = h.stamp]
  <1>1. /\ h = b[1] /\ 1 \in DOMAIN b /\ h \in Commit
        /\ \A j \in DOMAIN b : j # 1 => j - 1 \in DOMAIN t /\ t[j - 1] = b[j]
    OBVIOUS
  <1>2. h.name \in Names /\ h.stamp \in Nat /\ snt[h.name] < h.stamp /\ h.stamp <= iss[h.name]
    BY <1>1 DEF Commit, Ordered, Between
  <1>3. snt2[h.name] = h.stamp /\ \A n \in Names : n # h.name => snt2[n] = snt[n]
    BY <1>2
  <1> HIDE DEF t, h, snt2
  <1>4. ASSUME NEW n \in Names
        PROVE  \/ snt2[n] = iss[n]
               \/ \E j \in DOMAIN q : q[j].name = n /\ q[j].stamp = iss[n]
               \/ \E j \in DOMAIN t : t[j].name = n /\ t[j].stamp = iss[n]
    <2>1. CASE n = h.name /\ h.stamp = iss[n]
      BY <1>3, <2>1
    <2>2. CASE ~(n = h.name /\ h.stamp = iss[n])
      <3>1. CASE snt[n] = iss[n]
        <4>1. n # h.name
          <5>1. snt[n] \in Nat /\ iss[n] \in Nat
            OBVIOUS
          <5> QED BY <1>2, <2>2, <3>1, <5>1
        <4> QED BY <1>3, <3>1, <4>1
      <3>2. CASE \E j \in DOMAIN b : b[j].name = n /\ b[j].stamp = iss[n]
        <4>1. PICK j \in DOMAIN b : b[j].name = n /\ b[j].stamp = iss[n]
          BY <3>2
        <4>2. j # 1
          BY <1>1, <2>2, <4>1
        <4> QED BY <1>1, <4>1, <4>2
      <3> QED BY <3>1, <3>2 DEF Carried
    <2> QED BY <2>1, <2>2
  <1> QED BY <1>4 DEF Carried, t, h, snt2

\* What makes the accounts true.  What the worker holds was not tried before; it holds
\* commits only while it commits; and a stopped worker's queue is empty when it leaves,
\* since the sessions that could add to it are gone before it is told to stop.
AccInv ==
    /\ Ordered(commits, commitBatch, sent, issued)
    /\ mode # "worker" => commits = <<>> /\ commitBatch = <<>>
    /\ pc # "committing" => commitBatch = <<>>
    /\ phase # "crashed" => Carried(commits, commitBatch, sent, issued)

ExitInv ==
    /\ Down => \A s \in Sessions : state[s] = "gone"
    /\ stop => Down
    /\ stage = "final" => stop
    /\ stage = "final" /\ pc \in {"committing", "off"} => commits = <<>>
    /\ pc = "off" => mode # "worker" \/ stage = "final" \/ phase = "crashed"
    /\ phase = "exited" => pc = "off"

\* A commit keeps the accounts, with the worker or without it.
LEMMA CommitAccounted ==
    ASSUME RoomForAll, TypeInv, AccInv, NEW n \in Names, NEW c \in Sheet, CommitHub(n, c),
           UNCHANGED <<mode, commitBatch, phase>>, phase # "crashed"
    PROVE  AccInv'
  <1>1. /\ commits \in Seq(Commit) /\ commitBatch \in Seq(Commit) /\ Distinct(commits)
        /\ issued \in [Names -> Nat] /\ sent \in [Names -> Nat]
        /\ Carried(commits, commitBatch, sent, issued)
    BY DEF TypeInv, TypeOK, AccInv
  <1>2. pc' # "committing" => pc # "committing"
    BY DEF CommitHub, Signal
  <1>3. CASE mode = "worker"
    <2> DEFINE e == [name |-> n, sheet |-> c, stamp |-> issued[n] + 1]
    <2>1. e \in Commit /\ e.name = n /\ e.stamp = issued[n] + 1
      BY <1>1 DEF Commit
    <2> HIDE DEF e
    <2>2. /\ commits' = QueueCommit(commits, e)
          /\ issued' = [issued EXCEPT ![e.name] = e.stamp] /\ sent' = sent
      BY <1>3, <2>1 DEF CommitHub, e
    <2>3. Ordered(commits', commitBatch, sent, issued')
      BY <1>1, <2>1, <2>2, PushOrdered DEF AccInv
    <2>4. Carried(commits', commitBatch, sent, issued')
      BY <1>1, <2>1, <2>2, PushCarried
    <2> QED BY <1>2, <1>3, <2>2, <2>3, <2>4 DEF AccInv
  <1>4. CASE mode # "worker"
    <2>1. commits = <<>> /\ commitBatch = <<>> /\ commits' = commits
      BY <1>4 DEF AccInv, CommitHub
    <2>2. \/ issued' = issued /\ sent' = sent
          \/ /\ issued' = [issued EXCEPT ![n] = issued[n] + 1]
             /\ sent' = [sent EXCEPT ![n] = issued[n] + 1]
      BY <1>4 DEF CommitHub, HubStores, hubVars
    <2>3. \A m \in Names : sent[m] = issued[m] /\ issued[m] \in Nat
      BY <1>1, <2>1 DEF Carried
    <2>4. \A m \in Names : sent'[m] = issued'[m] /\ issued'[m] \in Nat
      BY <1>1, <2>2, <2>3
    <2>5. Ordered(commits', commitBatch', sent', issued')
      BY <2>1, <2>4 DEF Ordered
    <2>6. Carried(commits', commitBatch', sent', issued')
      BY <2>4 DEF Carried
    <2> QED BY <2>1, <2>5, <2>6 DEF AccInv
  <1> QED BY <1>3, <1>4

LEMMA AccStep ==
    ASSUME RoomForAll, TypeInv, AccInv, [Next]_vars
    PROVE  AccInv'
  <1>1. /\ commits \in Seq(Commit) /\ commitBatch \in Seq(Commit) /\ Distinct(commitBatch)
        /\ issued \in [Names -> Nat] /\ sent \in [Names -> Nat]
    BY DEF TypeInv, TypeOK
  <1>2. ASSUME UNCHANGED <<mode, commits, commitBatch, issued, sent>>,
               pc' = "committing" \/ pc # "committing" \/ commitBatch = <<>>,
               phase # "crashed" \/ phase' = "crashed"
        PROVE  AccInv'
    BY <1>2 DEF AccInv
  <1>3. ASSUME commits' = <<>>, commitBatch' = commits, commitBatch = <<>>, pc' = "committing",
               UNCHANGED <<mode, issued, sent, phase>>
        PROVE  AccInv'
    <2>1. Ordered(<<>>, commits, sent, issued)
      BY <1>1, <1>3 DEF AccInv, Ordered
    <2>2. phase # "crashed" => Carried(<<>>, commits, sent, issued)
      BY <1>3 DEF AccInv, Carried
    <2> QED BY <1>3, <2>1, <2>2 DEF AccInv
  <1>4. ASSUME NEW s \in Sessions, SessionStep(s)
        PROVE  AccInv'
    <2>1. CASE Connect(s) \/ Earn(s)
      BY <1>2, <2>1 DEF Connect, Earn, workerVars, hubVars
    <2>2. ASSUME NEW n, NEW c, FinishLogin(s, n, c)
          PROVE  pc' = pc \/ (pc = "sleep" /\ pc' = "test")
      BY <2>2 DEF FinishLogin, Signal
    <2>3. CASE HandleRace(s)
      <3>1. /\ pc' = pc \/ (pc = "sleep" /\ pc' = "test")
            /\ UNCHANGED <<mode, commits, commitBatch, hubVars, phase>>
        BY <2>2, <2>3 DEF HandleRace
      <3> QED BY <1>2, <3>1 DEF hubVars
    <2>4. ASSUME NEW n \in Names, HandleName(s, n)
          PROVE  AccInv'
      <3>1. /\ pc' = pc \/ (pc = "sleep" /\ pc' = "test")
            /\ UNCHANGED <<mode, commits, commitBatch, hubVars, phase>>
        BY <2>2, <2>4 DEF HandleName
      <3> QED BY <1>2, <3>1 DEF hubVars
    <2>5. CASE Pledge(s)
      <3>1. who[s] \in Names /\ [char[s] EXCEPT !.sworn = TRUE] \in Sheet
        BY <2>5, SheetType DEF Pledge, TypeInv, TypeOK
      <3> QED BY <2>5, <3>1, CommitAccounted DEF Pledge, Serving
    <2>6. CASE Travel(s)
      <3>1. who[s] \in Names /\ char[s] \in Sheet
        BY <2>6 DEF Travel, TypeInv, TypeOK
      <3> QED BY <2>6, <3>1, CommitAccounted DEF Travel, Serving
    <2>7. CASE Close(s)
      <3>1. CASE state[s] = "playing"
        <4>1. who[s] \in Names /\ char[s] \in Sheet
          BY <3>1 DEF TypeInv, TypeOK
        <4> QED BY <2>7, <3>1, <4>1, CommitAccounted DEF Close, Serving
      <3>2. CASE state[s] # "playing"
        BY <1>2, <2>7, <3>2 DEF Close, hubVars
      <3> QED BY <3>1, <3>2
    <2> QED BY <1>4, <2>1, <2>3, <2>4, <2>5, <2>6, <2>7 DEF SessionStep
  <1>5. CASE CommitOne
    <2>1. /\ commitBatch # <<>> /\ commitBatch' = Tail(commitBatch)
          /\ sent' = [sent EXCEPT ![Head(commitBatch).name] = Head(commitBatch).stamp]
          /\ UNCHANGED <<mode, phase, commits, issued, pc>> /\ pc = "committing"
      BY <1>5 DEF CommitOne, HubStores, workerRest
    <2>2. Ordered(commits, Tail(commitBatch), sent', issued)
      <3> HIDE DEF Ordered
      <3> QED BY <1>1, <2>1, PopOrdered DEF AccInv
    <2>3. phase # "crashed" => Carried(commits, Tail(commitBatch), sent', issued)
      BY <1>1, <2>1, PopCarried DEF AccInv
    <2>4. mode = "worker"
      BY <2>1 DEF AccInv
    <2> QED BY <2>1, <2>2, <2>3, <2>4 DEF AccInv
  <1>6. CASE TakeCommits \/ Refresh
    <2>1. commitBatch = <<>>
      BY <1>6 DEF TakeCommits, Refresh, AccInv
    <2> QED BY <1>3, <1>6, <2>1 DEF TakeCommits, Refresh, workerRest
  <1>7. CASE Crash
    <2>1. commits' = <<>> /\ commitBatch' = <<>> /\ UNCHANGED <<issued, sent>> /\ phase' = "crashed"
      BY <1>7 DEF Crash, hubVars
    <2> QED BY <1>1, <2>1 DEF AccInv, Ordered
  <1>8. CASE Boot
    <2>1. commits' = <<>> /\ commitBatch' = <<>> /\ issued' = issued /\ sent' = issued
      BY <1>8 DEF Boot
    <2>2. \A n \in Names : issued[n] <= issued[n]
      BY <1>1
    <2> QED BY <2>1, <2>2 DEF AccInv, Ordered, Carried
  <1>9. CASE \/ Drain \/ Admit \/ TakeLoads \/ LoadOne \/ Polled \/ Rest \/ Timeout \/ Return
    BY <1>2, <1>9 DEF Drain, Admit, TakeLoads, LoadOne, Polled, Rest, Timeout, Return,
                      workerRest, workerVars, hubVars
  <1>10. CASE \/ Stop \/ BeginJoin \/ Exit \/ UNCHANGED vars
              \/ \E n \in Names : Elsewhere(n)
    BY <1>2, <1>10 DEF Stop, BeginJoin, Exit, Elsewhere, Serving, Signal, vars, workerVars, hubVars
  <1> QED BY <1>4, <1>5, <1>6, <1>7, <1>8, <1>9, <1>10 DEF Next, Worker, Stopped

LEMMA ExitStep ==
    ASSUME TypeInv, ExitInv, [Next]_vars
    PROVE  ExitInv'
  <1>1. TypeOK
    BY DEF TypeInv
  <1>2. ASSUME NEW s \in Sessions, SessionStep(s)
        PROVE  ExitInv'
    <2>1. state[s] # "gone" \/ Connect(s)
      BY <1>2 DEF SessionStep, HandleRace, Earn, Pledge, Travel, Close, HandleName
    <2>2. ~Down /\ phase' = phase /\ UNCHANGED <<stop, stage, mode>>
      BY <1>2 DEF SessionStep, Connect, HandleRace, Earn, Pledge, Travel, Close, HandleName,
             Serving, Down, workerVars
    <2>3. pc' = pc \/ (pc = "sleep" /\ pc' = "test")
      <3>1. ASSUME NEW n, NEW c, FinishLogin(s, n, c)
            PROVE  pc' = pc \/ (pc = "sleep" /\ pc' = "test")
        BY <3>1 DEF FinishLogin, Signal
      <3>2. ASSUME NEW n, NEW c, CommitHub(n, c)
            PROVE  pc' = pc \/ (pc = "sleep" /\ pc' = "test")
        BY <3>2 DEF CommitHub, Signal
      <3>3. CASE Connect(s) \/ Earn(s)
        BY <3>3 DEF Connect, Earn, workerVars
      <3>4. CASE HandleRace(s)
        BY <3>1, <3>4 DEF HandleRace
      <3>5. CASE Pledge(s)
        BY <3>2, <3>5 DEF Pledge
      <3>6. CASE Travel(s) \/ Close(s)
        BY <3>2, <3>6 DEF Travel, Close
      <3>7. ASSUME NEW n \in Names, HandleName(s, n)
            PROVE  pc' = pc \/ (pc = "sleep" /\ pc' = "test")
        BY <3>1, <3>7 DEF HandleName
      <3> QED BY <1>2, <3>3, <3>4, <3>5, <3>6, <3>7 DEF SessionStep
    <2> QED BY <2>2, <2>3 DEF ExitInv, Down
  <1>3. CASE Worker
    <2>1. UNCHANGED <<mode, phase, state, stop>>
      BY <1>3 DEF Worker, TakeLoads, LoadOne, TakeCommits, CommitOne, Refresh, Polled, Rest,
             Timeout, Return, workerRest, loopVars
    <2>2. CASE TakeLoads
      BY <2>1, <2>2 DEF TakeLoads, ExitInv, Down
    <2>3. CASE TakeCommits
      BY <2>1, <2>3 DEF TakeCommits, ExitInv, Down
    <2>4. CASE LoadOne \/ CommitOne \/ Timeout
      BY <2>1, <2>4 DEF LoadOne, CommitOne, Timeout, ExitInv, Down
    <2>5. CASE Refresh \/ Polled \/ Rest
      BY <2>1, <2>5 DEF Refresh, Polled, Rest, ExitInv, Down
    <2>6. CASE Return
      BY <2>1, <2>6 DEF Return, ExitInv, Down
    <2> QED BY <1>3, <2>2, <2>3, <2>4, <2>5, <2>6 DEF Worker
  <1>4. CASE Drain \/ Admit
    <2>1. UNCHANGED <<mode, phase, stop, stage, pc, commits>> /\ ~Down
      BY <1>4 DEF Drain, Admit, Serving, Down, workerVars
    <2> QED BY <2>1 DEF ExitInv, Down
  <1>5. CASE Stop
    BY <1>5 DEF Stop, Serving, ExitInv, Down, loopVars, workerVars
  <1>6. CASE BeginJoin
    <2>1. /\ \A s \in Sessions : state'[s] = "gone"
          /\ phase' = "joining" /\ phase = "closing" /\ UNCHANGED <<mode, stage, commits>>
          /\ pc' = pc \/ (pc = "sleep" /\ pc' = "test")
      BY <1>6 DEF BeginJoin, Signal, loopVars
    <2> QED BY <2>1 DEF ExitInv, Down
  <1>7. CASE Exit
    BY <1>7 DEF Exit, ExitInv, Down, loopVars, workerVars
  <1>8. CASE Crash
    BY <1>8 DEF Crash, ExitInv, Down
  <1>9. CASE Boot
    BY <1>9, ModeAssumption DEF Boot, ExitInv, Down
  <1>10. CASE UNCHANGED vars \/ \E n \in Names : Elsewhere(n)
    <2>1. UNCHANGED <<mode, phase, state, stop, stage, pc, commits>>
      BY <1>10 DEF vars, Elsewhere, loopVars, workerVars
    <2> QED BY <2>1 DEF ExitInv, Down
  <1> QED BY <1>2, <1>3, <1>4, <1>5, <1>6, <1>7, <1>8, <1>9, <1>10 DEF Next, Stopped

\* Where the commit queue has room for every name, the newest sheet committed for a name
\* has been tried at the hub or is on its way there, for any number of sessions and
\* names, whatever was coalesced, failed or restarted.  (commit_hub,
\* take_pending_commits.)
THEOREM NewestIsAccounted ==
    ASSUME RoomForAll
    PROVE  Spec => []NewestCommitAccounted
  <1>1. Init => AccInv
    BY DEF Init, AccInv, Ordered, Carried
  <1>2. TypeInv /\ AccInv /\ [Next]_vars => AccInv'
    BY AccStep
  <1>3. AccInv => NewestCommitAccounted
    BY DEF AccInv, Carried, NewestCommitAccounted, Queued
  <1> QED BY <1>1, <1>2, <1>3, TypeCorrect, PTL DEF Spec

\* And an orderly shutdown leaves nothing behind, although the sessions it closes commit
\* after the service loop has ended.  (federation_worker_stop after
\* lws_context_destroy; the worker's last flush.)
THEOREM NothingLeftBehind ==
    ASSUME RoomForAll
    PROVE  Spec => []NothingOwedAtExit
  <1>1. Init => AccInv /\ ExitInv
    BY ModeAssumption DEF Init, AccInv, ExitInv, Down, Ordered, Carried
  <1>2. TypeInv /\ AccInv /\ ExitInv /\ [Next]_vars => AccInv' /\ ExitInv'
    BY AccStep, ExitStep
  <1>3. TypeInv /\ AccInv /\ ExitInv => NothingOwedAtExit
    <2> SUFFICES ASSUME TypeInv, AccInv, ExitInv, phase = "exited" PROVE sent = issued
      BY DEF NothingOwedAtExit
    <2>1. pc = "off" /\ (mode # "worker" \/ stage = "final")
      BY DEF ExitInv
    <2>2. commits = <<>> /\ commitBatch = <<>>
      BY <2>1 DEF AccInv, ExitInv
    <2>3. \A n \in Names : sent[n] = issued[n]
      BY <2>2 DEF AccInv, Carried
    <2> QED BY <2>3 DEF TypeInv, TypeOK
  <1> QED BY <1>1, <1>2, <1>3, TypeCorrect, PTL DEF Spec

-----------------------------------------------------------------------------
(* A waiting login and its load, where no two live sessions share a name.   *)

\* A full queue that changes, and is not taken whole, forgets its oldest entry.
Forgets(q, cap) == Len(q) >= cap /\ q' \notin {q, <<>>}

NoLoadForgotten == [][~Forgets(loads, LoadCap) /\ ~Forgets(results, LoadCap)]_vars

\* Something is still to come for the name n.
WillHear(n, asked, held, found, taken) ==
    \/ n \in Queued(asked) \cup Queued(held)
    \/ n \in NamesIn(found) \cup NamesIn(taken)

Owed(n) == WillHear(n, loads, loadBatch, results, inbox)
OwedNext(n) == WillHear(n, loads', loadBatch', results', inbox')

\* Whoever waits is in the list of sessions, where Admit looks, and is owed a result;
\* and the worker never takes new loads while it still holds some.
WaitInv ==
    /\ \A s \in Sessions : state[s] = "hub" => s \in Queued(roster) /\ Owed(who[s])
    /\ pc # "loading" => loadBatch = <<>>

\* What an entry put at the end of a queue, or at the head of a list, adds to it.
LEMMA QueuedAppend ==
    ASSUME NEW S, NEW q \in Seq(S), NEW e \in S
    PROVE  Queued(Append(q, e)) = Queued(q) \cup {e}
  <1> DEFINE r == Append(q, e)
  <1>1. /\ DOMAIN r = 1 .. Len(q) + 1 /\ DOMAIN q = 1 .. Len(q) /\ r[Len(q) + 1] = e
        /\ \A i \in 1 .. Len(q) : r[i] = q[i]
    OBVIOUS
  <1> HIDE DEF r
  <1>2. ASSUME NEW x PROVE x \in Queued(r) <=> x \in Queued(q) \cup {e}
    BY <1>1 DEF Queued
  <1> QED BY <1>2 DEF r

LEMMA QueuedPrepend ==
    ASSUME NEW S, NEW q \in Seq(S), NEW e \in S
    PROVE  Queued(<<e>> \o q) = Queued(q) \cup {e}
  <1> DEFINE r == <<e>> \o q
  <1>1. /\ DOMAIN r = 1 .. Len(q) + 1 /\ DOMAIN q = 1 .. Len(q) /\ r[1] = e
        /\ \A i \in 1 .. Len(q) : r[i + 1] = q[i]
    OBVIOUS
  <1> HIDE DEF r
  <1>2. ASSUME NEW i \in DOMAIN r PROVE r[i] \in Queued(q) \cup {e}
    <2>1. i = 1 \/ (i - 1 \in 1 .. Len(q) /\ (i - 1) + 1 = i)
      BY <1>1
    <2> QED BY <1>1, <2>1 DEF Queued
  <1>3. ASSUME NEW i \in DOMAIN q PROVE q[i] \in Queued(r)
    <2>1. i + 1 \in DOMAIN r /\ r[i + 1] = q[i]
      BY <1>1
    <2> QED BY <2>1 DEF Queued
  <1>4. e \in Queued(r)
    <2>1. 1 \in DOMAIN r
      BY <1>1
    <2> QED BY <1>1, <2>1 DEF Queued
  <1> QED BY <1>2, <1>3, <1>4 DEF Queued, r

\* A load asked for is in the queue, and one that was there stays, unless the queue
\* forgets its oldest.
LEMMA QueueLoadKeeps ==
    ASSUME NEW q \in Seq(Names), NEW n \in Names,
           n \in Queued(q) \/ Len(q) < LoadCap
    PROVE  n \in Queued(QueueLoad(q, n)) /\ Queued(q) \subseteq Queued(QueueLoad(q, n))
  <1>1. CASE n \in Queued(q)
    BY <1>1 DEF QueueLoad
  <1>2. CASE n \notin Queued(q)
    <2>1. QueueLoad(q, n) = Append(q, n)
      BY <1>2, CapAssumption DEF QueueLoad, MakeRoom
    <2> QED BY <2>1, QueuedAppend
  <1> QED BY <1>1, <1>2

LEMMA QueueLoadForgets ==
    ASSUME TypeOK, NEW n \in Names, loads' = QueueLoad(loads, n), ~Forgets(loads, LoadCap)
    PROVE  n \in Queued(loads) \/ Len(loads) < LoadCap
  <1> SUFFICES ASSUME n \notin Queued(loads), Len(loads) >= LoadCap PROVE FALSE
    BY CapAssumption DEF TypeOK
  <1>0. loads \in Seq(Names) /\ loads # <<>>
    BY CapAssumption DEF TypeOK
  <1> DEFINE t == Tail(loads)
  <1>1. t \in Seq(Names) /\ loads' = Append(t, n)
    BY <1>0 DEF QueueLoad, MakeRoom
  <1> HIDE DEF t
  <1>2. n \in Queued(loads')
    <2>1. n \in Queued(Append(t, n))
      BY <1>1, QueuedAppend
    <2> QED BY <1>1, <2>1
  <1>3. loads' # <<>>
    BY <1>1
  <1>4. loads' # loads
    BY <1>2
  <1> QED BY <1>3, <1>4 DEF Forgets

\* The result of a load is there to be drained, and so are those before it.
LEMMA ResultKept ==
    ASSUME TypeOK, NEW r \in Result, results' = Append(MakeRoom(results, LoadCap), r),
           ~Forgets(results, LoadCap)
    PROVE  r.name \in NamesIn(results') /\ NamesIn(results) \subseteq NamesIn(results')
  <1>1. MakeRoom(results, LoadCap) \in Seq(Result)
    BY MakeRoomLemma, CapAssumption DEF TypeOK
  <1>2. Queued(results') = Queued(MakeRoom(results, LoadCap)) \cup {r}
    BY <1>1, QueuedAppend
  <1>3. CASE Len(results) < LoadCap
    <2>1. MakeRoom(results, LoadCap) = results
      BY <1>3, CapAssumption DEF MakeRoom, TypeOK
    <2> QED BY <1>2, <2>1 DEF NamesIn
  <1>4. CASE Len(results) >= LoadCap
    <2>1. results' # <<>>
      BY <1>1
    <2>2. results' = results
      BY <1>4, <2>1 DEF Forgets
    <2> QED BY <1>2, <2>2 DEF NamesIn
  <1> QED BY <1>3, <1>4, CapAssumption DEF TypeOK

\* session_unregister takes one session off the list and no other.
LEMMA UnlinkKeeps ==
    ASSUME NEW q \in Seq(Sessions), NEW s \in Sessions, NEW t \in Queued(q), t # s
    PROVE  t \in Queued(Unlink(q, s))
  <1>1. CASE s \notin Queued(q)
    BY <1>1 DEF Unlink
  <1>2. CASE s \in Queued(q)
    <2> DEFINE k == CHOOSE i \in DOMAIN q : q[i] = s
               r == SubSeq(q, 1, k - 1) \o SubSeq(q, k + 1, Len(q))
    <2>1. k \in 1 .. Len(q) /\ q[k] = s
      BY <1>2 DEF Queued
    <2>2. PICK j \in 1 .. Len(q) : q[j] = t
      BY DEF Queued
    <2>3. Unlink(q, s) = r
      BY <1>2 DEF Unlink
    <2> HIDE DEF k
    <2>4. j # k
      BY <2>1, <2>2
    <2>5. /\ DOMAIN r = 1 .. Len(q) - 1
          /\ \A i \in 1 .. k - 1 : r[i] = q[i]
          /\ \A i \in k .. Len(q) - 1 : r[i] = q[i + 1]
      <3> DEFINE u == SubSeq(q, 1, k - 1)
                 v == SubSeq(q, k + 1, Len(q))
      <3>1. u \in Seq(Sessions) /\ Len(u) = k - 1 /\ \A i \in 1 .. k - 1 : u[i] = q[i]
        <4>1. \A i \in 1 .. k - 1 : q[i] \in Sessions
          BY <2>1
        <4> QED BY <2>1, <4>1, SubSeqProperties
      <3>2. v \in Seq(Sessions) /\ Len(v) = Len(q) - k /\ \A i \in 1 .. Len(q) - k : v[i] = q[k + i]
        <4>1. \A i \in k + 1 .. Len(q) : q[i] \in Sessions
          BY <2>1
        <4> QED BY <2>1, <4>1, SubSeqProperties
      <3>3. r = u \o v
        OBVIOUS
      <3> HIDE DEF u, v, r
      <3>4. DOMAIN r = 1 .. Len(q) - 1
        BY <2>1, <3>1, <3>2, <3>3
      <3>5. ASSUME NEW i \in 1 .. k - 1 PROVE r[i] = q[i]
        BY <2>1, <3>1, <3>2, <3>3, <3>5
      <3>6. ASSUME NEW i \in k .. Len(q) - 1 PROVE r[i] = q[i + 1]
        <4>1. r[i] = v[i - (k - 1)]
          BY <2>1, <3>1, <3>2, <3>3, <3>6
        <4>2. i - (k - 1) \in 1 .. Len(q) - k /\ k + (i - (k - 1)) = i + 1
          BY <2>1, <3>6
        <4> QED BY <3>2, <4>1, <4>2
      <3> QED BY <3>4, <3>5, <3>6
    <2> HIDE DEF r
    <2>6. CASE j < k
      <3>1. j \in DOMAIN r /\ r[j] = t
        BY <2>1, <2>2, <2>5, <2>6
      <3> QED BY <2>3, <3>1 DEF Queued
    <2>7. CASE j > k
      <3>1. j - 1 \in DOMAIN r /\ r[j - 1] = q[(j - 1) + 1]
        BY <2>1, <2>2, <2>5, <2>7
      <3>2. r[j - 1] = t
        BY <2>2, <3>1
      <3> QED BY <2>3, <3>1, <3>2 DEF Queued
    <2> QED BY <2>1, <2>2, <2>4, <2>6, <2>7
  <1> QED BY <1>1, <1>2

\* A login that goes on waits, asked for, or plays at once.
LEMMA FinishOwes ==
    ASSUME TypeOK, NEW s \in Sessions, NEW n \in Names, NEW c, FinishLogin(s, n, c),
           ~Forgets(loads, LoadCap)
    PROVE  /\ Queued(loads) \subseteq Queued(loads')
           /\ state'[s] = "hub" => n \in Queued(loads')
           /\ \A t \in Sessions : t # s => state'[t] = state[t]
           /\ pc' = pc \/ (pc = "sleep" /\ pc' = "test")
  <1>1. CASE mode = "worker"
    <2>1. /\ loads' = QueueLoad(loads, n) /\ state' = [state EXCEPT ![s] = "hub"]
          /\ pc' = pc \/ (pc = "sleep" /\ pc' = "test")
      BY <1>1 DEF FinishLogin, Signal
    <2>2. n \in Queued(loads') /\ Queued(loads) \subseteq Queued(loads')
      BY <2>1, QueueLoadForgets, QueueLoadKeeps DEF TypeOK
    <2> QED BY <2>1, <2>2 DEF TypeOK
  <1>2. CASE mode # "worker"
    <2>1. loads' = loads /\ pc' = pc /\ state' = [state EXCEPT ![s] = "playing"]
      BY <1>2 DEF FinishLogin
    <2> QED BY <2>1 DEF TypeOK
  <1> QED BY <1>1, <1>2

LEMMA WaitStep ==
    ASSUME SharedNames = FALSE, TypeInv, BrandInv, WaitInv, [Next]_vars,
           ~Forgets(loads, LoadCap), ~Forgets(results, LoadCap)
    PROVE  WaitInv'
  <1>1. TypeOK
    BY DEF TypeInv
  \* Nobody begins to wait, and nothing owed is lost.
  <1>2. ASSUME \A s \in Sessions : state'[s] = "hub" => state[s] = "hub" /\ who'[s] = who[s],
               roster' = roster, \A n \in Names : Owed(n) => OwedNext(n),
               pc' # "loading" => loadBatch' = <<>>
        PROVE  WaitInv'
    <2>1. ASSUME NEW s \in Sessions, state'[s] = "hub"
          PROVE  s \in Queued(roster') /\ OwedNext(who'[s])
      <3>1. state[s] = "hub" /\ who'[s] = who[s] /\ who[s] \in Names
        BY <1>1, <1>2, <2>1 DEF TypeOK
      <3>2. s \in Queued(roster) /\ Owed(who[s])
        BY <3>1 DEF WaitInv
      <3>3. OwedNext(who[s])
        BY <1>2, <3>1, <3>2
      <3> QED BY <1>2, <3>1, <3>2, <3>3 DEF WillHear, Owed, OwedNext
    <2> QED BY <1>2, <2>1 DEF Owed, OwedNext, WaitInv
  \* One session goes on with its login; the others are owed what they were.
  <1>3. ASSUME NEW s \in Sessions, NEW n \in Names, NEW c, FinishLogin(s, n, c), Register(s),
               who'[s] = n, \A t \in Sessions : t # s => who'[t] = who[t],
               UNCHANGED <<loadBatch, results, inbox>>
        PROVE  WaitInv'
    <2>1. /\ Queued(loads) \subseteq Queued(loads')
          /\ state'[s] = "hub" => n \in Queued(loads')
          /\ \A t \in Sessions : t # s => state'[t] = state[t]
          /\ pc' = pc \/ (pc = "sleep" /\ pc' = "test")
      BY <1>1, <1>3, FinishOwes
    <2>2. s \in Queued(roster') /\ Queued(roster) \subseteq Queued(roster')
      BY <1>1, <1>3, QueuedPrepend DEF Register, TypeOK
    <2>3. ASSUME NEW t \in Sessions, state'[t] = "hub"
          PROVE  t \in Queued(roster') /\ OwedNext(who'[t])
      <3>1. CASE t = s
        BY <1>3, <2>1, <2>2, <2>3, <3>1 DEF WillHear, Owed, OwedNext
      <3>2. CASE t # s
        <4>1. state[t] = "hub" /\ who'[t] = who[t]
          BY <1>3, <2>1, <2>3, <3>2
        <4>2. t \in Queued(roster) /\ Owed(who[t])
          BY <4>1 DEF WaitInv
        <4> QED BY <1>3, <2>1, <2>2, <4>1, <4>2 DEF WillHear, Owed, OwedNext
      <3> QED BY <3>1, <3>2
    <2>4. pc' # "loading" => loadBatch' = <<>>
      BY <1>3, <2>1 DEF WaitInv
    <2> QED BY <2>3, <2>4 DEF Owed, OwedNext, WaitInv
  <1>4. ASSUME NEW s \in Sessions, SessionStep(s)
        PROVE  WaitInv'
    <2>0. ASSUME NEW n, NEW c, CommitHub(n, c)
          PROVE  pc' = pc \/ (pc = "sleep" /\ pc' = "test")
      BY <2>0 DEF CommitHub, Signal
    <2>1. CASE Connect(s)
      <3>1. /\ state' = [state EXCEPT ![s] = "name"]
            /\ UNCHANGED <<who, roster, inbox, pc, loads, loadBatch, results>>
        BY <2>1 DEF Connect, workerVars
      <3> QED BY <1>1, <1>2, <3>1 DEF WillHear, Owed, OwedNext, WaitInv, TypeOK
    <2>2. CASE Earn(s)
      BY <1>2, <2>2 DEF Earn, workerVars, WillHear, Owed, OwedNext, WaitInv
    <2>3. CASE Pledge(s) \/ Travel(s)
      <3>1. /\ UNCHANGED <<state, who, roster, inbox, loads, loadBatch, results>>
            /\ pc' = pc \/ (pc = "sleep" /\ pc' = "test")
        BY <2>0, <2>3 DEF Pledge, Travel, loopVars
      <3> QED BY <1>2, <3>1 DEF WillHear, Owed, OwedNext, WaitInv
    <2>4. CASE HandleRace(s)
      <3>1. /\ FinishLogin(s, who[s], char[s]) /\ Register(s) /\ who' = who
            /\ who[s] \in Names /\ UNCHANGED <<loadBatch, results, inbox>>
        BY <1>1, <2>4 DEF HandleRace, TypeOK
      <3> QED BY <1>3, <3>1
    <2>5. ASSUME NEW n \in Names, HandleName(s, n)
          PROVE  WaitInv'
      <3>1. who'[s] = n /\ \A t \in Sessions : t # s => who'[t] = who[t]
        BY <1>1, <2>5 DEF HandleName, TypeOK
      <3>2. CASE FinishLogin(s, n, store[n]) /\ Register(s)
        BY <1>3, <2>5, <3>1, <3>2 DEF HandleName
      <3>3. CASE state' = [state EXCEPT ![s] = "race"] /\ UNCHANGED <<roster, loads, pc>>
        <4>1. \A t \in Sessions : state'[t] = "hub" => state[t] = "hub" /\ who'[t] = who[t]
          BY <1>1, <3>1, <3>3 DEF TypeOK
        <4> QED BY <1>2, <2>5, <3>3, <4>1 DEF HandleName, WillHear, Owed, OwedNext, WaitInv
      <3> QED BY <2>5, <3>2, <3>3 DEF HandleName
    <2>6. CASE Close(s)
      <3>1. /\ state' = [state EXCEPT ![s] = "gone"] /\ who' = [who EXCEPT ![s] = NoName]
            /\ roster' = Unlink(roster, s) /\ UNCHANGED <<inbox, loads, loadBatch, results>>
            /\ pc' = pc \/ (pc = "sleep" /\ pc' = "test")
        BY <2>0, <2>6 DEF Close
      <3>2. ASSUME NEW t \in Sessions, state'[t] = "hub"
            PROVE  t \in Queued(roster') /\ OwedNext(who'[t])
        <4>1. t # s /\ state[t] = "hub" /\ who'[t] = who[t]
          BY <1>1, <3>1, <3>2 DEF TypeOK
        <4>2. t \in Queued(roster) /\ Owed(who[t])
          BY <4>1 DEF WaitInv
        <4>3. t \in Queued(roster')
          BY <1>1, <3>1, <4>1, <4>2, UnlinkKeeps DEF TypeOK
        <4> QED BY <3>1, <4>1, <4>2, <4>3 DEF WillHear, Owed, OwedNext
      <3>3. pc' # "loading" => loadBatch' = <<>>
        BY <3>1 DEF WaitInv
      <3> QED BY <3>2, <3>3 DEF Owed, OwedNext, WaitInv
    <2> QED BY <1>4, <2>1, <2>2, <2>3, <2>4, <2>5, <2>6 DEF SessionStep
  <1>5. CASE Drain
    <2>1. inbox = <<>> /\ inbox' = results /\ UNCHANGED <<state, who, roster, pc, loads, loadBatch>>
      BY <1>5 DEF Drain, Serving, loopVars
    <2>2. NamesIn(inbox) = {}
      BY <2>1 DEF NamesIn, Queued
    <2> QED BY <1>2, <2>1, <2>2 DEF WillHear, Owed, OwedNext, WaitInv
  <1>6. CASE Admit
    <2> DEFINE r == Head(inbox)
    <2>1. /\ inbox \in Seq(Result) /\ inbox # <<>> /\ inbox' = Tail(inbox)
          /\ UNCHANGED <<who, roster, pc, loads, loadBatch, results>>
      BY <1>1, <1>6 DEF Admit, TypeOK, workerVars
    <2>2. \A n \in NamesIn(inbox) : n = r.name \/ n \in NamesIn(inbox')
      <3>1. /\ DOMAIN inbox = 1 .. Len(inbox) /\ r = inbox[1]
            /\ \A i \in DOMAIN inbox : i # 1 => i - 1 \in DOMAIN inbox' /\ inbox'[i - 1] = inbox[i]
        BY <2>1
      <3> HIDE DEF r
      <3> QED BY <3>1 DEF NamesIn, Queued
    <2>3. ASSUME NEW s \in Sessions, state'[s] = "hub"
          PROVE  state[s] = "hub" /\ who[s] # r.name
      <3>1. state[s] = "hub"
        <4>1. CASE UNCHANGED <<char, state>>
          BY <2>3, <4>1
        <4>2. ASSUME NEW i \in Waiting(r.name), state' = [state EXCEPT ![roster[i]] = "playing"]
              PROVE  state[s] = "hub"
          BY <1>1, <2>3, <4>2 DEF TypeOK
        <4> QED BY <1>6, <4>1, <4>2 DEF Admit
      <3>2. SUFFICES ASSUME who[s] = r.name PROVE FALSE
        BY <3>1
      <3>3. PICK j \in DOMAIN roster : roster[j] = s
        BY <3>1 DEF WaitInv, Queued
      <3>4. j \in Waiting(r.name)
        BY <3>1, <3>2, <3>3 DEF Waiting
      <3>5. PICK i \in Waiting(r.name) : state' = [state EXCEPT ![roster[i]] = "playing"]
        BY <1>6, <3>4 DEF Admit
      <3>6. roster[i] \in Sessions /\ who[roster[i]] = r.name
        BY <1>1 DEF Waiting, TypeOK
      <3>7. who[s] \in Names
        BY <1>1, <3>1 DEF TypeOK
      <3>8. roster[i] = s
        BY <3>2, <3>6, <3>7 DEF BrandInv, OneEach
      <3> QED BY <1>1, <2>3, <3>5, <3>8 DEF TypeOK
    <2>4. ASSUME NEW s \in Sessions, state'[s] = "hub"
          PROVE  s \in Queued(roster') /\ OwedNext(who'[s])
      <3>1. state[s] = "hub" /\ who[s] # r.name
        BY <2>3, <2>4
      <3>2. s \in Queued(roster) /\ Owed(who[s])
        BY <3>1 DEF WaitInv
      <3> HIDE DEF r
      <3> QED BY <2>1, <2>2, <3>1, <3>2 DEF WillHear, Owed, OwedNext
    <2>5. pc' # "loading" => loadBatch' = <<>>
      BY <2>1 DEF WaitInv
    <2> QED BY <2>4, <2>5 DEF Owed, OwedNext, WaitInv
  <1>7. CASE TakeLoads \/ Polled
    <2>1. /\ loadBatch = <<>> /\ loadBatch' = loads /\ pc' = "loading"
          /\ UNCHANGED <<state, who, roster, inbox, results>>
      BY <1>7 DEF TakeLoads, Polled, WaitInv, workerRest, loopVars
    <2>2. Queued(loadBatch) = {}
      BY <2>1 DEF Queued
    <2> QED BY <1>2, <2>1, <2>2 DEF WillHear, Owed, OwedNext
  <1>8. CASE LoadOne
    <2>1. /\ loadBatch \in Seq(Names) /\ loadBatch # <<>> /\ loadBatch' = Tail(loadBatch)
          /\ UNCHANGED <<state, who, roster, inbox, loads, pc>> /\ pc = "loading"
      BY <1>1, <1>8 DEF LoadOne, TypeOK, workerRest, loopVars
    <2>2. Head(loadBatch) \in NamesIn(results') /\ NamesIn(results) \subseteq NamesIn(results')
      <3>1. PICK h \in {hub[Head(loadBatch)], NoSheet} :
                results' = Append(MakeRoom(results, LoadCap),
                                  [name |-> Head(loadBatch), sheet |-> h])
        BY <1>8 DEF LoadOne
      <3>2. [name |-> Head(loadBatch), sheet |-> h] \in Result
        BY <1>1, <2>1 DEF Result, TypeOK
      <3> QED BY <1>1, <3>1, <3>2, ResultKept
    <2>3. \A n \in Queued(loadBatch) : n = Head(loadBatch) \/ n \in Queued(loadBatch')
      <3>1. /\ DOMAIN loadBatch = 1 .. Len(loadBatch) /\ Head(loadBatch) = loadBatch[1]
            /\ \A i \in DOMAIN loadBatch : i # 1 =>
                   i - 1 \in DOMAIN loadBatch' /\ loadBatch'[i - 1] = loadBatch[i]
        BY <2>1
      <3> QED BY <3>1 DEF Queued
    <2> QED BY <1>2, <2>1, <2>2, <2>3 DEF WillHear, Owed, OwedNext
  <1>9. CASE TakeCommits \/ CommitOne \/ Refresh \/ Rest \/ Timeout \/ Return
    BY <1>2, <1>9 DEF TakeCommits, CommitOne, Refresh, Rest, Timeout, Return, workerRest,
                      loopVars, WillHear, Owed, OwedNext, WaitInv
  <1>10. CASE Crash
    <2>1. /\ state' = [s \in Sessions |-> "gone"] /\ loadBatch' = <<>>
      BY <1>10 DEF Crash
    <2> QED BY <2>1 DEF WaitInv
  <1>11. CASE Boot
    <2>1. UNCHANGED <<state>> /\ Down /\ loadBatch' = <<>>
      BY <1>11 DEF Boot, loopVars, Down
    <2>2. \A s \in Sessions : state'[s] = "gone"
      BY <2>1 DEF BrandInv
    <2> QED BY <2>1, <2>2 DEF WaitInv
  <1>12. CASE \/ Stop \/ BeginJoin \/ Exit \/ UNCHANGED vars
              \/ \E n \in Names : Elsewhere(n)
    <2>1. /\ UNCHANGED <<state, who, roster, inbox, loads, loadBatch, results>>
          /\ pc' = pc \/ (pc = "sleep" /\ pc' = "test")
      BY <1>12 DEF Stop, BeginJoin, Exit, Elsewhere, Signal, vars, workerVars, loopVars
    <2> QED BY <1>2, <2>1 DEF WillHear, Owed, OwedNext, WaitInv
  <1> QED BY <1>4, <1>5, <1>6, <1>7, <1>8, <1>9, <1>10, <1>11, <1>12 DEF Next, Worker, Stopped

\* Where no two live sessions share a name, a waiting login is never forgotten, for any
\* number of sessions and names, unless one of the two bounded queues of loads forgets
\* its oldest entry.  (queue_char_load, flush_pending_loads, drain_char_load_results.)
THEOREM LoginsAreOwed ==
    ASSUME SharedNames = FALSE
    PROVE  Spec /\ NoLoadForgotten => []LoadAccounted
  <1>1. Init => BrandInv /\ WaitInv
    <2> SUFFICES ASSUME Init PROVE BrandInv /\ WaitInv
      OBVIOUS
    <2>1. (\A s \in Sessions : state[s] = "gone" /\ who[s] = NoName) /\ loadBatch = <<>>
      BY DEF Init
    <2> QED BY <2>1, NoNameAssumption DEF BrandInv, OneEach, SeatOK, WaitInv
  <1>2. TypeInv /\ TypeInv' /\ BrandInv /\ WaitInv /\ [Next]_vars
            /\ [~Forgets(loads, LoadCap) /\ ~Forgets(results, LoadCap)]_vars
        => BrandInv' /\ WaitInv'
    <2> SUFFICES ASSUME TypeInv, TypeInv', BrandInv, WaitInv, [Next]_vars,
                        [~Forgets(loads, LoadCap) /\ ~Forgets(results, LoadCap)]_vars
                 PROVE  BrandInv' /\ WaitInv'
      OBVIOUS
    <2>1. ~Forgets(loads, LoadCap) /\ ~Forgets(results, LoadCap)
      BY DEF Forgets, vars, workerVars
    <2> QED BY <2>1, BrandStep, WaitStep
  <1>3. WaitInv => LoadAccounted
    BY DEF WaitInv, WillHear, Owed, LoadAccounted
  <1> QED BY <1>1, <1>2, <1>3, TypeCorrect, PTL DEF Spec, NoLoadForgotten

\* Those who may still ask for a load: connected, and not yet named or not yet of a race.
Coming == {s \in Sessions : state[s] \in {"name", "race"}}

\* A login asks for one load and a load finds one result: with those that may still ask,
\* there are never more than logins.
CountInv ==
    /\ IsFiniteSet(Coming)
    /\ Len(loads) + Len(loadBatch) + Len(results) + Cardinality(Coming) <= logins
    /\ logins <= MaxLogins

\* The lengths of the three queues, as CountInv counts them.
Loading == Len(loads) + Len(loadBatch) + Len(results)
LoadingNext == Len(loads') + Len(loadBatch') + Len(results')

LEMMA LoadingType ==
    ASSUME TypeOK
    PROVE  /\ Len(loads) \in Nat /\ Len(loadBatch) \in Nat /\ Len(results) \in Nat
           /\ logins \in Nat /\ LoadCap \in Nat \ {0} /\ MaxLogins \in Nat
  BY CapAssumption, BoundAssumption DEF TypeOK

LEMMA QueueLoadLength ==
    ASSUME NEW q \in Seq(Names), NEW n \in Names
    PROVE  Len(QueueLoad(q, n)) <= Len(q) + 1
  <1>1. MakeRoom(q, LoadCap) \in Seq(Names) /\ Len(MakeRoom(q, LoadCap)) <= Len(q)
    BY CapAssumption DEF MakeRoom
  <1> QED BY <1>1 DEF QueueLoad

\* What one session's move makes of those that may still ask.
LEMMA ComingMoves ==
    ASSUME IsFiniteSet(Coming), NEW s \in Sessions,
           \A t \in Sessions : t # s => state'[t] = state[t]
    PROVE  /\ IsFiniteSet(Coming') /\ Cardinality(Coming) \in Nat /\ Cardinality(Coming') \in Nat
           /\ s \in Coming => Cardinality(Coming) >= 1 /\ Cardinality(Coming') <= Cardinality(Coming)
           /\ s \in Coming /\ state'[s] \notin {"name", "race"} =>
                  Cardinality(Coming') = Cardinality(Coming) - 1
           /\ s \notin Coming => Cardinality(Coming') <= Cardinality(Coming) + 1
           /\ s \notin Coming /\ state'[s] \notin {"name", "race"} =>
                  Cardinality(Coming') = Cardinality(Coming)
  <1>1. Coming' = IF state'[s] \in {"name", "race"} THEN Coming \cup {s} ELSE Coming \ {s}
    BY DEF Coming
  <1>2. /\ IsFiniteSet(Coming \cup {s}) /\ Cardinality(Coming) \in Nat
        /\ Cardinality(Coming \cup {s}) = IF s \in Coming THEN Cardinality(Coming)
                                          ELSE Cardinality(Coming) + 1
    BY FS_AddElement, FS_CardinalityType
  <1>3. /\ IsFiniteSet(Coming \ {s})
        /\ Cardinality(Coming \ {s}) = IF s \in Coming THEN Cardinality(Coming) - 1
                                       ELSE Cardinality(Coming)
    BY FS_RemoveElement
  <1>4. s \in Coming => Cardinality(Coming) >= 1
    BY <1>2, FS_EmptySet
  <1>5. IsFiniteSet(Coming')
    BY <1>1, <1>2, <1>3
  <1>6. Cardinality(Coming') = IF state'[s] \in {"name", "race"} THEN Cardinality(Coming \cup {s})
                               ELSE Cardinality(Coming \ {s})
    BY <1>1
  <1>7. Cardinality(Coming') \in Nat
    BY <1>5, FS_CardinalityType
  <1> QED BY <1>2, <1>3, <1>4, <1>5, <1>6, <1>7

\* A login's load takes its place among those that may still ask.
LEMMA FinishCounted ==
    ASSUME TypeOK, CountInv, NEW s \in Coming, NEW n \in Names, NEW c, FinishLogin(s, n, c),
           UNCHANGED <<loadBatch, results, logins>>
    PROVE  CountInv' /\ Len(loads) < MaxLogins
  <1>1. s \in Sessions /\ Len(loads') <= Len(loads) + 1 /\ Len(loads') \in Nat
    <2>1. Len(QueueLoad(loads, n)) <= Len(loads) + 1 /\ QueueLoad(loads, n) \in Seq(Names)
      BY QueueLoadLength, QueueLoadType DEF TypeOK
    <2>2. loads' = QueueLoad(loads, n) \/ loads' = loads
      BY DEF FinishLogin
    <2> QED BY <2>1, <2>2, LoadingType DEF Coming
  <1>2. /\ state'[s] \notin {"name", "race"} /\ \A t \in Sessions : t # s => state'[t] = state[t]
    BY <1>1 DEF FinishLogin, TypeOK
  <1>3. /\ IsFiniteSet(Coming') /\ Cardinality(Coming) \in Nat /\ Cardinality(Coming) >= 1
        /\ Cardinality(Coming') = Cardinality(Coming) - 1
    BY <1>1, <1>2, ComingMoves DEF CountInv
  <1> QED BY <1>1, <1>3, LoadingType DEF CountInv

LEMMA CountStep ==
    ASSUME TypeInv, TypeInv', CountInv, [Next]_vars
    PROVE  /\ CountInv'
           /\ loads' \in {loads, <<>>} \/ Len(loads) < MaxLogins
           /\ results' \in {results, <<>>} \/ Len(results) < MaxLogins
  <1>0. TypeOK /\ TypeOK'
    BY DEF TypeInv
  <1>1. /\ Len(loads) \in Nat /\ Len(loadBatch) \in Nat /\ Len(results) \in Nat
        /\ Len(loads') \in Nat /\ Len(loadBatch') \in Nat /\ Len(results') \in Nat
        /\ logins \in Nat /\ MaxLogins \in Nat /\ Cardinality(Coming) \in Nat
    <2>1. /\ loads' \in Seq(Names) /\ loadBatch' \in Seq(Names) /\ results' \in Seq(Result)
      BY <1>0, Zenon DEF TypeOK
    <2>2. Len(loads') \in Nat /\ Len(loadBatch') \in Nat /\ Len(results') \in Nat
      BY <2>1
    <2>3. Cardinality(Coming) \in Nat
      BY FS_CardinalityType DEF CountInv
    <2> QED BY <1>0, <2>2, <2>3, LoadingType
  \* Nobody comes, and no more loads are on their way.
  <1>2. ASSUME Coming' \subseteq Coming, LoadingNext <= Loading, logins' = logins
        PROVE  CountInv'
    <2>1. /\ IsFiniteSet(Coming') /\ Cardinality(Coming') <= Cardinality(Coming)
          /\ Cardinality(Coming') \in Nat
      BY <1>2, FS_Subset, FS_CardinalityType DEF CountInv
    <2> QED BY <1>1, <1>2, <2>1 DEF CountInv, Loading, LoadingNext
  <1>3. ASSUME state' = state, UNCHANGED <<loads, loadBatch, results, logins>>
        PROVE  CountInv'
    BY <1>1, <1>2, <1>3 DEF Coming, Loading, LoadingNext
  <1>4. ASSUME NEW s \in Sessions, SessionStep(s)
        PROVE  /\ CountInv' /\ results' = results
               /\ loads' = loads \/ Len(loads) < MaxLogins
    <2>1. CASE Connect(s)
      <3>1. /\ s \notin Coming /\ \A t \in Sessions : t # s => state'[t] = state[t]
            /\ logins < MaxLogins /\ logins' = logins + 1
            /\ UNCHANGED <<loads, loadBatch, results>>
        BY <1>0, <2>1 DEF Connect, Coming, TypeOK, workerVars
      <3>2. /\ IsFiniteSet(Coming') /\ Cardinality(Coming') \in Nat
            /\ Cardinality(Coming') <= Cardinality(Coming) + 1
        BY <3>1, ComingMoves DEF CountInv
      <3> QED BY <1>1, <3>1, <3>2 DEF CountInv
    <2>2. CASE Earn(s) \/ Pledge(s) \/ Travel(s)
      <3>1. UNCHANGED <<state, loads, loadBatch, results, logins>>
        BY <2>2 DEF Earn, Pledge, Travel, loopVars, workerVars
      <3> QED BY <1>3, <3>1
    <2>3. CASE HandleRace(s)
      <3>1. /\ s \in Coming /\ who[s] \in Names /\ FinishLogin(s, who[s], char[s])
            /\ UNCHANGED <<loadBatch, results, logins>>
        BY <1>0, <2>3 DEF HandleRace, Coming, TypeOK, bounds
      <3> QED BY <1>0, <3>1, FinishCounted
    <2>4. ASSUME NEW n \in Names, HandleName(s, n)
          PROVE  CountInv' /\ results' = results /\ (loads' = loads \/ Len(loads) < MaxLogins)
      <3>1. s \in Coming /\ UNCHANGED <<loadBatch, results, logins>>
        BY <2>4 DEF HandleName, Coming, bounds
      <3>2. CASE FinishLogin(s, n, store[n])
        BY <1>0, <3>1, <3>2, FinishCounted
      <3>3. CASE state' = [state EXCEPT ![s] = "race"] /\ loads' = loads
        <4>1. Coming' \subseteq Coming
          BY <1>0, <3>1, <3>3 DEF Coming, TypeOK
        <4> QED BY <1>1, <1>2, <3>1, <3>3, <4>1 DEF Loading, LoadingNext
      <3> QED BY <2>4, <3>2, <3>3 DEF HandleName
    <2>5. CASE Close(s)
      <3>1. /\ state' = [state EXCEPT ![s] = "gone"]
            /\ UNCHANGED <<loads, loadBatch, results, logins>>
        BY <2>5 DEF Close, bounds
      <3>2. Coming' \subseteq Coming
        BY <1>0, <3>1 DEF Coming, TypeOK
      <3> QED BY <1>1, <1>2, <3>1, <3>2 DEF Loading, LoadingNext
    <2> QED BY <1>4, <2>1, <2>2, <2>3, <2>4, <2>5 DEF SessionStep
  <1>5. CASE Drain
    <2>1. Coming' = Coming /\ UNCHANGED <<loads, loadBatch, logins>> /\ results' = <<>>
      BY <1>5 DEF Drain, Coming, loopVars, bounds
    <2> QED BY <1>1, <1>2, <2>1 DEF Loading, LoadingNext
  <1>6. CASE Admit
    <2>1. UNCHANGED <<loads, loadBatch, results, logins>>
      BY <1>6 DEF Admit, workerVars, bounds
    <2>2. Coming' \subseteq Coming
      BY <1>0, <1>6 DEF Admit, Coming, TypeOK
    <2> QED BY <1>1, <1>2, <2>1, <2>2 DEF Loading, LoadingNext
  <1>7. CASE TakeLoads \/ Polled
    <2>1. /\ Coming' = Coming /\ loadBatch' = loads /\ loads' = <<>>
          /\ UNCHANGED <<results, logins>>
      BY <1>7 DEF TakeLoads, Polled, Coming, workerRest, loopVars, bounds
    <2> QED BY <1>1, <1>2, <2>1 DEF Loading, LoadingNext
  <1>8. CASE LoadOne
    <2>1. /\ Coming' = Coming /\ UNCHANGED <<loads, logins>>
          /\ loadBatch # <<>> /\ loadBatch' = Tail(loadBatch)
      BY <1>8 DEF LoadOne, Coming, workerRest, loopVars, bounds
    <2>2. Len(loadBatch') = Len(loadBatch) - 1 /\ Len(loadBatch) >= 1
      <3>1. loadBatch \in Seq(Names)
        BY <1>0, Zenon DEF TypeOK
      <3> QED BY <2>1, <3>1
    <2>3. Len(results') <= Len(results) + 1
      <3>1. PICK r : results' = Append(MakeRoom(results, LoadCap), r)
        BY <1>8 DEF LoadOne
      <3>2. MakeRoom(results, LoadCap) \in Seq(Result) /\ Len(MakeRoom(results, LoadCap)) <= Len(results)
        BY <1>0, CapAssumption DEF MakeRoom, TypeOK
      <3>3. Len(results') = Len(MakeRoom(results, LoadCap)) + 1
        BY <3>1, <3>2
      <3> QED BY <1>1, <3>2, <3>3
    <2>4. Len(results) < MaxLogins
      BY <1>1, <2>2 DEF CountInv
    <2> QED BY <1>1, <1>2, <2>1, <2>2, <2>3, <2>4 DEF Loading, LoadingNext
  <1>9. CASE TakeCommits \/ CommitOne \/ Refresh \/ Rest \/ Timeout \/ Return
    BY <1>3, <1>9 DEF TakeCommits, CommitOne, Refresh, Rest, Timeout, Return, workerRest,
                      loopVars, bounds
  <1>10. CASE Crash \/ Boot
    <2>1. /\ loads' = <<>> /\ loadBatch' = <<>> /\ results' = <<>> /\ logins' = logins
      BY <1>10 DEF Crash, Boot, bounds
    <2>2. Coming' \subseteq Coming
      BY <1>10 DEF Crash, Boot, Coming, loopVars
    <2> QED BY <1>1, <1>2, <2>1, <2>2 DEF Loading, LoadingNext
  <1>11. CASE \/ Stop \/ BeginJoin \/ Exit \/ UNCHANGED vars
              \/ \E n \in Names : Elsewhere(n)
    BY <1>3, <1>11 DEF Stop, BeginJoin, Exit, Elsewhere, vars, workerVars, loopVars, bounds
  <1> QED BY <1>4, <1>5, <1>6, <1>7, <1>8, <1>9, <1>10, <1>11 DEF Next, Worker, Stopped

\* In particular none is forgotten where the queues have room for every login.
THEOREM LoginsAreAccounted ==
    ASSUME SharedNames = FALSE, MaxLogins <= LoadCap
    PROVE  Spec => []LoadAccounted
  <1>1. Init => CountInv
    <2> SUFFICES ASSUME Init PROVE CountInv
      OBVIOUS
    <2>1. Coming = {} /\ Len(loads) = 0 /\ Len(loadBatch) = 0 /\ Len(results) = 0 /\ logins = 0
      BY DEF Init, Coming
    <2>2. IsFiniteSet(Coming) /\ Cardinality(Coming) = 0
      BY <2>1, FS_EmptySet
    <2> QED BY <2>1, <2>2, BoundAssumption DEF CountInv
  <1>2. TypeInv /\ TypeInv' /\ CountInv /\ [Next]_vars
        => CountInv' /\ [~Forgets(loads, LoadCap) /\ ~Forgets(results, LoadCap)]_vars
    <2> SUFFICES ASSUME TypeInv, TypeInv', CountInv, [Next]_vars
                 PROVE  CountInv' /\ ~Forgets(loads, LoadCap) /\ ~Forgets(results, LoadCap)
      OBVIOUS
    <2>1. /\ CountInv'
          /\ loads' \in {loads, <<>>} \/ Len(loads) < MaxLogins
          /\ results' \in {results, <<>>} \/ Len(results) < MaxLogins
      BY CountStep
    <2>2. Len(loads) \in Nat /\ Len(results) \in Nat /\ LoadCap \in Nat /\ MaxLogins \in Nat
      BY LoadingType DEF TypeInv
    <2> QED BY <2>1, <2>2 DEF Forgets
  <1> QED BY <1>1, <1>2, TypeCorrect, LoginsAreOwed, PTL DEF Spec, NoLoadForgotten

-----------------------------------------------------------------------------
(* The brand at the hub, where in addition every save succeeds.             *)

Sworn(sheet) == sheet # NoSheet /\ sheet.sworn

HubKept == \A n \in Names : Sworn(hub[n]) => Sworn(hub'[n])

\* A commit under way carries the brand if the hub has it, and its row does if it does.
Branded(e, h, rows) ==
    /\ e.sheet.sworn => Sworn(rows[e.name])
    /\ Sworn(h[e.name]) => e.sheet.sworn

\* What the hub and the commits under way know of the brand, in the order they go.
Following(q, b, h, rows) ==
    /\ \A n \in Names : Sworn(h[n]) => Sworn(rows[n])
    /\ \A i \in DOMAIN q : Branded(q[i], h, rows)
    /\ \A i \in DOMAIN b : Branded(b[i], h, rows)
    /\ \A i \in DOMAIN b, j \in DOMAIN q :
           b[i].name = q[j].name /\ b[i].sheet.sworn => q[j].sheet.sworn

HubInv ==
    /\ Following(commits, commitBatch, hub, store)
    /\ mode # "worker" => commits = <<>> /\ commitBatch = <<>>
    /\ pc # "committing" => commitBatch = <<>>

\* Rows that keep their brands leave everything that follows them as it was.
LEMMA RowsFollowed ==
    ASSUME NEW q \in Seq(Commit), NEW b \in Seq(Commit), NEW h, NEW rows, NEW rows2,
           Following(q, b, h, rows), \A n \in Names : Sworn(rows[n]) => Sworn(rows2[n])
    PROVE  Following(q, b, h, rows2)
  <1>1. ASSUME NEW e \in Commit, Branded(e, h, rows) PROVE Branded(e, h, rows2)
    BY <1>1 DEF Branded, Commit
  <1>2. (\A i \in DOMAIN q : q[i] \in Commit) /\ (\A i \in DOMAIN b : b[i] \in Commit)
    OBVIOUS
  <1> QED BY <1>1, <1>2 DEF Following

\* A commit of what was just saved follows everything before it.
LEMMA PushFollows ==
    ASSUME NEW q \in Seq(Commit), NEW b \in Seq(Commit), Distinct(q), NEW h, NEW rows,
           Following(q, b, h, rows), NEW e \in Commit,
           e.sheet.sworn <=> Sworn(rows[e.name])
    PROVE  Following(QueueCommit(q, e), b, h, rows)
  <1> DEFINE r == QueueCommit(q, e)
  <1>1. \A i \in DOMAIN r : \/ r[i] = e
                            \/ r[i].name # e.name /\ \E j \in DOMAIN q : r[i] = q[j]
    BY QueueCommitLemma
  <1> HIDE DEF r
  <1>2. Branded(e, h, rows)
    BY DEF Following, Branded, Commit
  <1>3. \A i \in DOMAIN r : Branded(r[i], h, rows)
    BY <1>1, <1>2 DEF Following
  <1>4. ASSUME NEW i \in DOMAIN b, NEW j \in DOMAIN r, b[i].name = r[j].name, b[i].sheet.sworn
        PROVE  r[j].sheet.sworn
    <2>1. CASE r[j] = e
      <3>1. Sworn(rows[b[i].name])
        BY <1>4 DEF Following, Branded
      <3> QED BY <1>4, <2>1, <3>1
    <2>2. CASE \E k \in DOMAIN q : r[j] = q[k]
      BY <1>4, <2>2 DEF Following
    <2> QED BY <1>1, <2>1, <2>2
  <1>5. Following(r, b, h, rows)
    BY <1>3, <1>4 DEF Following
  <1> QED BY <1>5 DEF r

\* The commit that arrives, or is lost, leaves the hub followed by the rest.
LEMMA PopFollows ==
    ASSUME NEW q \in Seq(Commit), NEW b \in Seq(Commit), b # <<>>, Distinct(b),
           NEW h \in [Names -> Sheet \cup {NoSheet}], NEW rows, Following(q, b, h, rows),
           NEW h2, h2 = h \/ h2 = [h EXCEPT ![Head(b).name] = Head(b).sheet]
    PROVE  /\ Following(q, Tail(b), h2, rows)
           /\ \A n \in Names : Sworn(h[n]) => Sworn(h2[n])
  <1> DEFINE t == Tail(b)
             e == Head(b)
  <1>1. /\ e = b[1] /\ 1 \in DOMAIN b /\ e \in Commit
        /\ \A i \in DOMAIN t : i + 1 \in DOMAIN b /\ i + 1 # 1 /\ t[i] = b[i + 1]
        /\ (\A i \in DOMAIN q : q[i] \in Commit) /\ (\A i \in DOMAIN b : b[i] \in Commit)
    OBVIOUS
  <1> HIDE DEF t, e
  <1>2. e.name \in Names /\ e.sheet \in Sheet /\ e.sheet # NoSheet
    BY <1>1, NoSheetAssumption DEF Commit
  <1>3. Branded(e, h, rows)
    BY <1>1 DEF Following
  <1>4. \A n \in Names : h2[n] = h[n] \/ (n = e.name /\ h2[n] = e.sheet)
    BY <1>2 DEF e
  <1>5. \A n \in Names : (Sworn(h[n]) => Sworn(h2[n])) /\ (Sworn(h2[n]) => Sworn(rows[n]))
    <2> SUFFICES ASSUME NEW n \in Names
                 PROVE  (Sworn(h[n]) => Sworn(h2[n])) /\ (Sworn(h2[n]) => Sworn(rows[n]))
      OBVIOUS
    <2>1. CASE h2[n] = h[n]
      BY <2>1 DEF Following
    <2>2. CASE n = e.name /\ h2[n] = e.sheet
      BY <1>2, <1>3, <2>2 DEF Branded, Sworn
    <2> QED BY <1>4, <2>1, <2>2
  <1>6. ASSUME NEW f \in Commit, Branded(f, h, rows),
               f.name = e.name /\ e.sheet.sworn => f.sheet.sworn
        PROVE  Branded(f, h2, rows)
    <2>1. f.name \in Names
      BY DEF Commit
    <2>2. CASE h2[f.name] = h[f.name]
      BY <1>6, <2>2 DEF Branded
    <2>3. CASE f.name = e.name /\ h2[f.name] = e.sheet
      BY <1>6, <2>3 DEF Branded, Sworn
    <2> QED BY <1>4, <2>1, <2>2, <2>3
  <1>7. \A i \in DOMAIN q : Branded(q[i], h2, rows)
    <2> SUFFICES ASSUME NEW i \in DOMAIN q PROVE Branded(q[i], h2, rows)
      OBVIOUS
    <2>1. Branded(q[i], h, rows) /\ (q[i].name = e.name /\ e.sheet.sworn => q[i].sheet.sworn)
      BY <1>1 DEF Following
    <2>2. q[i] \in Commit
      BY <1>1
    <2> HIDE DEF Branded
    <2> QED BY <1>6, <2>1, <2>2
  <1>8. \A i \in DOMAIN t : Branded(t[i], h2, rows)
    <2> SUFFICES ASSUME NEW i \in DOMAIN t PROVE Branded(t[i], h2, rows)
      OBVIOUS
    <2>1. i + 1 \in DOMAIN b /\ t[i] = b[i + 1] /\ i + 1 # 1
      BY <1>1
    <2>2. Branded(t[i], h, rows) /\ t[i] \in Commit
      BY <1>1, <2>1 DEF Following
    <2>3. t[i].name # e.name
      BY <1>1, <2>1 DEF Distinct
    <2> QED BY <1>6, <2>2, <2>3
  <1>9. Following(q, t, h2, rows)
    BY <1>1, <1>5, <1>7, <1>8 DEF Following
  <1> QED BY <1>5, <1>9 DEF t

\* Save and commit together, as every verb that commits does.
LEMMA CommitFollows ==
    ASSUME TypeInv, HubInv, NEW n \in Names, NEW c \in Sheet, CommitHub(n, c),
           store' = [store EXCEPT ![n] = c], Sworn(store[n]) => c.sworn,
           UNCHANGED <<mode, commitBatch>>
    PROVE  HubInv' /\ HubKept
  <1>1. /\ commits \in Seq(Commit) /\ commitBatch \in Seq(Commit) /\ Distinct(commits)
        /\ hub \in [Names -> Sheet \cup {NoSheet}] /\ issued \in [Names -> Nat]
        /\ c # NoSheet
    BY NoSheetAssumption DEF TypeInv, TypeOK
  <1>2. store'[n] = c /\ \A m \in Names : m # n => store'[m] = store[m]
    BY DEF TypeInv, TypeOK
  <1>3. \A m \in Names : Sworn(store[m]) => Sworn(store'[m])
    BY <1>1, <1>2 DEF Sworn
  <1>4. Following(commits, commitBatch, hub, store')
    BY <1>1, <1>3, RowsFollowed DEF HubInv
  <1>0. pc' # "committing" => pc # "committing"
    BY DEF CommitHub, Signal
  <1>5. CASE mode = "worker"
    <2> DEFINE e == [name |-> n, sheet |-> c, stamp |-> issued[n] + 1]
    <2>1. e \in Commit /\ e.name = n /\ e.sheet = c
      BY <1>1 DEF Commit
    <2>2. commits' = QueueCommit(commits, e) /\ hub' = hub
      BY <1>5 DEF CommitHub
    <2> HIDE DEF e
    <2>3. e.sheet.sworn <=> Sworn(store'[e.name])
      BY <1>1, <1>2, <2>1 DEF Sworn
    <2>4. Following(QueueCommit(commits, e), commitBatch, hub, store')
      BY <1>1, <1>4, <2>1, <2>3, PushFollows
    <2> QED BY <1>0, <1>5, <2>2, <2>4 DEF HubInv, HubKept
  <1>6. CASE mode # "worker"
    <2>1. commits = <<>> /\ commitBatch = <<>> /\ commits' = commits
      BY <1>6 DEF HubInv, CommitHub
    <2>2. hub' = hub \/ hub' = [hub EXCEPT ![n] = c]
      BY <1>6 DEF CommitHub, HubStores, hubVars
    <2>3. \A m \in Names : Sworn(hub[m]) => Sworn(store[m])
      BY DEF HubInv, Following
    <2>4. \A m \in Names : hub'[m] = hub[m] \/ (m = n /\ hub'[m] = c)
      BY <1>1, <2>2
    <2>5. HubKept
      BY <1>1, <2>3, <2>4 DEF HubKept, Sworn
    <2>6. \A m \in Names : Sworn(hub'[m]) => Sworn(store'[m])
      BY <1>2, <1>3, <2>3, <2>4
    <2>7. Following(commits', commitBatch', hub', store')
      BY <2>1, <2>6 DEF Following
    <2> QED BY <1>0, <2>1, <2>5, <2>7 DEF HubInv
  <1> QED BY <1>5, <1>6

LEMMA HubStep ==
    ASSUME DiskFails = FALSE, TypeInv, BrandInv, HubInv, Kept, [Next]_vars
    PROVE  HubInv' /\ HubKept
  <1>1. /\ commits \in Seq(Commit) /\ commitBatch \in Seq(Commit) /\ Distinct(commitBatch)
        /\ hub \in [Names -> Sheet \cup {NoSheet}]
        /\ Following(commits, commitBatch, hub, store)
    BY DEF TypeInv, TypeOK, HubInv
  <1>2. \A n \in Names : Sworn(store[n]) => Sworn(store'[n])
    BY DEF Kept, Sworn
  <1>3. Following(commits, commitBatch, hub, store')
    BY <1>1, <1>2, RowsFollowed
  \* The hub hears nothing and the commits stay where they are.
  <1>4. ASSUME UNCHANGED <<mode, commits, commitBatch, hub>>,
               pc' = "committing" \/ pc # "committing" \/ commitBatch = <<>>
        PROVE  HubInv' /\ HubKept
    BY <1>3, <1>4 DEF HubInv, HubKept
  \* The worker takes the queue, its batch being done.
  <1>5. ASSUME commitBatch = <<>>, commitBatch' = commits, commits' = <<>>, pc' = "committing",
               UNCHANGED <<mode, hub>>
        PROVE  HubInv' /\ HubKept
    <2>1. Following(<<>>, commits, hub, store')
      BY <1>3 DEF Following
    <2> QED BY <1>5, <2>1 DEF HubInv, HubKept
  <1>6. ASSUME commitBatch' = <<>>, commits' = <<>>, hub' = hub
        PROVE  HubInv' /\ HubKept
    <2>1. Following(<<>>, <<>>, hub, store')
      BY <1>3 DEF Following
    <2> QED BY <1>6, <2>1 DEF HubInv, HubKept
  <1>7. ASSUME NEW s \in Sessions, SessionStep(s)
        PROVE  HubInv' /\ HubKept
    \* A session that plays carries its row's brand into the row and the commit.
    <2>0. ASSUME NEW c \in Sheet, state[s] = "playing", char[s].sworn => c.sworn,
                 Save(who[s], c), CommitHub(who[s], c), UNCHANGED <<mode, commitBatch>>
          PROVE  HubInv' /\ HubKept
      <3>1. who[s] \in Names /\ SeatOK(state[s], who[s], char[s], store)
        BY <2>0 DEF TypeInv, TypeOK, BrandInv
      <3>2. Sworn(store[who[s]]) => c.sworn
        BY <2>0, <3>1 DEF SeatOK, Sworn
      <3>3. store' = [store EXCEPT ![who[s]] = c]
        BY <2>0 DEF Save
      <3> QED BY <2>0, <3>1, <3>2, <3>3, CommitFollows
    <2>1. CASE Connect(s) \/ Earn(s) \/ HandleRace(s) \/ \E n \in Names : HandleName(s, n)
      <3>1. ASSUME NEW n, NEW c, FinishLogin(s, n, c)
            PROVE  pc' = pc \/ pc # "committing"
        BY <3>1 DEF FinishLogin, Signal
      <3>2. pc' = pc \/ pc # "committing"
        BY <2>1, <3>1 DEF Connect, Earn, HandleRace, HandleName, workerVars
      <3>3. UNCHANGED <<mode, commits, commitBatch, hub>>
        BY <2>1 DEF Connect, Earn, HandleRace, HandleName, workerVars, hubVars
      <3> QED BY <1>4, <3>2, <3>3
    <2>2. CASE Pledge(s)
      <3> DEFINE c == [char[s] EXCEPT !.sworn = TRUE]
      <3>1. char[s] \in Sheet
        BY DEF TypeInv, TypeOK
      <3>2. c \in Sheet /\ c.sworn
        BY <3>1, SheetType DEF Sheet
      <3>3. /\ state[s] = "playing" /\ Save(who[s], c) /\ CommitHub(who[s], c)
            /\ UNCHANGED <<mode, commitBatch>>
        BY <2>2 DEF Pledge
      <3> HIDE DEF c
      <3> QED BY <2>0, <3>2, <3>3
    <2>3. CASE Travel(s) \/ Close(s)
      <3>1. char[s] \in Sheet
        BY DEF TypeInv, TypeOK
      <3>2. \/ /\ state[s] = "playing" /\ Save(who[s], char[s]) /\ CommitHub(who[s], char[s])
               /\ UNCHANGED <<mode, commitBatch>>
            \/ UNCHANGED <<mode, commits, commitBatch, hub, pc>>
        BY <2>3 DEF Travel, Close, hubVars
      <3> QED BY <1>4, <2>0, <3>1, <3>2
    <2> QED BY <1>7, <2>1, <2>2, <2>3 DEF SessionStep
  <1>8. CASE CommitOne
    <2>1. /\ commitBatch # <<>> /\ commitBatch' = Tail(commitBatch)
          /\ UNCHANGED <<mode, commits, pc>> /\ pc = "committing"
      BY <1>8 DEF CommitOne, workerRest
    <2>0. \/ hub' = hub
          \/ hub' = [hub EXCEPT ![Head(commitBatch).name] = Head(commitBatch).sheet]
      BY <1>8 DEF CommitOne, HubStores
    <2>4. /\ Following(commits, Tail(commitBatch), hub', store')
          /\ \A n \in Names : Sworn(hub[n]) => Sworn(hub'[n])
      <3>1. commitBatch # <<>>
        BY <2>1
      <3> QED BY <1>1, <1>3, <2>0, <3>1, PopFollows
    <2>2. /\ Following(commits, commitBatch', hub', store')
          /\ \A n \in Names : Sworn(hub[n]) => Sworn(hub'[n])
      BY <2>1, <2>4
    <2>3. mode = "worker"
      BY <2>1 DEF HubInv
    <2> QED BY <2>1, <2>2, <2>3 DEF HubInv, HubKept
  <1>9. CASE TakeCommits \/ Refresh
    <2>1. /\ commitBatch' = commits /\ commits' = <<>> /\ pc' = "committing"
          /\ UNCHANGED <<mode, hub>>
          /\ TakeCommits \/ commitBatch = <<>>
      BY <1>9 DEF TakeCommits, Refresh, workerRest
    <2>2. commitBatch = <<>>
      BY <2>1 DEF TakeCommits, HubInv
    <2> QED BY <1>5, <2>1, <2>2
  <1>10. CASE Crash \/ Boot
    BY <1>6, <1>10 DEF Crash, Boot, hubVars
  <1>11. CASE \E n \in Names : Elsewhere(n)
    <2>1. PICK n \in Names : Elsewhere(n)
      BY <1>11
    <2>2. /\ hub[n] \in Sheet /\ hub' = [hub EXCEPT ![n].xp = @ + 1]
          /\ UNCHANGED <<mode, commits, commitBatch>>
      BY <1>1, <2>1 DEF Elsewhere, workerVars
    <2>3. [hub[n] EXCEPT !.xp = @ + 1] \in Sheet /\ [hub[n] EXCEPT !.xp = @ + 1].sworn = hub[n].sworn
      BY <2>2, SheetType DEF Sheet
    <2>4. \A m \in Names : Sworn(hub'[m]) <=> Sworn(hub[m])
      <3>1. hub'[n] \in Sheet /\ hub'[n].sworn = hub[n].sworn /\ \A m \in Names : m # n => hub'[m] = hub[m]
        BY <1>1, <2>2, <2>3
      <3> QED BY <2>2, <3>1, NoSheetAssumption DEF Sworn
    <2>5. (\A i \in DOMAIN commits : commits[i] \in Commit)
          /\ \A i \in DOMAIN commitBatch : commitBatch[i] \in Commit
      BY <1>1
    <2>6. \A e \in Commit : Branded(e, hub, store') <=> Branded(e, hub', store')
      BY <2>4 DEF Branded, Commit
    <2>7. Following(commits, commitBatch, hub', store')
      BY <1>3, <2>4, <2>5, <2>6 DEF Following
    <2> QED BY <2>1, <2>2, <2>4, <2>7 DEF HubInv, HubKept, Elsewhere, workerVars
  <1>12. CASE \/ Drain \/ Admit \/ TakeLoads \/ LoadOne \/ Polled \/ Rest \/ Timeout \/ Return
              \/ Stop \/ BeginJoin \/ Exit \/ UNCHANGED vars
    BY <1>4, <1>12 DEF Signal, Drain, Admit, TakeLoads, LoadOne, Polled, Rest, Timeout, Return,
                       workerRest, workerVars, hubVars, Stop, BeginJoin, Exit, vars
  <1> QED BY <1>7, <1>8, <1>9, <1>10, <1>11, <1>12 DEF Next, Worker, Stopped

\* "The brand remains write-once across the federation" (docs/WORLD.md:47): where no two
\* live sessions share a name and saves do not fail, the hub's sheet never loses it
\* either, through coalescing, overflow, failed RPCs and loads, crashes and restarts.
\* (commit_hub after hg_store_save; take_pending_commits, flush_pending_commits.)
THEOREM BrandIsForeverAtTheHub ==
    ASSUME SharedNames = FALSE, DiskFails = FALSE
    PROVE  Spec => [][\A n \in Names : Sworn(hub[n]) => Sworn(hub'[n])]_vars
  <1>1. Init => BrandInv /\ HubInv
    <2> SUFFICES ASSUME Init PROVE BrandInv /\ HubInv
      OBVIOUS
    <2>1. \A s \in Sessions : state[s] = "gone" /\ who[s] = NoName
      BY DEF Init
    <2>2. commits = <<>> /\ commitBatch = <<>> /\ \A n \in Names : hub[n] = NoSheet
      BY DEF Init
    <2> QED BY <2>1, <2>2, NoNameAssumption DEF BrandInv, OneEach, SeatOK, HubInv, Following, Sworn
  <1>2. TypeInv /\ TypeInv' /\ BrandInv /\ HubInv /\ [Next]_vars => BrandInv' /\ HubInv' /\ HubKept
    BY BrandStep, HubStep
  <1>3. HubKept => [\A n \in Names : Sworn(hub[n]) => Sworn(hub'[n])]_vars
    BY DEF HubKept
  <1> QED BY <1>1, <1>2, <1>3, TypeCorrect, PTL DEF Spec

-----------------------------------------------------------------------------
(* When a merge keeps progress, and so how far the counterexample of the    *)
(* run IdentityReconnect reaches.  Steps that are Untroubled do not lead to *)
(* one; without any part of Untroubled TLC finds others.                    *)

\* What commit_hub leaves in the queue: the new commit, and what other names have there.
LEMMA PushElements ==
    ASSUME RoomForAll, NEW q \in Seq(Commit), Distinct(q), NEW e \in Commit
    PROVE  \A x : x \in Queued(QueueCommit(q, e)) <=> x = e \/ (x \in Queued(q) /\ x.name # e.name)
  <1> DEFINE r == QueueCommit(q, e)
  <1>1. \A i \in DOMAIN r : r[i] = e \/ (r[i].name # e.name /\ \E j \in DOMAIN q : r[i] = q[j])
    BY QueueCommitLemma
  <1>2. /\ \E i \in DOMAIN r : r[i] = e
        /\ \A j \in DOMAIN q : q[j].name # e.name => \E i \in DOMAIN r : r[i] = q[j]
    BY QueueCommitKeeps
  <1> HIDE DEF r
  <1>3. \A x : x \in Queued(r) <=> x = e \/ (x \in Queued(q) /\ x.name # e.name)
    BY <1>1, <1>2 DEF Queued
  <1> QED BY <1>3 DEF r

\* What is left of a batch when its first commit is done: what other names have in it.
LEMMA PopElements ==
    ASSUME NEW b \in Seq(Commit), b # <<>>, Distinct(b)
    PROVE  /\ Head(b) \in Queued(b)
           /\ \A x : x \in Queued(Tail(b)) <=> x \in Queued(b) /\ x.name # Head(b).name
  <1> DEFINE t == Tail(b)
             e == Head(b)
  <1>1. /\ e = b[1] /\ 1 \in DOMAIN b
        /\ \A i \in DOMAIN t : i + 1 \in DOMAIN b /\ i + 1 # 1 /\ t[i] = b[i + 1]
        /\ \A i \in DOMAIN b : i # 1 => i - 1 \in DOMAIN t /\ t[i - 1] = b[i]
    OBVIOUS
  <1> HIDE DEF t, e
  <1>2. \A i \in DOMAIN b : b[i].name = e.name <=> i = 1
    BY <1>1 DEF Distinct
  <1>3. \A x : x \in Queued(t) <=> x \in Queued(b) /\ x.name # e.name
    BY <1>1, <1>2 DEF Queued
  <1>4. e \in Queued(b)
    BY <1>1 DEF Queued
  <1> QED BY <1>3, <1>4 DEF t, e

\* A result put in the queue joins results that were there.
LEMMA ResultElements ==
    ASSUME NEW q \in Seq(Result), NEW r \in Result
    PROVE  \A x \in Queued(Append(MakeRoom(q, LoadCap), r)) : x = r \/ x \in Queued(q)
  <1> DEFINE m == MakeRoom(q, LoadCap)
  <1>1. m \in Seq(Result) /\ (m = q \/ (q # <<>> /\ m = Tail(q)))
    BY MakeRoomLemma, CapAssumption
  <1>2. Queued(m) \subseteq Queued(q)
    <2>1. CASE m = q
      BY <2>1
    <2>2. CASE q # <<>> /\ m = Tail(q)
      <3>1. \A i \in DOMAIN m : i + 1 \in DOMAIN q /\ m[i] = q[i + 1]
        BY <2>2
      <3> QED BY <3>1 DEF Queued
    <2> QED BY <1>1, <2>1, <2>2
  <1> HIDE DEF m
  <1>3. Queued(Append(m, r)) = Queued(m) \cup {r}
    BY <1>1, QueuedAppend
  <1> QED BY <1>2, <1>3 DEF m

\* Nothing is known of a wanderer, at the hub or on the way there or back, without a row
\* in the store.
Rooted ==
    /\ \A n \in Names : hub[n] # NoSheet => store[n] # NoSheet
    /\ \A e \in Queued(commits) \cup Queued(commitBatch) : store[e.name] # NoSheet
    /\ \A r \in Queued(results) \cup Queued(inbox) : r.sheet # NoSheet => store[r.name] # NoSheet

\* Rows stay, and what is new at the hub or on its way has one.
LEMMA RootedKeeps ==
    ASSUME TypeOK, Rooted,
           \A n \in Names : store[n] # NoSheet => store'[n] # NoSheet,
           \A n \in Names : hub'[n] \in {hub[n], NoSheet} \/ store'[n] # NoSheet,
           \A e \in Queued(commits') \cup Queued(commitBatch') :
               e \in Queued(commits) \cup Queued(commitBatch) \/ store'[e.name] # NoSheet,
           \A r \in Queued(results') \cup Queued(inbox') :
               \/ r \in Queued(results) \cup Queued(inbox)
               \/ r.sheet # NoSheet => store'[r.name] # NoSheet
    PROVE  Rooted'
  <1>1. /\ \A e \in Queued(commits) \cup Queued(commitBatch) : e.name \in Names
        /\ \A r \in Queued(results) \cup Queued(inbox) : r.name \in Names
    <2>1. \A q \in Seq(Commit) : \A e \in Queued(q) : e \in Commit
      BY DEF Queued
    <2>2. \A q \in Seq(Result) : \A r \in Queued(q) : r \in Result
      BY DEF Queued
    <2>3. (\A e \in Commit : e.name \in Names) /\ \A r \in Result : r.name \in Names
      BY DEF Commit, Result
    <2> QED BY <2>1, <2>2, <2>3 DEF TypeOK
  <1>2. \A n \in Names : hub'[n] # NoSheet => store'[n] # NoSheet
    BY DEF Rooted
  <1>3. \A e \in Queued(commits') \cup Queued(commitBatch') : store'[e.name] # NoSheet
    BY <1>1 DEF Rooted
  <1>4. \A r \in Queued(results') \cup Queued(inbox') : r.sheet # NoSheet => store'[r.name] # NoSheet
    BY <1>1 DEF Rooted
  <1> QED BY <1>2, <1>3, <1>4 DEF Rooted

\* A commit of a name that has a row sends nothing that has none.
LEMMA CommitRooted ==
    ASSUME TypeInv, Rooted, NEW n \in Names, NEW c \in Sheet, CommitHub(n, c), store'[n] # NoSheet,
           \A m \in Names : store[m] # NoSheet => store'[m] # NoSheet,
           UNCHANGED <<commitBatch, results, inbox>>
    PROVE  Rooted'
  <1> DEFINE e == [name |-> n, sheet |-> c, stamp |-> issued[n] + 1]
  <1>1. e \in Commit /\ e.name = n
    BY DEF TypeInv, TypeOK, Commit
  <1>2. hub' = hub \/ hub' = [hub EXCEPT ![n] = c]
    BY DEF CommitHub, HubStores, hubVars
  <1>3. \A m \in Names : hub'[m] = hub[m] \/ store'[m] # NoSheet
    BY <1>2 DEF TypeInv, TypeOK
  <1>4. commits' = commits \/ commits' = QueueCommit(commits, e)
    BY DEF CommitHub
  <1> HIDE DEF e
  <1>5. \A x \in Queued(commits') : x \in Queued(commits) \/ x = e
    <2>1. CASE commits' = QueueCommit(commits, e)
      <3>1. \A i \in DOMAIN commits' : commits'[i] = e \/ \E j \in DOMAIN commits : commits'[i] = commits[j]
        BY <1>1, <2>1, QueueCommitLemma DEF TypeInv, TypeOK
      <3> QED BY <3>1 DEF Queued
    <2> QED BY <1>4, <2>1
  <1> QED BY <1>1, <1>3, <1>5, RootedKeeps DEF TypeInv

LEMMA RootedStep ==
    ASSUME TypeInv, BrandInv, Rooted, [Next]_vars
    PROVE  Rooted'
  <1>1. /\ TypeOK /\ store \in [Names -> Sheet \cup {NoSheet}]
        /\ hub \in [Names -> Sheet \cup {NoSheet}] /\ results \in Seq(Result)
        /\ commitBatch \in Seq(Commit) /\ Distinct(commitBatch)
    BY DEF TypeInv, TypeOK
  <1>2. Queued(<<>>) = {}
    BY DEF Queued
  <1>3. ASSUME UNCHANGED <<store, hub, commits, commitBatch, results, inbox>>
        PROVE  Rooted'
    BY <1>3 DEF Rooted
  <1>4. ASSUME NEW s \in Sessions, SessionStep(s)
        PROVE  Rooted'
    \* A session writes its own row and, if it commits, commits that row's name.
    <2>1. ASSUME NEW n \in Names, NEW c \in Sheet, store' = store \/ store' = [store EXCEPT ![n] = c]
          PROVE  /\ \A m \in Names : store[m] # NoSheet => store'[m] # NoSheet
                 /\ store[n] # NoSheet => store'[n] # NoSheet
      BY <1>1, <2>1, NoSheetAssumption
    <2>2. ASSUME NEW c \in Sheet, state[s] = "playing", Save(who[s], c), CommitHub(who[s], c),
                 UNCHANGED <<commitBatch, results, inbox>>
          PROVE  Rooted'
      <3>1. who[s] \in Names /\ store[who[s]] # NoSheet
        BY <2>2 DEF TypeInv, TypeOK, BrandInv, SeatOK
      <3>2. store' = store \/ store' = [store EXCEPT ![who[s]] = c]
        BY <2>2 DEF Save
      <3> QED BY <2>1, <2>2, <3>1, <3>2, CommitRooted
    <2>3. ASSUME NEW n \in Names, NEW c \in Sheet, store' = store \/ store' = [store EXCEPT ![n] = c],
                 UNCHANGED <<hub, commits, commitBatch, results, inbox>>
          PROVE  Rooted'
      BY <1>1, <2>1, <2>3, RootedKeeps
    <2>4. CASE Connect(s) \/ \E n \in Names : HandleName(s, n)
      BY <1>3, <2>4 DEF Connect, HandleName, workerVars, hubVars
    <2>5. CASE HandleRace(s)
      <3>1. who[s] \in Names /\ char[s] \in Sheet
        BY <2>5 DEF HandleRace, TypeInv, TypeOK
      <3> QED BY <2>3, <2>5, <3>1 DEF HandleRace, hubVars
    <2>6. CASE Earn(s)
      <3> DEFINE c == [char[s] EXCEPT !.xp = @ + 1]
      <3>1. who[s] \in Names /\ char[s] \in Sheet
        BY <2>6 DEF Earn, TypeInv, TypeOK
      <3>2. c \in Sheet
        BY <3>1, SheetType
      <3>3. store' = store \/ store' = [store EXCEPT ![who[s]] = c]
        BY <2>6 DEF Earn, Save
      <3>4. UNCHANGED <<hub, commits, commitBatch, results, inbox>>
        BY <2>6 DEF Earn, workerVars, hubVars
      <3> HIDE DEF c
      <3> QED BY <2>3, <3>1, <3>2, <3>3, <3>4
    <2>7. CASE Pledge(s)
      <3> DEFINE c == [char[s] EXCEPT !.sworn = TRUE]
      <3>1. char[s] \in Sheet
        BY DEF TypeInv, TypeOK
      <3>2. c \in Sheet
        BY <3>1, SheetType
      <3>3. /\ state[s] = "playing" /\ Save(who[s], c) /\ CommitHub(who[s], c)
            /\ UNCHANGED <<commitBatch, results, inbox>>
        BY <2>7 DEF Pledge
      <3> HIDE DEF c
      <3> QED BY <2>2, <3>2, <3>3
    <2>8. CASE Travel(s) \/ Close(s)
      <3>1. char[s] \in Sheet
        BY DEF TypeInv, TypeOK
      <3>2. \/ /\ state[s] = "playing" /\ Save(who[s], char[s]) /\ CommitHub(who[s], char[s])
               /\ UNCHANGED <<commitBatch, results, inbox>>
            \/ UNCHANGED <<store, hub, commits, commitBatch, results, inbox>>
        BY <2>8 DEF Travel, Close, hubVars
      <3> QED BY <1>3, <2>2, <3>1, <3>2
    <2> QED BY <1>4, <2>4, <2>5, <2>6, <2>7, <2>8 DEF SessionStep
  <1>5. CASE Drain
    BY <1>2, <1>5 DEF Drain, Rooted, hubVars
  <1>6. CASE Admit
    <2>1. \A x \in Queued(Tail(inbox)) : x \in Queued(inbox)
      <3>1. \A i \in DOMAIN Tail(inbox) : i + 1 \in DOMAIN inbox /\ Tail(inbox)[i] = inbox[i + 1]
        BY <1>6 DEF Admit, TypeInv, TypeOK
      <3> QED BY <3>1 DEF Queued
    <2> QED BY <1>6, <2>1 DEF Admit, Rooted, workerVars, hubVars
  <1>7. CASE LoadOne
    <2>1. PICK h \in {hub[Head(loadBatch)], NoSheet} :
              results' = Append(MakeRoom(results, LoadCap), [name |-> Head(loadBatch), sheet |-> h])
      BY <1>7 DEF LoadOne
    <2> DEFINE n == Head(loadBatch)
               r == [name |-> n, sheet |-> h]
    <2>2. n \in Names
      BY <1>7 DEF LoadOne, TypeInv, TypeOK
    <2>3. r \in Result /\ r.name = n /\ r.sheet = h
      BY <1>1, <2>2 DEF Result
    <2>4. h # NoSheet => store[n] # NoSheet
      BY <2>2 DEF Rooted
    <2>5. UNCHANGED <<store, hub, commits, commitBatch, inbox>>
      BY <1>7 DEF LoadOne, workerRest
    <2> HIDE DEF r, n
    <2>6. results' = Append(MakeRoom(results, LoadCap), r)
      BY <2>1 DEF r, n
    <2>7. \A x \in Queued(results') : x = r \/ x \in Queued(results)
      BY <1>1, <2>3, <2>6, ResultElements
    <2> QED BY <2>3, <2>4, <2>5, <2>7 DEF Rooted
  <1>8. CASE TakeCommits \/ Refresh
    <2>1. /\ commitBatch' = commits /\ commits' = <<>>
          /\ UNCHANGED <<store, hub, results, inbox>>
      BY <1>8 DEF TakeCommits, Refresh, workerRest
    <2> QED BY <1>2, <2>1 DEF Rooted
  <1>9. CASE CommitOne
    <2>1. /\ commitBatch # <<>> /\ commitBatch' = Tail(commitBatch)
          /\ UNCHANGED <<store, commits, results, inbox>>
      BY <1>9 DEF CommitOne, workerRest
    <2>2. hub' = hub \/ hub' = [hub EXCEPT ![Head(commitBatch).name] = Head(commitBatch).sheet]
      BY <1>9 DEF CommitOne, HubStores
    <2>3. /\ Head(commitBatch) \in Queued(commitBatch)
          /\ \A x \in Queued(commitBatch') : x \in Queued(commitBatch)
      BY <1>1, <2>1, PopElements
    <2>4. \A m \in Names : hub'[m] = hub[m] \/ store[m] # NoSheet
      BY <1>1, <2>2, <2>3 DEF Rooted
    <2> QED BY <1>1, <2>1, <2>3, <2>4, RootedKeeps
  <1>10. CASE Crash
    BY <1>2, <1>10 DEF Crash, Rooted, hubVars
  <1>11. CASE Boot
    <2>1. PICK files \in Files : store' = Import(store, files)
      BY <1>11 DEF Boot
    <2>2. \A m \in Names : store[m] # NoSheet => store'[m] # NoSheet
      BY <2>1 DEF Import
    <2>3. commits' = <<>> /\ commitBatch' = <<>> /\ results' = <<>> /\ inbox' = inbox /\ hub' = hub
      BY <1>11 DEF Boot
    <2> QED BY <1>1, <1>2, <2>2, <2>3, RootedKeeps
  <1>12. CASE \E n \in Names : Elsewhere(n)
    <2>1. PICK n \in Names : Elsewhere(n)
      BY <1>12
    <2>2. /\ hub[n] # NoSheet /\ hub' = [hub EXCEPT ![n].xp = @ + 1]
          /\ UNCHANGED <<store, commits, commitBatch, results, inbox>>
      BY <2>1 DEF Elsewhere, workerVars
    <2>3. \A m \in Names : hub'[m] = hub[m] \/ store[m] # NoSheet
      BY <1>1, <2>2 DEF Rooted
    <2> QED BY <1>1, <2>2, <2>3, RootedKeeps
  <1>13. CASE \/ TakeLoads \/ Polled \/ Rest \/ Timeout \/ Return
              \/ Stop \/ BeginJoin \/ Exit \/ UNCHANGED vars
    BY <1>3, <1>13 DEF TakeLoads, Polled, Rest, Timeout, Return, workerRest, workerVars, hubVars,
                       Stop, BeginJoin, Exit, vars
  <1> QED BY <1>4, <1>5, <1>6, <1>7, <1>8, <1>9, <1>10, <1>11, <1>12, <1>13
          DEF Next, Worker, Stopped

\* What makes a wanderer who comes back now come back too quickly.
Outstanding(n) ==
    \E e \in Queued(commits) \cup Queued(results) : e.name = n

\* No crash, no commit that fails, and nobody gives a name before the worker has taken the
\* commits of the last visit, and a load it answered then is drained.
Untroubled ==
    /\ phase' # "crashed"
    /\ arrived' = sent'
    /\ \A s \in Sessions : who'[s] \notin {who[s], NoName} => ~Outstanding(who'[s])

\* A sheet that a row can be merged with, since it is not older.
Abreast(h, row) == h # NoSheet => row # NoSheet /\ h.xp >= row.xp

\* The last word on n to reach the hub, from the queue, the batch or before them, is not
\* older than its row.
LastWord(Q, B, h, row, n) ==
    /\ \A e \in Q : e.name = n => Abreast(e.sheet, row)
    /\ (\E e \in Q : e.name = n) \/ \A e \in B : e.name = n => Abreast(e.sheet, row)
    /\ (\E e \in Q \cup B : e.name = n) \/ Abreast(h, row)

\* The hub is told, or will be, all that the row of n has.
Told(n) == LastWord(Queued(commits), Queued(commitBatch), hub[n], store[n], n)

\* Who is connected and has given the name n.
Named == {"race", "hub", "playing"}
Live(n) == \E s \in Sessions : state[s] \in Named /\ who[s] = n

\* A character that may play is not behind its row; one that waits can be merged with
\* whatever the hub has answered or, once the worker loads again, will answer.
SeatAhead(s) ==
    /\ state[s] \in {"hub", "playing"} => char[s].xp >= store[who[s]].xp
    /\ state[s] = "hub" =>
          /\ \A e \in Queued(commits) : e.name # who[s]
          /\ Told(who[s])
          /\ \A r \in Queued(results) \cup Queued(inbox) :
                r.name = who[s] => Abreast(r.sheet, store[who[s]])

ProgInv ==
    /\ phase # "crashed" /\ mode # "local" /\ arrived = sent
    /\ Rooted
    /\ \A s \in Sessions : SeatAhead(s)
    /\ \A n \in Names : Live(n) \/ Told(n)

\* Nothing but what concerns the name w changes.
Only(w) ==
    /\ \A m \in Names : m # w => store'[m] = store[m] /\ hub'[m] = hub[m]
    /\ \A e : e.name # w => (e \in Queued(commits') <=> e \in Queued(commits))

\* One session moves, under the name w, which nobody else has: every other seat, and every
\* other name, stays as it was.
LEMMA OnlyOne ==
    ASSUME TypeOK, ProgInv, NEW s \in Sessions, NEW w,
           \A t \in Sessions : t # s =>
               state'[t] = state[t] /\ who'[t] = who[t] /\ char'[t] = char[t],
           state[s] \in Named => who[s] = w,
           \A t \in Sessions : t # s /\ state[t] \in Named => who[t] # w,
           Only(w), UNCHANGED <<mode, phase, commitBatch, results, inbox>>, arrived' = sent',
           Rooted', SeatAhead(s)', w \in Names => (Live(w)' \/ Told(w)')
    PROVE  ProgInv'
  <1>1. \A t \in Sessions : state[t] \in Named => who[t] \in Names
    BY DEF TypeOK, Named
  <1>2. ASSUME NEW t \in Sessions PROVE SeatAhead(t)'
    <2>1. CASE t # s
      <3>1. state'[t] = state[t] /\ who'[t] = who[t] /\ char'[t] = char[t] /\ SeatAhead(t)
        BY <2>1 DEF ProgInv
      <3>2. CASE state[t] \in {"hub", "playing"}
        <4>1. who[t] \in Names /\ who[t] # w
          BY <1>1, <2>1, <3>2 DEF Named
        <4>2. store'[who[t]] = store[who[t]] /\ hub'[who[t]] = hub[who[t]]
          BY <4>1 DEF Only
        <4>3. \A e : e.name = who[t] => (e \in Queued(commits') <=> e \in Queued(commits))
          BY <4>1 DEF Only
        <4>4. results' = results /\ inbox' = inbox /\ commitBatch' = commitBatch
          OBVIOUS
        <4>5. Told(who[t]) => Told(who[t])'
          BY <3>1, <4>2, <4>3, <4>4 DEF Told, LastWord
        <4> HIDE DEF Told
        <4> QED BY <3>1, <4>2, <4>3, <4>4, <4>5 DEF SeatAhead
      <3>3. CASE state[t] \notin {"hub", "playing"}
        BY <3>1, <3>3 DEF SeatAhead
      <3> QED BY <3>2, <3>3
    <2> QED BY <2>1
  <1>3. ASSUME NEW m \in Names PROVE Live(m)' \/ Told(m)'
    <2>1. CASE m # w
      <3>1. CASE Live(m)
        <4>1. PICK t \in Sessions : state[t] \in Named /\ who[t] = m
          BY <3>1 DEF Live
        <4>2. t # s
          BY <2>1, <4>1
        <4> QED BY <4>1, <4>2 DEF Live
      <3>2. CASE Told(m)
        <4>1. store'[m] = store[m] /\ hub'[m] = hub[m] /\ commitBatch' = commitBatch
          BY <2>1 DEF Only
        <4>2. \A e : e.name = m => (e \in Queued(commits') <=> e \in Queued(commits))
          BY <2>1 DEF Only
        <4> QED BY <3>2, <4>1, <4>2 DEF Told, LastWord
      <3> QED BY <3>1, <3>2 DEF ProgInv
    <2> QED BY <2>1
  <1>4. phase' # "crashed" /\ mode' # "local"
    BY DEF ProgInv
  <1> QED BY <1>2, <1>3, <1>4 DEF ProgInv

\* A commit that is stored, or queued with room, is the last word on its name, and changes
\* nothing for another.
LEMMA CommitSettles ==
    ASSUME RoomForAll, TypeInv, AccInv, ProgInv, NEW n \in Names, NEW c \in Sheet, CommitHub(n, c),
           arrived' = sent', \A m \in Names : m # n => store'[m] = store[m],
           store'[n] # NoSheet => c.xp >= store'[n].xp, store'[n] # NoSheet,
           UNCHANGED <<mode, commitBatch>>
    PROVE  Only(n) /\ Told(n)'
  <1>1. /\ commits \in Seq(Commit) /\ Distinct(commits)
        /\ hub \in [Names -> Sheet \cup {NoSheet}]
        /\ issued \in [Names -> Nat] /\ sent \in [Names -> Nat]
        /\ arrived \in [Names -> Nat]
        /\ mode \in {"worker", "direct"}
    BY DEF TypeInv, TypeOK, ProgInv
  <1>2. Abreast(c, store'[n])
    BY DEF Abreast
  <1>3. CASE mode = "worker"
    <2> DEFINE e == [name |-> n, sheet |-> c, stamp |-> issued[n] + 1]
    <2>1. e \in Commit /\ e.name = n /\ e.sheet = c
      BY <1>1 DEF Commit
    <2>2. commits' = QueueCommit(commits, e) /\ hub' = hub
      BY <1>3 DEF CommitHub
    <2> HIDE DEF e
    <2>3. \A x : x \in Queued(commits') <=> x = e \/ (x \in Queued(commits) /\ x.name # n)
      BY <1>1, <2>1, <2>2, PushElements
    <2>4. Only(n)
      BY <2>1, <2>2, <2>3 DEF Only
    <2>5. Told(n)'
      BY <1>2, <2>1, <2>3 DEF Told, LastWord
    <2> QED BY <2>4, <2>5
  <1>4. CASE mode = "direct"
    <2>1. commits = <<>> /\ commitBatch = <<>> /\ commits' = commits
      BY <1>4 DEF AccInv, CommitHub
    <2>2. sent' = [sent EXCEPT ![n] = issued[n] + 1] /\ HubStores(n, c, issued[n] + 1)
      BY <1>4 DEF CommitHub, HubStores
    <2>3. arrived[n] # sent'[n]
      <3>1. arrived[n] = sent[n] /\ sent[n] <= issued[n]
        BY DEF ProgInv, AccInv, Ordered
      <3> QED BY <1>1, <2>2, <3>1
    <2>4. hub' = [hub EXCEPT ![n] = c]
      BY <2>2, <2>3 DEF HubStores
    <2>5. Queued(<<>>) = {}
      BY DEF Queued
    <2>6. Only(n)
      BY <1>1, <2>1, <2>4 DEF Only
    <2>7. Told(n)'
      BY <1>1, <1>2, <2>1, <2>4, <2>5 DEF Told, LastWord
    <2> QED BY <2>6, <2>7
  <1> QED BY <1>1, <1>3, <1>4

\* A login that goes on merges nothing older than its row.
LEMMA FinishAhead ==
    ASSUME TypeOK, mode # "local", NEW s \in Sessions, NEW n \in Names, NEW c \in Sheet,
           FinishLogin(s, n, c), mode = "direct" => Abreast(hub[n], c)
    PROVE  /\ state'[s] \in {"hub", "playing"} /\ char'[s].xp >= c.xp
           /\ \A t \in Sessions : t # s => state'[t] = state[t] /\ char'[t] = char[t]
  <1>1. /\ state'[s] \in {"hub", "playing"}
        /\ \A t \in Sessions : t # s => state'[t] = state[t] /\ char'[t] = char[t]
    BY FinishCarries
  <1>2. char'[s] = c \/ (mode = "direct" /\ char'[s] = Apply(c, hub[n]))
    BY DEF FinishLogin, TypeOK
  <1>3. c.xp \in Nat
    BY DEF Sheet
  <1>4. c.xp >= c.xp /\ (mode = "direct" => Apply(c, hub[n]).xp >= c.xp)
    BY <1>3 DEF Apply, Abreast
  <1> QED BY <1>1, <1>2, <1>4

\* A session's step leaves every character, every row and the hub abreast.
LEMMA ProgSession ==
    ASSUME SharedNames = FALSE, RoomForAll, TypeInv, TypeInv', BrandInv, BrandInv', AccInv, ProgInv,
           Rooted', Untroubled, NEW s \in Sessions, SessionStep(s)
    PROVE  ProgInv'
  <1>1. /\ TypeOK /\ arrived' = sent'
        /\ store \in [Names -> Sheet \cup {NoSheet}] /\ char \in [Sessions -> Sheet]
        /\ mode # "local"
    BY DEF TypeInv, TypeOK, Untroubled, ProgInv
  <1>2. \A t \in Sessions : state[t] \in Named => who[t] \in Names
    BY DEF TypeInv, TypeOK, Named
  <1>3. \A t \in Sessions : t # s /\ state[t] \in Named => who[t] # who[s]
    BY <1>2 DEF BrandInv, OneEach
  <1>4. SeatOK(state[s], who[s], char[s], store) /\ SeatAhead(s)
    BY DEF BrandInv, ProgInv
  \* A session that has no name to lose.
  <1>5. ASSUME state[s] \notin Named, state'[s] \notin Named,
               \A t \in Sessions : t # s =>
                   state'[t] = state[t] /\ who'[t] = who[t] /\ char'[t] = char[t],
               UNCHANGED <<mode, phase, store, hub, commits, commitBatch, results, inbox>>
        PROVE  ProgInv'
    <2>1. \A t \in Sessions : t # s /\ state[t] \in Named => who[t] # NoName
      BY <1>2, NoNameAssumption
    <2>2. Only(NoName)
      BY <1>5 DEF Only
    <2>3. SeatAhead(s)'
      BY <1>5 DEF SeatAhead, Named
    <2> QED BY <1>1, <1>5, <2>1, <2>2, <2>3, NoNameAssumption, OnlyOne
  <1>6. CASE Connect(s)
    <2>1. /\ state[s] = "gone" /\ state' = [state EXCEPT ![s] = "name"] /\ UNCHANGED <<who, char>>
          /\ UNCHANGED <<mode, phase, store, hub, commits, commitBatch, results, inbox>>
      BY <1>6 DEF Connect, workerVars, hubVars
    <2>2. /\ state[s] \notin Named /\ state'[s] \notin Named
          /\ \A t \in Sessions : t # s =>
                 state'[t] = state[t] /\ who'[t] = who[t] /\ char'[t] = char[t]
      BY <1>1, <2>1 DEF TypeOK, Named
    <2> QED BY <1>5, <2>1, <2>2
  <1>7. ASSUME NEW n \in Names, HandleName(s, n)
        PROVE  ProgInv'
    <2>1. /\ state[s] = "name" /\ who' = [who EXCEPT ![s] = n]
          /\ \A t \in Sessions : who[t] # n
          /\ UNCHANGED <<mode, phase, store, hub, commits, commitBatch, results, inbox, hubVars>>
          /\ inbox = <<>>
      BY <1>7 DEF HandleName, Serving, hubVars
    <2>2. who'[s] = n /\ \A t \in Sessions : t # s => who'[t] = who[t]
      BY <1>1, <2>1 DEF TypeOK
    <2>3. ~Outstanding(n)
      <3>1. n \notin {who[s], NoName}
        BY <2>1, NoNameAssumption
      <3> QED BY <2>2, <3>1 DEF Untroubled
    <2>4. Told(n) /\ (mode = "direct" => Abreast(hub[n], store[n]))
      <3>1. Told(n)
        BY <2>1 DEF ProgInv, Live
      <3>2. mode = "direct" => Queued(commits) = {} /\ Queued(commitBatch) = {}
        BY DEF AccInv, Queued
      <3> QED BY <3>1, <3>2 DEF Told, LastWord
    <2>5. Only(n)
      BY <2>1 DEF Only
    <2>6. /\ state[s] \notin Named
          /\ \A t \in Sessions : t # s /\ state[t] \in Named => who[t] # n
      BY <2>1 DEF Named
    <2>7. ASSUME state'[s] \in Named, SeatAhead(s)',
                 \A t \in Sessions : t # s => state'[t] = state[t] /\ char'[t] = char[t]
          PROVE  ProgInv'
      <3>1. Live(n)'
        BY <2>2, <2>7 DEF Live
      <3>2. \A t \in Sessions : t # s =>
                state'[t] = state[t] /\ who'[t] = who[t] /\ char'[t] = char[t]
        BY <2>2, <2>7
      <3>3. UNCHANGED <<mode, phase, commitBatch, results, inbox>>
        BY <2>1
      <3> HIDE DEF Only, ProgInv, Rooted, SeatAhead, Live, Told
      <3> QED BY <1>1, <2>5, <2>6, <2>7, <3>1, <3>2, <3>3, OnlyOne
    <2>8. CASE store[n] # NoSheet /\ FinishLogin(s, n, store[n])
      <3>1. store[n] \in Sheet
        BY <1>1, <2>8
      <3>2. /\ state'[s] \in {"hub", "playing"} /\ char'[s].xp >= store[n].xp
            /\ \A t \in Sessions : t # s => state'[t] = state[t] /\ char'[t] = char[t]
        BY <1>1, <2>4, <2>8, <3>1, FinishAhead
      <3>3. \A e \in Queued(commits') \cup Queued(results') : e.name # n
        BY <2>1, <2>3 DEF Outstanding
      <3>4. Queued(inbox') = {} /\ store' = store
        BY <2>1 DEF Queued
      <3>6. Told(n)'
        BY <2>1, <2>4 DEF Told
      <3>5. SeatAhead(s)'
        <4> HIDE DEF Told
        <4> QED BY <2>2, <3>2, <3>3, <3>4, <3>6 DEF SeatAhead
      <3> QED BY <2>7, <3>2, <3>5 DEF Named
    <2>9. CASE state' = [state EXCEPT ![s] = "race"] /\ char' = [char EXCEPT ![s] = Blank]
      <3>1. /\ state'[s] = "race"
            /\ \A t \in Sessions : t # s => state'[t] = state[t] /\ char'[t] = char[t]
        BY <1>1, <2>9 DEF TypeOK
      <3>2. SeatAhead(s)'
        BY <3>1 DEF SeatAhead
      <3> QED BY <2>7, <3>1, <3>2 DEF Named
    <2> QED BY <1>7, <2>8, <2>9 DEF HandleName
  <1>8. CASE HandleRace(s)
    <2>0. PICK w : w = who[s]
      OBVIOUS
    <2>1. /\ state[s] = "race" /\ store' = [store EXCEPT ![w] = char[s]]
          /\ FinishLogin(s, w, char[s])
          /\ UNCHANGED <<mode, phase, who, hub, commits, commitBatch, results, inbox>>
      BY <1>8, <2>0 DEF HandleRace, hubVars
    <2>2. w \in Names /\ store[w] = NoSheet /\ char[s] \in Sheet
      BY <1>1, <1>2, <1>4, <2>0, <2>1 DEF Named, SeatOK
    <2>3. /\ hub[w] = NoSheet
          /\ \A e \in Queued(commits) \cup Queued(commitBatch) : e.name # w
          /\ \A r \in Queued(results) \cup Queued(inbox) : r.name = w => r.sheet = NoSheet
      BY <2>2 DEF ProgInv, Rooted
    <2>4. /\ state'[s] \in {"hub", "playing"} /\ char'[s].xp >= char[s].xp
          /\ \A t \in Sessions : t # s => state'[t] = state[t] /\ char'[t] = char[t]
      <3>1. Abreast(hub[w], char[s])
        BY <2>3 DEF Abreast
      <3> QED BY <1>1, <2>1, <2>2, <3>1, FinishAhead
    <2>5. /\ store'[w] = char[s] /\ \A m \in Names : m # w => store'[m] = store[m]
          /\ who'[s] = w
      BY <1>1, <2>0, <2>1, <2>2
    <2>6. Only(w)
      BY <2>1, <2>5 DEF Only
    <2>7. SeatAhead(s)'
      <3>1. Abreast(NoSheet, store'[w])
        BY DEF Abreast
      <3>2. UNCHANGED <<hub, commits, commitBatch, results, inbox>>
        BY <2>1
      <3>3. Told(w)'
        BY <2>3, <3>1, <3>2 DEF Told, LastWord
      <3> HIDE DEF Told, Abreast
      <3> QED BY <2>3, <2>4, <2>5, <3>1, <3>2, <3>3 DEF SeatAhead
    <2>8. Live(w)'
      BY <2>4, <2>5 DEF Live, Named
    <2>9. /\ \A t \in Sessions : t # s =>
                 state'[t] = state[t] /\ who'[t] = who[t] /\ char'[t] = char[t]
          /\ \A t \in Sessions : t # s /\ state[t] \in Named => who[t] # w
          /\ UNCHANGED <<mode, phase, commitBatch, results, inbox>> /\ who[s] = w
      BY <1>3, <2>0, <2>1, <2>4
    <2> HIDE DEF Only, ProgInv, Rooted, SeatAhead, Live, Told
    <2> QED BY <1>1, <2>6, <2>7, <2>8, <2>9, OnlyOne
  \* A playing session that goes on playing: its row, and perhaps the hub, follows it.
  <1>9. ASSUME NEW c \in Sheet, state[s] = "playing", c.xp >= char[s].xp, Save(who[s], c),
               \/ UNCHANGED <<hub, commits>>
               \/ CommitHub(who[s], c),
               UNCHANGED <<mode, phase, commitBatch, results, inbox>>,
               \A t \in Sessions : t # s =>
                   state'[t] = state[t] /\ who'[t] = who[t] /\ char'[t] = char[t],
               state'[s] = "gone" => CommitHub(who[s], c),
               state'[s] # "gone" => state'[s] = "playing" /\ who'[s] = who[s] /\ char'[s] = c
        PROVE  ProgInv'
    <2>0. PICK w : w = who[s]
      OBVIOUS
    <2>1. w \in Names /\ store[w] \in Sheet /\ char[s].xp >= store[w].xp
      BY <1>1, <1>2, <1>4, <1>9, <2>0 DEF Named, SeatOK, SeatAhead
    <2>2. store' = store \/ store' = [store EXCEPT ![w] = c]
      BY <1>9, <2>0 DEF Save
    <2>3. \A t \in Sessions : t # s /\ state[t] \in Named => who[t] # w
      BY <1>3, <2>0
    <2>4. /\ \A m \in Names : m # w => store'[m] = store[m]
          /\ store'[w] # NoSheet /\ c.xp >= store'[w].xp
      <3>1. c.xp \in Nat /\ char[s].xp \in Nat /\ store[w].xp \in Nat
        BY <1>1, <2>1 DEF Sheet
      <3>2. c.xp >= store[w].xp /\ c.xp >= c.xp
        BY <1>9, <2>1, <3>1
      <3>3. store'[w] \in {store[w], c} /\ \A m \in Names : m # w => store'[m] = store[m]
        BY <1>1, <2>1, <2>2
      <3> QED BY <2>1, <3>2, <3>3, NoSheetAssumption
    <2>5. CommitHub(w, c) => Only(w) /\ Told(w)'
      BY <1>1, <1>9, <2>1, <2>4, CommitSettles
    <2>6. Only(w)
      <3>1. UNCHANGED <<hub, commits>> => Only(w)
        BY <2>4 DEF Only
      <3> QED BY <1>9, <2>0, <2>5, <3>1
    <2>7. SeatAhead(s)' /\ (Live(w)' \/ Told(w)')
      <3>1. CASE state'[s] = "gone"
        BY <1>9, <2>0, <2>5, <3>1 DEF SeatAhead
      <3>2. CASE state'[s] # "gone"
        <4>1. state'[s] = "playing" /\ who'[s] = w /\ char'[s] = c
          BY <1>9, <2>0, <3>2
        <4> QED BY <2>4, <4>1 DEF SeatAhead, Live, Named
      <3> QED BY <3>1, <3>2
    <2>8. UNCHANGED <<mode, phase, commitBatch, results, inbox>>
      BY <1>9
    <2> HIDE DEF Only, ProgInv, Rooted, SeatAhead, Live, Told
    <2> QED BY <1>1, <1>9, <2>0, <2>3, <2>6, <2>7, <2>8, OnlyOne
  <1>10. CASE Earn(s)
    <2> DEFINE c == [char[s] EXCEPT !.xp = @ + 1]
    <2>1. char[s] \in Sheet
      BY <1>1
    <2>2. c \in Sheet /\ c.xp >= char[s].xp
      BY <2>1, SheetType DEF Sheet
    <2> HIDE DEF c
    <2>3. /\ state[s] = "playing" /\ Save(who[s], c) /\ char' = [char EXCEPT ![s] = c]
          /\ UNCHANGED <<hub, commits>> /\ UNCHANGED <<state, who>>
          /\ UNCHANGED <<mode, phase, commitBatch, results, inbox>>
      BY <1>10 DEF Earn, c, workerVars, hubVars
    <2>4. char'[s] = c /\ \A t \in Sessions : t # s => char'[t] = char[t]
      BY <1>1, <2>3
    <2> QED BY <1>9, <2>2, <2>3, <2>4
  <1>11. CASE Pledge(s)
    <2> DEFINE c == [char[s] EXCEPT !.sworn = TRUE]
    <2>1. char[s] \in Sheet /\ char[s].xp \in Nat
      BY <1>1 DEF Sheet
    <2>2. c \in Sheet /\ c.xp >= char[s].xp
      <3>1. c \in Sheet
        BY <2>1, SheetType
      <3>2. c.xp = char[s].xp
        BY <2>1 DEF Sheet
      <3> QED BY <2>1, <3>1, <3>2
    <2> HIDE DEF c
    <2>3. /\ state[s] = "playing" /\ Save(who[s], c) /\ char' = [char EXCEPT ![s] = c]
          /\ CommitHub(who[s], c) /\ UNCHANGED <<state, who>>
          /\ UNCHANGED <<mode, phase, commitBatch, results, inbox>>
      BY <1>11 DEF Pledge, c
    <2>4. char'[s] = c /\ \A t \in Sessions : t # s => char'[t] = char[t]
      BY <1>1, <2>3
    <2> QED BY <1>9, <2>2, <2>3, <2>4
  <1>12. CASE Travel(s)
    <2>1. char[s] \in Sheet /\ char[s].xp \in Nat
      BY <1>1 DEF Sheet
    <2>2. /\ state[s] = "playing" /\ Save(who[s], char[s])
          /\ CommitHub(who[s], char[s]) /\ UNCHANGED <<state, who, char>>
          /\ UNCHANGED <<mode, phase, commitBatch, results, inbox>>
      BY <1>12 DEF Travel, loopVars
    <2> QED BY <1>9, <2>1, <2>2
  <1>13. CASE Close(s)
    <2>1. /\ state'[s] = "gone"
          /\ \A t \in Sessions : t # s =>
                 state'[t] = state[t] /\ who'[t] = who[t] /\ char'[t] = char[t]
          /\ UNCHANGED <<mode, phase, commitBatch, results, inbox>>
      BY <1>1, <1>13 DEF Close, TypeOK
    <2>2. CASE state[s] = "playing"
      <3>1. char[s] \in Sheet /\ char[s].xp \in Nat
        BY <1>1 DEF Sheet
      <3>2. Save(who[s], char[s]) /\ CommitHub(who[s], char[s])
        BY <1>13, <2>2 DEF Close
      <3> QED BY <1>9, <2>1, <2>2, <3>1, <3>2
    <2>3. CASE state[s] # "playing"
      <3>1. UNCHANGED <<store, hub, commits>>
        BY <1>13, <2>3 DEF Close, hubVars
      <3>2. SeatAhead(s)' /\ state'[s] \notin Named
        BY <2>1 DEF SeatAhead, Named
      <3>3. CASE state[s] \notin Named
        BY <1>5, <2>1, <3>1, <3>2, <3>3
      <3>4. CASE state[s] \in Named
        <4>0. PICK w : w = who[s]
          OBVIOUS
        <4>1. Told(w)
          <5>1. CASE state[s] = "hub"
            BY <1>4, <4>0, <5>1 DEF SeatAhead
          <5>2. CASE state[s] = "race"
            <6>1. w \in Names /\ store[w] = NoSheet
              BY <1>2, <1>4, <4>0, <5>2 DEF SeatOK, Named
            <6>2. /\ \A e \in Queued(commits) \cup Queued(commitBatch) : e.name # w
                  /\ hub[w] = NoSheet
              BY <6>1 DEF ProgInv, Rooted
            <6> QED BY <6>2 DEF Told, LastWord, Abreast
          <5> QED BY <2>3, <3>4, <5>1, <5>2 DEF Named
        <4>3. Told(w)'
          BY <2>1, <3>1, <4>1 DEF Told
        <4>4. Only(w)
          BY <3>1 DEF Only
        <4> HIDE DEF Only, ProgInv, Rooted, SeatAhead, Live, Told
        <4> QED BY <1>1, <1>3, <2>1, <3>2, <4>0, <4>3, <4>4, OnlyOne
      <3> QED BY <3>3, <3>4
    <2> QED BY <2>2, <2>3
  <1> QED BY <1>6, <1>7, <1>8, <1>10, <1>11, <1>12, <1>13 DEF SessionStep

\* So does every other step of the event loop, the worker, the process and the other worlds.
LEMMA ProgStep ==
    ASSUME SharedNames = FALSE, RoomForAll, "local" \notin Modes, TypeInv, TypeInv', BrandInv, BrandInv',
           AccInv, ExitInv, ProgInv, Rooted', [Next]_vars, Untroubled
    PROVE  ProgInv'
  <1>1. /\ TypeOK /\ arrived' = sent' /\ phase' # "crashed" /\ mode # "local"
        /\ store \in [Names -> Sheet \cup {NoSheet}] /\ hub \in [Names -> Sheet \cup {NoSheet}]
        /\ results \in Seq(Result) /\ commitBatch \in Seq(Commit) /\ Distinct(commitBatch)
        /\ \A n \in Names : arrived[n] = sent[n]
    BY DEF TypeInv, TypeOK, Untroubled, ProgInv
  <1>2. Queued(<<>>) = {}
    BY DEF Queued
  <1>3. \A s \in Sessions : state[s] = "hub" => who[s] \in Names
    BY <1>1 DEF TypeOK
  \* At most results move, or come that a waiting character can be merged with.
  <1>4. ASSUME UNCHANGED <<mode, state, who, char, store, hub, commits, commitBatch>>,
               \A r \in Queued(results') \cup Queued(inbox') :
                   \/ r \in Queued(results) \cup Queued(inbox)
                   \/ \A s \in Sessions : state[s] = "hub" /\ r.name = who[s]
                                              => Abreast(r.sheet, store[who[s]])
        PROVE  ProgInv'
    <2>1. ASSUME NEW s \in Sessions PROVE SeatAhead(s)'
      <3>1. SeatAhead(s)
        BY DEF ProgInv
      <3>2. ASSUME state[s] = "hub", NEW r \in Queued(results') \cup Queued(inbox'), r.name = who[s]
            PROVE  Abreast(r.sheet, store[who[s]])
        BY <1>4, <3>1, <3>2 DEF SeatAhead
      <3>3. Told(who[s]) => Told(who[s])'
        BY <1>4 DEF Told
      <3> HIDE DEF Abreast, Told
      <3> QED BY <1>4, <3>1, <3>2, <3>3 DEF SeatAhead
    <2>2. ASSUME NEW n \in Names PROVE Live(n)' \/ Told(n)'
      <3>1. Live(n) \/ Told(n)
        BY DEF ProgInv
      <3> QED BY <1>4, <3>1 DEF Live, Told
    <2> QED BY <1>1, <1>4, <2>1, <2>2 DEF ProgInv
  <1>5. CASE \E s \in Sessions : SessionStep(s)
    BY <1>5, ProgSession
  <1>6. CASE Drain
    <2>1. inbox = <<>> /\ inbox' = results /\ results' = <<>>
      BY <1>6 DEF Drain, Serving
    <2>2. UNCHANGED <<mode, state, who, char, store, hub, commits, commitBatch>>
      BY <1>6 DEF Drain, loopVars, hubVars
    <2> QED BY <1>2, <1>4, <2>1, <2>2
  <1>7. CASE LoadOne
    <2>1. PICK h \in {hub[Head(loadBatch)], NoSheet} :
              results' = Append(MakeRoom(results, LoadCap), [name |-> Head(loadBatch), sheet |-> h])
      BY <1>7 DEF LoadOne
    <2>2. PICK n \in Names : n = Head(loadBatch)
      <3>1. loadBatch \in Seq(Names) /\ loadBatch # <<>>
        BY <1>1, <1>7 DEF LoadOne, TypeOK
      <3>2. Head(loadBatch) \in Names
        BY <3>1
      <3> QED BY <3>2
    <2>3. PICK r \in Result : r = [name |-> n, sheet |-> h]
      BY <1>1, <2>2 DEF Result
    <2>4. \A x \in Queued(results') : x = r \/ x \in Queued(results)
      BY <1>1, <2>1, <2>2, <2>3, ResultElements
    <2>5. \A s \in Sessions : state[s] = "hub" /\ r.name = who[s] => Abreast(r.sheet, store[who[s]])
      <3>1. r.name = n /\ r.sheet \in {hub[n], NoSheet}
        BY <2>2, <2>3
      <3>2. Abreast(NoSheet, store[n])
        BY DEF Abreast
      <3>3. \A s \in Sessions : state[s] = "hub" => Abreast(hub[who[s]], store[who[s]])
        <4>1. Queued(commitBatch) = {}
          BY <1>2, <1>7 DEF LoadOne, AccInv
        <4>2. ASSUME NEW s \in Sessions, state[s] = "hub"
              PROVE  Told(who[s]) /\ \A e \in Queued(commits) : e.name # who[s]
          BY <4>2 DEF ProgInv, SeatAhead
        <4> QED BY <4>1, <4>2 DEF Told, LastWord
      <3> HIDE DEF Abreast
      <3> QED BY <3>1, <3>2, <3>3
    <2>6. UNCHANGED <<mode, state, who, char, store, hub, commits, commitBatch, inbox>>
      BY <1>7 DEF LoadOne, workerRest, loopVars
    <2> HIDE DEF ProgInv
    <2> QED BY <1>4, <2>4, <2>5, <2>6
  <1>8. CASE Admit
    <2> DEFINE r == Head(inbox)
    <2>1. /\ inbox \in Seq(Result) /\ inbox # <<>> /\ inbox' = Tail(inbox)
          /\ UNCHANGED <<mode, phase, who, store, hub, commits, commitBatch, results>>
      BY <1>1, <1>8 DEF Admit, TypeOK, workerVars, hubVars
    <2>2. r \in Queued(inbox) /\ \A x \in Queued(inbox') : x \in Queued(inbox)
      <3>1. /\ 1 \in DOMAIN inbox /\ r = inbox[1]
            /\ \A i \in DOMAIN Tail(inbox) : i + 1 \in DOMAIN inbox /\ Tail(inbox)[i] = inbox[i + 1]
        BY <2>1
      <3> QED BY <2>1, <3>1 DEF Queued
    <2> HIDE DEF r
    <2>3. CASE UNCHANGED <<char, state>>
      BY <1>4, <2>1, <2>2, <2>3
    <2>4. ASSUME NEW i \in Waiting(r.name),
                 char' = [char EXCEPT ![roster[i]] = Apply(@, r.sheet)],
                 state' = [state EXCEPT ![roster[i]] = "playing"]
          PROVE  ProgInv'
      <3>1. PICK s \in Sessions : s = roster[i] /\ state[s] = "hub" /\ who[s] = r.name
        BY <1>1, <2>4 DEF Waiting, TypeOK
      <3>2. /\ state'[s] = "playing" /\ char'[s] = Apply(char[s], r.sheet)
            /\ \A t \in Sessions : t # s => state'[t] = state[t] /\ char'[t] = char[t]
        BY <1>1, <2>4, <3>1 DEF TypeOK
      <3>3. char[s].xp >= store[who[s]].xp /\ Abreast(r.sheet, store[who[s]])
        BY <2>2, <3>1 DEF ProgInv, SeatAhead
      <3>4. char'[s].xp >= store[who[s]].xp
        BY <3>2, <3>3 DEF Apply, Abreast
      <3>5. ASSUME NEW t \in Sessions PROVE SeatAhead(t)'
        <4>1. CASE t = s
          BY <2>1, <3>2, <3>4, <4>1 DEF SeatAhead
        <4>2. CASE t # s
          <5>1. state'[t] = state[t] /\ char'[t] = char[t] /\ SeatAhead(t)
            BY <3>2, <4>2 DEF ProgInv
          <5>2. Told(who[t]) => Told(who[t])'
            BY <2>1 DEF Told
          <5> HIDE DEF Told
          <5> QED BY <2>1, <2>2, <5>1, <5>2 DEF SeatAhead
        <4> QED BY <4>1, <4>2
      <3>6. ASSUME NEW n \in Names PROVE Live(n)' \/ Told(n)'
        <4>1. CASE Live(n)
          <5>1. PICK t \in Sessions : state[t] \in Named /\ who[t] = n
            BY <4>1 DEF Live
          <5>2. state'[t] \in Named /\ who'[t] = n
            BY <2>1, <3>2, <5>1 DEF Named
          <5> QED BY <5>2 DEF Live
        <4>2. CASE Told(n)
          BY <2>1, <4>2 DEF Told
        <4> QED BY <4>1, <4>2 DEF ProgInv
      <3> QED BY <1>1, <2>1, <3>5, <3>6 DEF ProgInv
    <2> QED BY <1>8, <2>3, <2>4 DEF Admit, r
  \* The worker takes the queue, or the hub stores what was in the batch.
  <1>9. ASSUME UNCHANGED <<mode, state, who, char, store, results, inbox>>,
               Queued(commits') \subseteq Queued(commits),
               \A n \in Names : Told(n) => Told(n)'
        PROVE  ProgInv'
    <2>1. ASSUME NEW s \in Sessions PROVE SeatAhead(s)'
      <3>1. SeatAhead(s)
        BY DEF ProgInv
      <3>2. state[s] = "hub" => Told(who[s])'
        BY <1>3, <1>9, <3>1 DEF SeatAhead
      <3> HIDE DEF Abreast, Told
      <3> QED BY <1>9, <3>1, <3>2 DEF SeatAhead
    <2>2. ASSUME NEW n \in Names PROVE Live(n)' \/ Told(n)'
      <3>1. CASE Live(n)
        BY <1>9, <3>1 DEF Live
      <3>2. CASE Told(n)
        BY <1>9, <3>2
      <3> QED BY <3>1, <3>2 DEF ProgInv
    <2> QED BY <1>1, <1>9, <2>1, <2>2 DEF ProgInv
  <1>10. CASE TakeCommits \/ Refresh
    <2>1. /\ commitBatch = <<>> /\ commitBatch' = commits /\ commits' = <<>>
          /\ UNCHANGED <<mode, state, who, char, store, hub, results, inbox>>
      BY <1>10 DEF TakeCommits, Refresh, workerRest, loopVars, AccInv
    <2>2. \A n \in Names : Told(n) => Told(n)'
      BY <1>2, <2>1 DEF Told, LastWord
    <2> HIDE DEF ProgInv, Told
    <2> QED BY <1>2, <1>9, <2>1, <2>2
  <1>11. CASE CommitOne
    <2>1. /\ commitBatch # <<>> /\ commitBatch' = Tail(commitBatch)
          /\ UNCHANGED <<mode, state, who, char, store, commits, results, inbox>>
          /\ HubStores(Head(commitBatch).name, Head(commitBatch).sheet, Head(commitBatch).stamp)
      BY <1>11 DEF CommitOne, workerRest, loopVars
    <2>2. PICK e \in Commit : e = Head(commitBatch)
      BY <1>1, <2>1
    <2>3. /\ e \in Queued(commitBatch)
          /\ \A x : x \in Queued(commitBatch') <=> x \in Queued(commitBatch) /\ x.name # e.name
      BY <1>1, <2>1, <2>2, PopElements
    <2>4. e.name \in Names /\ e.sheet \in Sheet /\ e.stamp \in Nat
      BY DEF Commit
    <2>5. hub' = [hub EXCEPT ![e.name] = e.sheet]
      <3>1. sent' = [sent EXCEPT ![e.name] = e.stamp]
        BY <2>1, <2>2 DEF HubStores
      <3>2. sent[e.name] \in Nat /\ sent[e.name] < e.stamp /\ sent'[e.name] = e.stamp
        <4>1. PICK i \in DOMAIN commitBatch : commitBatch[i] = e
          BY <2>3 DEF Queued
        <4>2. Between(e, sent, issued)
          BY <4>1 DEF AccInv, Ordered
        <4> QED BY <1>1, <2>4, <3>1, <4>2 DEF Between, TypeOK
      <3>3. arrived # sent'
        BY <1>1, <2>4, <3>2
      <3> QED BY <1>1, <2>1, <2>2, <3>3 DEF HubStores
    <2>6. hub'[e.name] = e.sheet /\ \A n \in Names : n # e.name => hub'[n] = hub[n]
      BY <1>1, <2>4, <2>5
    <2>7. ASSUME NEW n \in Names, Told(n) PROVE Told(n)'
      <3>1. CASE n = e.name
        BY <2>1, <2>3, <2>6, <2>7, <3>1 DEF Told, LastWord
      <3>2. CASE n # e.name
        BY <2>1, <2>3, <2>6, <2>7, <3>2 DEF Told, LastWord
      <3> QED BY <3>1, <3>2
    <2> HIDE DEF ProgInv, Told
    <2> QED BY <1>9, <2>1, <2>3, <2>6, <2>7
  <1>12. CASE Boot
    <2>1. /\ phase = "exited" /\ mode' \in Modes /\ UNCHANGED <<state, who, char, hub, inbox>>
          /\ commits' = <<>> /\ commitBatch' = <<>> /\ results' = <<>>
      BY <1>12 DEF Boot, loopVars, ProgInv
    <2>2. commits = <<>> /\ commitBatch = <<>>
      BY <2>1 DEF ExitInv, AccInv
    <2>3. \A s \in Sessions : state[s] = "gone"
      BY <2>1 DEF BrandInv, Down
    <2>4. PICK files \in Files : store' = Import(store, files)
      BY <1>12 DEF Boot
    <2>5. \A n \in Names : Abreast(hub[n], store[n])
      BY <1>2, <2>2, <2>3 DEF ProgInv, Live, Named, Told, LastWord
    <2>6. \A n \in Names : Abreast(hub'[n], store'[n])
      BY <2>1, <2>4, <2>5 DEF Import, Abreast
    <2>7. \A n \in Names : Told(n)'
      BY <1>2, <2>1, <2>6 DEF Told, LastWord
    <2>8. \A s \in Sessions : SeatAhead(s)'
      BY <2>1, <2>3 DEF SeatAhead
    <2> QED BY <1>1, <2>1, <2>7, <2>8 DEF ProgInv
  <1>13. CASE \E n \in Names : Elsewhere(n)
    <2>1. PICK n \in Names : Elsewhere(n)
      BY <1>13
    <2>2. /\ hub[n] # NoSheet /\ hub' = [hub EXCEPT ![n].xp = @ + 1]
          /\ UNCHANGED <<mode, state, who, char, store, commits, commitBatch, results, inbox>>
      BY <2>1 DEF Elsewhere, workerVars, loopVars
    <2>3. hub[n] \in Sheet /\ hub[n].xp \in Nat
      BY <1>1, <2>2 DEF Sheet
    <2>4. hub'[n].xp = hub[n].xp + 1 /\ \A m \in Names : m # n => hub'[m] = hub[m]
      BY <1>1, <2>2, <2>3 DEF Sheet
    <2>5. \A m \in Names : Abreast(hub[m], store[m]) => Abreast(hub'[m], store[m])
      <3>1. Abreast(hub[n], store[n]) => Abreast(hub'[n], store[n])
        <4>1. CASE store[n] = NoSheet
          BY <2>2, <4>1 DEF Abreast
        <4>2. CASE store[n] # NoSheet
          <5>1. store[n].xp \in Nat
            BY <1>1, <4>2 DEF Sheet
          <5> QED BY <2>2, <2>3, <2>4, <4>2, <5>1 DEF Abreast
        <4> QED BY <4>1, <4>2
      <3> QED BY <2>4, <3>1
    <2>6. \A m \in Names : Told(m) => Told(m)'
      <3> HIDE DEF Abreast
      <3> QED BY <2>2, <2>5 DEF Told, LastWord
    <2>7. ASSUME NEW s \in Sessions PROVE SeatAhead(s)'
      <3>1. SeatAhead(s)
        BY DEF ProgInv
      <3>2. state[s] = "hub" => Told(who[s])'
        BY <1>3, <2>2, <2>6, <3>1 DEF SeatAhead
      <3> HIDE DEF Abreast, Told
      <3> QED BY <2>2, <3>1, <3>2 DEF SeatAhead
    <2>8. ASSUME NEW m \in Names PROVE Live(m)' \/ Told(m)'
      <3>1. Live(m) => Live(m)'
        BY <2>2 DEF Live
      <3> QED BY <2>6, <3>1 DEF ProgInv
    <2> QED BY <1>1, <2>2, <2>7, <2>8 DEF ProgInv
  <1>14. CASE Crash
    BY <1>1, <1>14 DEF Crash
  <1>15. CASE \/ TakeLoads \/ Polled \/ Rest \/ Timeout \/ Return
              \/ Stop \/ BeginJoin \/ Exit \/ UNCHANGED vars
    <2>1. UNCHANGED <<mode, state, who, char, store, hub, commits, commitBatch, results, inbox>>
      BY <1>15 DEF TakeLoads, Polled, Rest, Timeout, Return, workerRest, workerVars, hubVars,
                   loopVars, Stop, BeginJoin, Exit, vars
    <2> HIDE DEF ProgInv
    <2> QED BY <1>4, <2>1
  <1> QED BY <1>5, <1>6, <1>7, <1>8, <1>10, <1>11, <1>12, <1>13, <1>14, <1>15
          DEF Next, Worker, Stopped


\* A login that is admitted writes no row in that step.
LEMMA AdmissionWritesNothing ==
    ASSUME TypeOK, [Next]_vars, NEW s \in Sessions, state[s] \in {"hub", "name"}, state'[s] = "playing"
    PROVE  store' = store
  <1>1. state \in [Sessions -> {"gone", "name", "race", "hub", "playing"}] /\ state'[s] # state[s]
    BY DEF TypeOK
  <1>2. ASSUME NEW t \in Sessions, SessionStep(t)
        PROVE  store' = store
    <2>1. ~Earn(t) /\ ~Pledge(t)
      BY <1>1 DEF Earn, Pledge
    <2>2. ~Close(t)
      BY <1>1 DEF Close
    <2>3. ~HandleRace(t)
      <3>1. ASSUME HandleRace(t) PROVE FALSE
        <4>1. state[t] = "race" /\ t # s
          BY <3>1 DEF HandleRace
        <4>2. who[t] \in Names /\ char[t] \in Sheet
          BY <4>1 DEF TypeOK
        <4>3. state'[s] = state[s]
          BY <3>1, <4>1, <4>2, FinishCarries DEF HandleRace
        <4> QED BY <1>1, <4>3
      <3> QED BY <3>1
    <2>4. Travel(t) => state' = state
      BY DEF Travel, loopVars
    <2>5. (Connect(t) \/ \E n \in Names : HandleName(t, n)) => store' = store
      BY DEF Connect, HandleName
    <2> QED BY <1>1, <1>2, <2>1, <2>2, <2>3, <2>4, <2>5 DEF SessionStep
  <1>3. Boot => state' = state
    BY DEF Boot, loopVars
  <1>4. CASE \/ Drain \/ Admit \/ Stop \/ BeginJoin \/ Exit \/ Crash \/ UNCHANGED vars
             \/ \E n \in Names : Elsewhere(n)
    BY <1>4 DEF Drain, Admit, Stop, BeginJoin, Exit, Crash, Elsewhere, vars
  <1>5. CASE Worker
    BY <1>5 DEF Worker, TakeLoads, LoadOne, TakeCommits, CommitOne, Refresh, Polled, Rest,
           Timeout, Return, workerRest
  <1> QED BY <1>1, <1>2, <1>3, <1>4, <1>5 DEF Next, Stopped

\* The merge at login keeps what was earned here, in a world that goes untroubled, has a
\* hub at every start and room for every wanderer's commit, and where no two live sessions
\* share a name: for any number of sessions, names, restarts and plays in other worlds.
\* (handle_name, commit_hub, flush_pending_loads, flush_pending_commits, apply_hub_sheet.)
THEOREM MergeKeepsProgressUntroubled ==
    ASSUME SharedNames = FALSE, RoomForAll, "local" \notin Modes
    PROVE  Spec /\ [][Untroubled]_vars => MergeKeepsProgress
  <1> DEFINE Inv == BrandInv /\ AccInv /\ ExitInv /\ ProgInv
             Merge == \A s \in Sessions : state[s] \in {"hub", "name"} /\ state'[s] = "playing" =>
                 \A n \in Names : who'[s] = n /\ store[n] # NoSheet => char'[s].xp >= store[n].xp
  <1>1. Init => Inv
    <2> SUFFICES ASSUME Init PROVE Inv
      OBVIOUS
    <2>1. \A s \in Sessions : state[s] = "gone" /\ who[s] = NoName
      BY DEF Init
    <2>2. /\ commits = <<>> /\ commitBatch = <<>> /\ results = <<>> /\ inbox = <<>>
          /\ \A n \in Names : hub[n] = NoSheet /\ sent[n] = 0 /\ issued[n] = 0
          /\ arrived = sent /\ phase = "up" /\ mode \in Modes
      BY DEF Init
    <2>3. BrandInv
      BY <2>1, <2>2, NoNameAssumption DEF BrandInv, OneEach, SeatOK, Down
    <2>4. AccInv /\ ExitInv
      BY ModeAssumption DEF Init, AccInv, ExitInv, Down, Ordered, Carried
    <2>5. Queued(<<>>) = {}
      BY DEF Queued
    <2>6. Rooted /\ \A s \in Sessions : SeatAhead(s)
      BY <2>1, <2>2, <2>5 DEF Rooted, SeatAhead
    <2>7. \A n \in Names : Told(n)
      BY <2>2, <2>5 DEF Told, LastWord, Abreast
    <2> QED BY <2>2, <2>3, <2>4, <2>6, <2>7 DEF ProgInv
  <1>2. TypeInv /\ TypeInv' /\ Inv /\ [Next]_vars /\ [Untroubled]_vars => Inv' /\ [Merge]_vars
    <2> SUFFICES ASSUME TypeInv, TypeInv', Inv, [Next]_vars, Untroubled \/ UNCHANGED vars
                 PROVE  Inv' /\ [Merge]_vars
      OBVIOUS
    <2>1. BrandInv' /\ AccInv' /\ ExitInv'
      BY BrandStep, AccStep, ExitStep
    <2>2. Rooted'
      BY RootedStep DEF ProgInv
    <2>3. Untroubled
      <3>1. ASSUME UNCHANGED vars PROVE Untroubled
        BY <3>1 DEF vars, loopVars, hubVars, ProgInv, Untroubled
      <3> QED BY <3>1
    <2>4. ProgInv'
      BY <2>1, <2>2, <2>3, ProgStep
    <2>5. Merge
      <3> SUFFICES ASSUME NEW s \in Sessions, state[s] \in {"hub", "name"}, state'[s] = "playing",
                          NEW n \in Names, who'[s] = n
                   PROVE  char'[s].xp >= store[n].xp
        OBVIOUS
      <3>1. store' = store
        BY AdmissionWritesNothing DEF TypeInv
      <3>2. SeatAhead(s)'
        BY <2>4 DEF ProgInv
      <3> QED BY <3>1, <3>2 DEF SeatAhead
    <2> QED BY <2>1, <2>4, <2>5
  <1>3. [Merge]_vars => [\A s \in Sessions : state[s] \in {"hub", "name"} /\ state'[s] = "playing" =>
                 \A n \in Names : who'[s] = n /\ store[n] # NoSheet => char'[s].xp >= store[n].xp]_vars
    OBVIOUS
  <1> QED BY <1>1, <1>2, <1>3, TypeCorrect, PTL DEF Spec, MergeKeepsProgress

=============================================================================
