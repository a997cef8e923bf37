------------------------------ MODULE Identity ------------------------------
(***************************************************************************)
(* Who a wanderer is, and the ways that identity is kept: the character a  *)
(* session holds, the row in the local store, and the CharSheet at the     *)
(* Grid hub.  The event loop (one thread: login, play, close, drain) and   *)
(* the federation worker (one thread: loads, commits) share only the       *)
(* queues guarded by worker->mutex; each action below is one handler of    *)
(* the event loop, or one critical section or one RPC of the worker.       *)
(*                                                                         *)
(* A sheet is abstracted to the two fields that are merged differently:    *)
(* xp is overwritten by the hub's value, the ash-sworn brand is or-ed.     *)
(***************************************************************************)
EXTENDS Integers, Sequences

CONSTANTS
    Sessions,      \* connection slots
    Names,         \* wanderers' names, case already folded
    NoName,        \* the name of a session nobody has named yet
    NoSheet,       \* no row in the store, no sheet at the hub, or a failed load
    Modes,         \* how a world runs: "worker", "direct" (the worker failed to start), "local"
    SharedNames,   \* may two live sessions carry one name?
    DiskFails,     \* may hg_store_save fail?
    Legacy,        \* sheets in the files of characters/, from before the database
    LoadCap,       \* HG_MAX_PENDING_LOADS
    CommitCap,     \* HG_MAX_PENDING_COMMITS
    MaxLogins, MaxDeeds, MaxBoots   \* bounds on what players and operators do

ASSUME ModeAssumption == Modes \subseteq {"worker", "direct", "local"}
ASSUME FlagAssumption == SharedNames \in BOOLEAN /\ DiskFails \in BOOLEAN
ASSUME CapAssumption  == LoadCap \in Nat \ {0} /\ CommitCap \in Nat \ {0}
ASSUME BoundAssumption == MaxLogins \in Nat /\ MaxDeeds \in Nat /\ MaxBoots \in Nat
ASSUME NoNameAssumption == NoName \notin Names

Sheet == [xp : Nat, sworn : BOOLEAN]
Blank == [xp |-> 0, sworn |-> FALSE]            \* hg_character_new

ASSUME NoSheetAssumption == NoSheet \notin Sheet
ASSUME LegacyAssumption == Legacy \subseteq Sheet

VARIABLES
    mode,         \* how this run of the world turned out, fixed when it starts
    \* the event loop
    phase,        \* "up", "closing", "joining", "exited" or "crashed"
    state,        \* hg_session_state of each slot, "gone" when not connected
    who, char,    \* the session's character: its name and its sheet
    roster,       \* server->sessions, newest first
    inbox,        \* load results copied out of the worker, being applied
    \* the local database
    store,
    \* the worker thread and the queues under its mutex
    pc, stage, stop,
    loads, loadBatch, results, commits, commitBatch,
    \* the hub, and what its order of arrival looks like from this world
    hub,
    issued, sent, arrived,   \* number of the last commit queued, tried, stored
    \* how much of the bounds has been used
    logins, deeds, boots

loopVars   == <<state, who, char, roster>>
workerVars == <<pc, stage, stop, loads, loadBatch, results, commits, commitBatch>>
hubVars    == <<hub, issued, sent, arrived>>
bounds     == <<logins, deeds, boots>>
vars == <<mode, phase, loopVars, inbox, store, workerVars, hubVars, bounds>>

Queued(q)  == {q[i] : i \in DOMAIN q}
NamesIn(q) == {e.name : e \in Queued(q)}

Commit == [name : Names, sheet : Sheet, stamp : Nat]
Result == [name : Names, sheet : Sheet \cup {NoSheet}]

TypeOK ==
    /\ mode \in {"worker", "direct", "local"}
    /\ phase \in {"up", "closing", "joining", "exited", "crashed"}
    /\ state \in [Sessions -> {"gone", "name", "race", "hub", "playing"}]
    /\ who \in [Sessions -> Names \cup {NoName}]
    /\ char \in [Sessions -> Sheet]
    /\ \A s \in Sessions : state[s] \in {"race", "hub", "playing"} => who[s] \in Names
    /\ roster \in Seq(Sessions)
    /\ inbox \in Seq(Result)
    /\ store \in [Names -> Sheet \cup {NoSheet}]
    /\ pc \in {"off", "test", "loading", "committing", "sleep"}
    /\ stage \in {"loop", "refresh", "polled", "final"}
    /\ stop \in BOOLEAN
    /\ loads \in Seq(Names) /\ loadBatch \in Seq(Names)
    /\ results \in Seq(Result)
    /\ commits \in Seq(Commit) /\ commitBatch \in Seq(Commit)
    /\ hub \in [Names -> Sheet \cup {NoSheet}]
    /\ issued \in [Names -> Nat] /\ sent \in [Names -> Nat] /\ arrived \in [Names -> Nat]
    /\ logins \in Nat /\ deeds \in Nat /\ boots \in Nat

\* Mutant of Import: a file replaces the row of its name.
ImportReplaces(rows, files) ==
    [n \in Names |-> IF files[n] # NoSheet THEN files[n] ELSE rows[n]]

\* hg_store_init, migrate_legacy_json: a row for each file whose name has none.
Import(rows, files) ==
    [n \in Names |-> IF rows[n] = NoSheet THEN files[n] ELSE rows[n]]

\* A directory of such files; an operator may add to it before any start.
Files == [Names -> Legacy \cup {NoSheet}]

Init ==
    /\ mode \in Modes
    /\ phase = "up"
    /\ state = [s \in Sessions |-> "gone"]
    /\ who = [s \in Sessions |-> NoName]
    /\ char = [s \in Sessions |-> Blank]
    /\ roster = <<>>
    /\ inbox = <<>>
    /\ \E files \in Files : store = Import([n \in Names |-> NoSheet], files)
    /\ pc = (IF mode = "worker" THEN "test" ELSE "off")
    /\ stage = "loop"
    /\ stop = FALSE
    /\ loads = <<>> /\ loadBatch = <<>> /\ results = <<>>
    /\ commits = <<>> /\ commitBatch = <<>>
    /\ hub = [n \in Names |-> NoSheet]
    /\ issued = [n \in Names |-> 0]
    /\ sent = [n \in Names |-> 0]
    /\ arrived = [n \in Names |-> 0]
    /\ logins = 0 /\ deeds = 0 /\ boots = 0

-----------------------------------------------------------------------------
(* The operations both threads are built from. *)

\* A full queue forgets its oldest entry to take a new one.
MakeRoom(q, cap) == IF Len(q) >= cap THEN Tail(q) ELSE q

\* queue_char_load: one pending load per name.
QueueLoad(q, n) == IF n \in Queued(q) THEN q ELSE Append(MakeRoom(q, LoadCap), n)

\* Mutant of QueueCommit: the pending sheet stays, the newer one is dropped.
QueueCommitKeepsOld(q, c) ==
    IF c.name \in NamesIn(q) THEN q ELSE Append(MakeRoom(q, CommitCap), c)

\* commit_hub, worker side: a newer sheet takes the pending one's place.
QueueCommit(q, c) ==
    IF c.name \in NamesIn(q)
    THEN [i \in DOMAIN q |-> IF q[i].name = c.name THEN c ELSE q[i]]
    ELSE Append(MakeRoom(q, CommitCap), c)

\* apply_hub_sheet: the hub's xp wins, the brand is only ever added.
Apply(c, h) == IF h = NoSheet THEN c ELSE [xp |-> h.xp, sworn |-> c.sworn \/ h.sworn]

\* pthread_cond_signal after a push: a sleeping worker runs again.
Signal == pc' = IF pc = "sleep" THEN "test" ELSE pc

\* hg_store_save: an upsert of the whole row; callers ignore a failure.
Save(n, c) ==
    \/ store' = [store EXCEPT ![n] = c]
    \/ DiskFails /\ UNCHANGED store

\* commitCharacter at the hub, as this world sees it: stored, or the RPC failed.
HubStores(n, c, stamp) ==
    /\ sent' = [sent EXCEPT ![n] = stamp]
    /\ \/ /\ hub' = [hub EXCEPT ![n] = c]
          /\ arrived' = [arrived EXCEPT ![n] = stamp]
       \/ UNCHANGED <<hub, arrived>>

\* commit_hub: queued for the worker, sent at once without one, dropped locally.
CommitHub(n, c) ==
    LET stamp == issued[n] + 1 IN
    \/ /\ mode = "worker"
       /\ commits' = QueueCommit(commits, [name |-> n, sheet |-> c, stamp |-> stamp])
       /\ issued' = [issued EXCEPT ![n] = stamp]
       /\ Signal
       /\ UNCHANGED <<hub, sent, arrived>>
    \/ /\ mode = "direct"
       /\ issued' = [issued EXCEPT ![n] = stamp]
       /\ HubStores(n, c, stamp)
       /\ UNCHANGED <<commits, pc>>
    \/ /\ mode = "local"
       /\ UNCHANGED <<commits, pc, hubVars>>

\* The sessions list: pushed at the head, unlinked on close.
Register(s) == roster' = <<s>> \o roster
Unlink(q, s) ==
    IF s \in Queued(q)
    THEN LET k == CHOOSE i \in DOMAIN q : q[i] = s
         IN  SubSeq(q, 1, k - 1) \o SubSeq(q, k + 1, Len(q))
    ELSE q

\* The event loop runs handlers only between two drains, never inside one.
Serving == phase = "up" /\ inbox = <<>>

-----------------------------------------------------------------------------
(* The event loop. *)

\* LWS_CALLBACK_ESTABLISHED
Connect(s) ==
    /\ Serving /\ logins < MaxLogins
    /\ state[s] = "gone"
    /\ state' = [state EXCEPT ![s] = "name"]
    /\ logins' = logins + 1
    /\ UNCHANGED <<mode, phase, who, char, roster, inbox, store, workerVars, hubVars, deeds, boots>>

\* finish_login: wait for the worker's load, or merge and play at once.
FinishLogin(s, n, c) ==
    \/ /\ mode = "worker"
       /\ state' = [state EXCEPT ![s] = "hub"]
       /\ char' = [char EXCEPT ![s] = c]
       /\ loads' = QueueLoad(loads, n)
       /\ Signal
    \/ /\ mode # "worker"
       /\ state' = [state EXCEPT ![s] = "playing"]
       /\ \/ char' = [char EXCEPT ![s] = c]
          \/ mode = "direct" /\ char' = [char EXCEPT ![s] = Apply(c, hub[n])]
       /\ UNCHANGED <<loads, pc>>

\* Mutant of HandleName: the race is asked for before the name is copied.
HandleNameUnnamed(s, n) ==
    /\ Serving /\ state[s] = "name"
    /\ store[n] = NoSheet
    /\ state' = [state EXCEPT ![s] = "race"]
    /\ UNCHANGED <<mode, phase, who, char, roster, inbox, store, workerVars, hubVars, bounds>>

\* handle_name: a stored wanderer resumes, an unknown one is asked for a race.
HandleName(s, n) ==
    /\ Serving /\ state[s] = "name"
    /\ SharedNames \/ \A t \in Sessions : who[t] # n
    /\ who' = [who EXCEPT ![s] = n]
    /\ \/ /\ store[n] # NoSheet
          /\ FinishLogin(s, n, store[n])
          /\ Register(s)
       \/ /\ store[n] = NoSheet
          /\ state' = [state EXCEPT ![s] = "race"]
          /\ char' = [char EXCEPT ![s] = Blank]
          /\ UNCHANGED <<roster, loads, pc>>
    /\ UNCHANGED <<mode, phase, inbox, store, stage, stop, loadBatch, results, commits,
                   commitBatch, hubVars, bounds>>

\* handle_race: the new row must be stored before the login goes on.
HandleRace(s) ==
    /\ Serving /\ state[s] = "race"
    /\ store' = [store EXCEPT ![who[s]] = char[s]]
    /\ FinishLogin(s, who[s], char[s])
    /\ Register(s)
    /\ UNCHANGED <<mode, phase, who, inbox, stage, stop, loadBatch, results, commits,
                   commitBatch, hubVars, bounds>>

\* combat_round and the verbs that save progress but leave the hub alone.
Earn(s) ==
    /\ Serving /\ deeds < MaxDeeds
    /\ state[s] = "playing"
    /\ LET c == [char[s] EXCEPT !.xp = @ + 1] IN
       /\ char' = [char EXCEPT ![s] = c]
       /\ Save(who[s], c)
    /\ deeds' = deeds + 1
    /\ UNCHANGED <<mode, phase, state, who, roster, inbox, workerVars, hubVars, logins, boots>>

\* cmd_join and dais_pledge by one of the hunted: branded, saved, committed.
Pledge(s) ==
    /\ Serving /\ deeds < MaxDeeds
    /\ state[s] = "playing"
    /\ LET c == [char[s] EXCEPT !.sworn = TRUE] IN
       /\ char' = [char EXCEPT ![s] = c]
       /\ Save(who[s], c)
       /\ CommitHub(who[s], c)
    /\ deeds' = deeds + 1
    /\ UNCHANGED <<mode, phase, state, who, roster, inbox, stage, stop, loads, loadBatch,
                   results, commitBatch, logins, boots>>

\* cmd_travel: saved and committed; the session is told it is let go, and stays.
Travel(s) ==
    /\ Serving /\ deeds < MaxDeeds
    /\ state[s] = "playing"
    /\ Save(who[s], char[s])
    /\ CommitHub(who[s], char[s])
    /\ deeds' = deeds + 1
    /\ UNCHANGED <<mode, phase, loopVars, inbox, stage, stop, loads, loadBatch, results,
                   commitBatch, logins, boots>>

\* LWS_CALLBACK_CLOSED: only a playing session leaves anything behind.
Close(s) ==
    /\ Serving \/ phase = "closing"
    /\ state[s] # "gone"
    /\ \/ state[s] = "playing" /\ Save(who[s], char[s]) /\ CommitHub(who[s], char[s])
       \/ state[s] # "playing" /\ UNCHANGED <<store, commits, pc, hubVars>>
    /\ state' = [state EXCEPT ![s] = "gone"]
    /\ who' = [who EXCEPT ![s] = NoName]
    /\ char' = [char EXCEPT ![s] = Blank]
    /\ roster' = Unlink(roster, s)
    /\ UNCHANGED <<mode, phase, inbox, stage, stop, loads, loadBatch, results, commitBatch, bounds>>

\* drain_char_load_results, under the mutex: every result is taken at once.
Drain ==
    /\ Serving /\ results # <<>>
    /\ inbox' = results
    /\ results' = <<>>
    /\ UNCHANGED <<mode, phase, loopVars, store, pc, stage, stop, loads, loadBatch, commits,
                   commitBatch, hubVars, bounds>>

\* Where the sessions that wait for the hub under this name stand in the list.
Waiting(n) == {i \in DOMAIN roster : state[roster[i]] = "hub" /\ who[roster[i]] = n}

\* drain_char_load_results, the loop: a result admits the first session that
\* waits for it, and no other.
Admit ==
    /\ phase = "up" /\ inbox # <<>>
    /\ LET r == Head(inbox) IN
       \/ \E i \in Waiting(r.name) :
             /\ \A j \in Waiting(r.name) : i <= j
             /\ char' = [char EXCEPT ![roster[i]] = Apply(@, r.sheet)]
             /\ state' = [state EXCEPT ![roster[i]] = "playing"]
       \/ Waiting(r.name) = {} /\ UNCHANGED <<char, state>>
    /\ inbox' = Tail(inbox)
    /\ UNCHANGED <<mode, phase, who, roster, store, workerVars, hubVars, bounds>>

-----------------------------------------------------------------------------
(* The federation worker: federation_worker_main. *)

workerRest == <<mode, phase, loopVars, inbox, store, issued, bounds>>

\* Mutant of TakeLoads: a stopped worker leaves without its last flush.
TakeLoadsUnlessStopped ==
    /\ pc = "test"
    /\ stage' = (IF stop THEN "final" ELSE "loop")
    /\ loadBatch' = (IF stop THEN loadBatch ELSE loads)
    /\ loads' = (IF stop THEN loads ELSE <<>>)
    /\ pc' = (IF stop THEN "off" ELSE "loading")
    /\ UNCHANGED <<workerRest, stop, results, commits, commitBatch, hub, sent, arrived>>

\* The loop test, and the take of the load queue by flush_pending_loads.
\* After the loop the same flushes run once more ("final").
TakeLoads ==
    /\ pc = "test"
    /\ stage' = (IF stop THEN "final" ELSE "loop")
    /\ loadBatch' = loads
    /\ loads' = <<>>
    /\ pc' = "loading"
    /\ UNCHANGED <<workerRest, stop, results, commits, commitBatch, hub, sent, arrived>>

\* Mutant of LoadOne: a failed load is not reported to the event loop.
LoadOneSilent ==
    /\ pc = "loading" /\ loadBatch # <<>>
    /\ \/ results' = Append(MakeRoom(results, LoadCap),
                            [name |-> Head(loadBatch), sheet |-> hub[Head(loadBatch)]])
       \/ UNCHANGED results
    /\ loadBatch' = Tail(loadBatch)
    /\ UNCHANGED <<workerRest, pc, stage, stop, loads, commits, commitBatch, hub, sent, arrived>>

\* One loadCharacter: the hub answers (NoSheet: nothing found), or fails.
LoadOne ==
    /\ pc = "loading" /\ loadBatch # <<>>
    /\ \E h \in {hub[Head(loadBatch)], NoSheet} :
         results' = Append(MakeRoom(results, LoadCap),
                           [name |-> Head(loadBatch), sheet |-> h])
    /\ loadBatch' = Tail(loadBatch)
    /\ UNCHANGED <<workerRest, pc, stage, stop, loads, commits, commitBatch, hub, sent, arrived>>

\* take_pending_commits, after the loads of the same flush.
TakeCommits ==
    /\ pc = "loading" /\ loadBatch = <<>>
    /\ commitBatch' = commits
    /\ commits' = <<>>
    /\ pc' = "committing"
    /\ UNCHANGED <<workerRest, stage, stop, loads, loadBatch, results, hub, sent, arrived>>

\* Mutant of CommitOne: a commit that failed is queued again, behind newer ones.
CommitOneRequeues ==
    /\ pc = "committing" /\ commitBatch # <<>>
    /\ LET c == Head(commitBatch) IN
       /\ HubStores(c.name, c.sheet, c.stamp)
       /\ commits' = IF UNCHANGED arrived THEN Append(MakeRoom(commits, CommitCap), c) ELSE commits
    /\ commitBatch' = Tail(commitBatch)
    /\ UNCHANGED <<workerRest, pc, stage, stop, loads, loadBatch, results>>

\* One commitCharacter of flush_pending_commits; its result is ignored.
CommitOne ==
    /\ pc = "committing" /\ commitBatch # <<>>
    /\ LET c == Head(commitBatch) IN HubStores(c.name, c.sheet, c.stamp)
    /\ commitBatch' = Tail(commitBatch)
    /\ UNCHANGED <<workerRest, pc, stage, stop, loads, loadBatch, results, commits>>

\* A poll is due: federation_refresh_caches takes the commits once more.
Refresh ==
    /\ pc = "committing" /\ commitBatch = <<>> /\ stage = "loop"
    /\ stage' = "refresh"
    /\ commitBatch' = commits
    /\ commits' = <<>>
    /\ UNCHANGED <<workerRest, pc, stop, loads, loadBatch, results, hub, sent, arrived>>

\* After the refresh, loads and commits are flushed again.
Polled ==
    /\ pc = "committing" /\ commitBatch = <<>> /\ stage = "refresh"
    /\ stage' = "polled"
    /\ loadBatch' = loads
    /\ loads' = <<>>
    /\ pc' = "loading"
    /\ UNCHANGED <<workerRest, stop, results, commits, commitBatch, hub, sent, arrived>>

\* Mutant of Rest: the worker waits without looking for work under the mutex.
RestBlind ==
    /\ pc = "committing" /\ commitBatch = <<>> /\ stage \in {"loop", "polled"}
    /\ pc' = "sleep"
    /\ UNCHANGED <<workerRest, stage, stop, loads, loadBatch, results, commits,
                   commitBatch, hub, sent, arrived>>

\* The timed wait: entered under the mutex, and only without work or a stop.
Rest ==
    /\ pc = "committing" /\ commitBatch = <<>> /\ stage \in {"loop", "polled"}
    /\ pc' = IF stop \/ loads # <<>> \/ commits # <<>> THEN "test" ELSE "sleep"
    /\ UNCHANGED <<workerRest, stage, stop, loads, loadBatch, results, commits,
                   commitBatch, hub, sent, arrived>>

\* The 200 ms deadline passes.
Timeout ==
    /\ pc = "sleep"
    /\ pc' = "test"
    /\ UNCHANGED <<workerRest, stage, stop, loads, loadBatch, results, commits,
                   commitBatch, hub, sent, arrived>>

\* The thread returns.
Return ==
    /\ pc = "committing" /\ commitBatch = <<>> /\ stage = "final"
    /\ pc' = "off"
    /\ UNCHANGED <<workerRest, stage, stop, loads, loadBatch, results, commits,
                   commitBatch, hub, sent, arrived>>

Worker == \/ TakeLoads \/ LoadOne \/ TakeCommits \/ CommitOne
          \/ Refresh \/ Polled \/ Rest \/ Timeout \/ Return

-----------------------------------------------------------------------------
(* The process: hg_server_stop, the end of hg_server_run, a crash, a boot. *)

\* SIGINT or SIGTERM: the service loop ends, lws_context_destroy closes sessions.
Stop ==
    /\ Serving
    /\ phase' = "closing"
    /\ UNCHANGED <<mode, loopVars, inbox, store, workerVars, hubVars, bounds>>

\* Mutant of BeginJoin: the worker is joined without being told to stop.
BeginJoinUnasked ==
    /\ phase = "closing" /\ \A s \in Sessions : state[s] = "gone"
    /\ phase' = "joining"
    /\ Signal
    /\ UNCHANGED <<mode, loopVars, inbox, store, stage, stop, loads, loadBatch, results,
                   commits, commitBatch, hubVars, bounds>>

\* federation_worker_stop, up to pthread_join.
BeginJoin ==
    /\ phase = "closing" /\ \A s \in Sessions : state[s] = "gone"
    /\ phase' = "joining"
    /\ stop' = (mode = "worker")
    /\ Signal
    /\ UNCHANGED <<mode, loopVars, inbox, store, stage, loads, loadBatch, results, commits,
                   commitBatch, hubVars, bounds>>

\* pthread_join returned, the store is closed, hg_server_run returns.
Exit ==
    /\ phase = "joining" /\ pc = "off"
    /\ phase' = "exited"
    /\ UNCHANGED <<mode, loopVars, inbox, store, workerVars, hubVars, bounds>>

\* The process dies: only the database and the hub keep what they have.
Crash ==
    /\ phase \in {"up", "closing", "joining"} /\ boots < MaxBoots
    /\ phase' = "crashed"
    /\ state' = [s \in Sessions |-> "gone"]
    /\ who' = [s \in Sessions |-> NoName]
    /\ char' = [s \in Sessions |-> Blank]
    /\ roster' = <<>>
    /\ inbox' = <<>>
    /\ pc' = "off"
    /\ loads' = <<>> /\ loadBatch' = <<>> /\ results' = <<>>
    /\ commits' = <<>> /\ commitBatch' = <<>>
    /\ UNCHANGED <<mode, store, stage, stop, hubVars, bounds>>

\* hg_server_run again: a fresh worker, the same rows, and the import once more.
\* What a crash lost is no longer owed to the hub.
Boot ==
    /\ phase \in {"exited", "crashed"} /\ boots < MaxBoots
    /\ boots' = boots + 1
    /\ phase' = "up"
    /\ mode' \in Modes
    /\ pc' = (IF mode' = "worker" THEN "test" ELSE "off")
    /\ stage' = "loop"
    /\ stop' = FALSE
    /\ loads' = <<>> /\ loadBatch' = <<>> /\ results' = <<>>
    /\ commits' = <<>> /\ commitBatch' = <<>>
    /\ sent' = issued
    /\ \E files \in Files : store' = Import(store, files)
    /\ UNCHANGED <<loopVars, inbox, hub, issued, arrived, logins, deeds>>

\* The stop of a process nobody starts again.
Stopped == phase \in {"exited", "crashed"} /\ UNCHANGED vars

\* The wanderer plays in another world, which commits a newer sheet.
Elsewhere(n) ==
    /\ deeds < MaxDeeds /\ hub[n] # NoSheet
    /\ hub' = [hub EXCEPT ![n].xp = @ + 1]
    /\ deeds' = deeds + 1
    /\ UNCHANGED <<mode, phase, loopVars, inbox, store, workerVars, issued, sent, arrived,
                   logins, boots>>

SessionStep(s) ==
    \/ Connect(s) \/ HandleRace(s) \/ Earn(s) \/ Pledge(s) \/ Travel(s) \/ Close(s)
    \/ \E n \in Names : HandleName(s, n)

Next ==
    \/ \E s \in Sessions : SessionStep(s)
    \/ Drain \/ Admit
    \/ Worker
    \/ Stop \/ BeginJoin \/ Exit \/ Crash \/ Boot \/ Stopped
    \/ \E n \in Names : Elsewhere(n)

Spec == Init /\ [][Next]_vars

\* The worker thread runs and its RPCs time out; the service loop polls every
\* 50 ms; a shutdown closes what is open.  Players owe nothing.
Fairness ==
    /\ WF_vars(Worker)
    /\ WF_vars(Drain) /\ WF_vars(Admit)
    /\ WF_vars(BeginJoin) /\ WF_vars(Exit)
    /\ \A s \in Sessions : WF_vars(phase = "closing" /\ Close(s))

FairSpec == Spec /\ Fairness

-----------------------------------------------------------------------------
(* Properties. *)

\* A waiting login is never forgotten: its load is queued, with the worker, or
\* answered.  (queue_char_load's dedup and the two bounded queues of loads.)
LoadAccounted ==
    \A s \in Sessions : state[s] = "hub" =>
        \/ who[s] \in Queued(loads) \cup Queued(loadBatch)
        \/ who[s] \in NamesIn(results) \cup NamesIn(inbox)

\* The newest sheet committed for a name has been tried at the hub, or is still
\* on its way there, whatever was coalesced before it.  (commit_hub,
\* take_pending_commits; a queue that holds every name drops none.)
NewestCommitAccounted ==
    phase # "crashed" => \A n \in Names :
        \/ sent[n] = issued[n]
        \/ \E c \in Queued(commits) \cup Queued(commitBatch) :
              c.name = n /\ c.stamp = issued[n]

\* An orderly shutdown leaves no commit behind, although sessions are still
\* closed, and their sheets queued, after the service loop has ended.
\* (lws_context_destroy before federation_worker_stop; the worker's last flush.)
NothingOwedAtExit == phase = "exited" => sent = issued

\* The worker never sleeps on work: the test for work and the wait are one
\* critical section, and every push signals.  (federation_has_work_locked.)
NoSleepOnWork == pc = "sleep" => loads = <<>> /\ commits = <<>> /\ ~stop

\* The hub never receives a name's older sheet after a newer one, across
\* coalescing, batches, overflow and restarts.  (One worker, queues in order.)
CommitsInOrder == [][\A n \in Names : arrived'[n] >= arrived[n]]_vars

\* The stored brand is write-once: "the ash does not wash off; it never will".
\* Every later save writes a character that was loaded with it.
BrandKept ==
    [][\A n \in Names : store[n] # NoSheet /\ store[n].sworn =>
          store'[n] # NoSheet /\ store'[n].sworn]_vars

\* A merge at login never takes back what the wanderer has earned here.
\* ("Canonical CharSheet merge on login / commit on disconnect+travel".)
MergeKeepsProgress ==
    [][\A s \in Sessions : state[s] \in {"hub", "name"} /\ state'[s] = "playing" =>
          \A n \in Names : who'[s] = n /\ store[n] # NoSheet => char'[s].xp >= store[n].xp]_vars

\* The hub never gates play: every login ends, admitted or gone, whatever the
\* hub does.
LoginCompletes == \A s \in Sessions : state[s] = "hub" ~> state[s] # "hub"

\* A stop signal ends the process: the join does not wait for ever.
ShutdownEnds == phase \in {"closing", "joining"} ~> phase \in {"exited", "crashed"}

=============================================================================
