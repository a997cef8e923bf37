# Hollow Grid: a TLA+ model of the world server

Hollow Grid is a multi-user text world: one C process (`src/src`) serves
WebSocket sessions from a single-threaded event loop, keeps its characters in a
SQLite file, and, when it is given the URL of a hub, federates with other worlds
through that hub by means of a second thread. This directory holds TLA+ modules
translated from that code, TLC configurations, and TLAPS proofs.

## 1. Inventory

Paths are relative to `src/src` unless said otherwise. `server.c` is
`transport/server.c` (4928 lines), which holds most of the program's logic.

### Threads and shared state

* The **event loop** (`hg_server_run`, `callback`) runs every handler: connect,
  login, commands, heartbeat ticks, close. It owns `hg_server` (sessions, caches,
  deeds, forgiven pairs, rescued, fallen, cages, tide, the cast ring) and the
  `hg_character` of every session.
* The **federation worker** (`federation_worker_main`) owns the RPCs. Its struct
  `hg_federation_worker` holds queues filled by the event loop (`commits`,
  `loads`, `out_casts`, `fallens`, `tide_delta`, a prune request) and answers read
  by it (`load_results`, `casts`, `tide`, worlds, presence, ledger, the prune
  result). All of it is guarded by one mutex; a condition variable wakes the
  worker, which otherwise wakes every 200 ms and polls the hub every 2 s.
* Each RPC (`grid/remote.c`) is a blocking HTTP request with a time limit. An
  RPC that fails may or may not have been applied at the hub.
* `worker_start` may fail: the world then goes on "with direct RPC only", the
  event loop making the RPCs itself. Without a hub it runs locally.

### Components

| component | state | operations | what is hard | what makes it correct |
|---|---|---|---|---|
| **Identity** (server.c 480-504, 590-620, 994-1061, 1445-1466, 1783-1864, 2718-2783, 4774-4850; store.c) | sessions and their characters, store rows, load and commit queues, the hub's sheets | connect, name, race, wait for the hub, play, travel, close, drain; worker's loads and commits; stop, crash, start | three copies of a character; two threads; failed RPCs and saves; a queue that coalesces and overflows; a shutdown that produces work | no login forgotten, newest commit tracked, in order, none left at exit, the brand never lost, login and shutdown end |
| **Gridcasts** (901-928, 506-544, 629-656, 1112-1166, 2681-2716) | outgoing queue, fetched rows, buffer, cursor, local ring, last id | gridcast, send, fetch, store, poll | full buffers, cursor against stored rows, failed sends, three modes | the hub's log heard in order, once, all of it; own casts in order |
| **Tide** (506-553, 695-701, 869-899, 1129-1148, 2029-2041) | own tide, pending sum, hub's tide | shift, flush, poll, adopt, stop | the sum is taken and lost on failure; stale answers overwrite; clamps on both sides | every shift counted once; none left at the end; convergence |
| **Ledger and prune** (368-391, 555-588, 843-867, 1020-1110, 3368-3430) | traces, pending fallen, one prune request and one result | record, prune, flush, drain | a one-slot request and a one-slot result shared by admins; a queue that overflows | deaths in order and the newest never forgotten; answers to who asked, once, and to the newest ask in the end |
| **Presence, worlds, ledger caches** (629-720) | snapshots copied under the mutex | refresh, read | staleness | a whole snapshot or none |
| **Moral arc** (2147-2571, 3697-3824) | faction, brand, morality, titles; deeds and forgiven pairs | join, defend, pledge, defect, forgive, witness, dust | order of legal acts; bounded tables; per-session guards | the brand write-once; the Returned granted at most once and never to a branded one |
| **Economy** (3005-3127, 3129-3205, 3697-3824; `world/items.c`) | gold, packs, caches, the wielded weapon | cache, gather, give, treat, buy, sell, use | full packs, one of two saves failing, gold between sessions | items and gold are moved, not made |
| **Combat** (1884-2003, 4212-4256, `world/world.c`) | creatures shared by sessions, hp, targets, death | attack, tick, walk, recall, heal, die | several sessions on one creature, each on its own heartbeat | one kill, one reward; nobody dead on disk; fights end, and nobody fights what is not there |
| **Rescue** (1168-1340, 3432-3556) | cages and their refill times, the warden's grace, rescued, saved souls | free, shelter, refill | timers against several wanderers; bounded rolls | cages open once per refill, the captive goes free in the grace, the rolls agree |
| **World map** (`world/world.c`) | rooms, exits, creatures | look, move, seed | none concurrent | exits lead to rooms; nobody stands nowhere |
| **Character store** (`store/store.c`) | rows; legacy JSON files | load, save, import | a crash during import; import at each start | an import never replaces a played row |
| **Session transport** (308-364, 4774-4850) | input buffer, outgoing list | receive, write, tick | fragments of a message; a bounded buffer | a command is of one message; what is queued is sent |
| **Hub client** (`grid/remote.c`) | curl handle | one request per call | time limits, partial answers | an outcome for each call |
| **Events, HTTP endpoints** (`event/event.c`, server.c), **command line** (`main.c`) | none | formatting, parsing | none | not modelled |

The components meet in few places: every verb that changes a character *saves*
(store) and, for some, *commits* (Identity); oaths and stands *shift the tide*;
kills and rescues *record traces* and *the fallen*, which the same worker turn
flushes that sends casts, commits and the tide.

## 2. How the project is organised

| module | extends | proofs | what is in it |
|---|---|---|---|
| `Identity` | | `Identity_proofs` | login, merge, commit, the worker's loop, the life of the process, the import |
| `CastFeed`, `Casts` | `Casts` is shown to implement `CastFeed` | `Casts_proofs` | the promise about gridcasts, and how it is kept |
| `Tide` | | `Tide_proofs` | the war's tide |
| `Arc`, `MoralArc` | `MoralArc` is shown to implement `Arc` | `MoralArc_proofs` | straying and the return |
| `Economy` | | `Economy_proofs`, `Induction` | gold and things |
| `WorldMap` | | | rooms, exits, creatures |
| `Combat` | `WorldMap` | | fights over shared creatures |
| `Rescue` | `Combat` | `Rescue_proofs`, `Induction` | captives, cages, rolls |
| `SessionIO` | | | fragments, commands, lines |
| `Ledger` | | | deaths and prunes, here and at the hub |
| `Keeper` | `SessionIO`, `Ledger` | `Keeper_proofs` | both together: commands ask, answers are lines |

`MC*` modules and `*.cfg` are the instances that TLC checks. The modules take `CONSTANTS` for
capacities, with their assumptions named; those that do not extend each other use a save or a
commit of `Identity` only as "the row is written". No module that is proved about uses a
recursive operator. `Induction` has no model: it is what the proofs about folds need (section 6).

What a further step would take up: saves that fail in `MoralArc` and `Economy`; titles and the
vigil's table of kept pairs; the trace ring; the wielded weapon, in `Economy` and `Combat`
together.

## 3. The modules and the code

### Identity

One action per handler of the event loop, per critical section of the worker,
and per RPC. `phase` is the life of the process; `state`, `who` and `char` are the
session's state and character; `roster` the `sessions` list, whose order decides
which session a result admits. `pc` and `stage` are the worker's place in
`federation_worker_main`: loads, commits, then when a poll is due
(`Refresh`, `Polled`) commits again, loads and commits once more, then the
test and the timed wait as one step (`Rest`), since the mutex is held between them.
`inbox` holds the load results that `drain_char_load_results` has copied out and
applies one after the other; no other handler runs meanwhile (`Serving`).

A sheet is `[xp, sworn]`: one field the hub's answer overwrites, one it is or-ed
with (`apply_hub_sheet`); the other fields behave like one of the two. `Save` is
the upsert of the row, whose failure the callers ignore (`DiskFails`).
`HandleRace` is the exception: the code checks that save. `issued`, `sent` and
`arrived` number the commits of a name and are what the properties speak of; no
guard reads them.

`Pledge` is `cmd_join` and `dais_pledge` by one of the hunted (brand, save,
commit); `Earn` stands for the verbs that save without a commit; `Travel` for
those that save and commit what they have. `Elsewhere` is another world's
commit. A crash keeps the database and the hub only; `Boot` starts a process in any mode. Each start
imports the files of `characters/` (`Import`): a name without a row gets its file's sheet, a row that is
there stays (`INSERT OR IGNORE`). The files are chosen anew at each start, since nothing removes them and
an operator may add some. A file whose name is not a folded name makes a row that nobody looks up, and
is left out like the files that do not parse.

### CastFeed and Casts

`CastFeed` is what a wanderer may rely on: a log that grows, and a prefix of it
heard. `Casts` has the outgoing queue (oldest dropped when full, cast refused only
when the hub is known to be down), the flush, the ping, `castsSince` from the cursor,
rows stored while the buffer has room, and the poll. The feed is `INSTANCE
CastFeed WITH heard <- the log's rows at the delivered ids, lives <- restarts`. A
world without worker delivers its own ring only (`PollRing`), so the mapping
shows it with nothing heard; `CarriedToEveryWorld` says what that means. `Restart` is the death of a
process with a hub and the start of the next, whose worker may start or not: `last_cast_id`, where the
cursor starts, is 0 again, so the log is heard again from its beginning, and what was queued is lost.
A world without a hub keeps its only log in memory and is not restarted.

### Tide

The world's tide, the sum in the worker, the batch taken, an answer not yet
stored, the hub's tide. Each RPC is applied and answered, applied and
unanswered, or lost. `given`, `applied` and `lost` are sums that only the properties read.

### Arc and MoralArc

`Arc` is the promise: per wanderer, steady, then strayed, then back, each step once, and
the name of the Returned given only on the way back, to who is then neither branded nor of
the Front. `MoralArc` has one action per verb that touches standing. `Deed` is the shape
most of them share (`cmd_join`, `cmd_defend`, `dais_pledge`, `dais_defect`, the two ways to
free, `steal`): change the character, save, then `moral_arc`, which may mark and save again;
the process may die between the two saves. `Forgive` decides the return itself and does not
look at the morality. `SmallGood` (`cmd_witness`, `cmd_cache`) saves and is not judged;
`Dose` (dust) is neither clamped nor judged. `Login` merges any sheet of `Sheets` or none,
which covers every hub that answers, late or not at all. `resolved` is a field of the session and the
forgiven table one of the process: `Close` resets the first, `Crash` both. Rooms are
those where a verb is possible. `grants` counts the event of the return, and `given` what a
process let each pair do; no guard reads them.

### Economy

`pack` is a set of things, each with a kind and an identity (who brought it into the world,
and the how-manieth it was): the code has names of kinds only, and the identities are there so that
"the same thing twice" can be said. `Become` is the common verb: change the character,
save. `GiveSaves` has the two saves of a gift and the crash between them. `Login` includes
what `character_from_json` does to an empty pack. The caches are a function of the rooms: the
table has 32 places for a world of at most 24 rooms, so it is never full. `wealth` is the
sum the properties compare with: each action adds what comes in and takes what goes out,
and a crash takes what was in the caches. `Earn` is coin from outside (`steal`, two races' abilities).

### WorldMap, Combat and Rescue

`WorldMap` has the whole table of `world.c`: every exit, and the creatures that are seeded. What the
rest of the code takes for granted (an exit leads to a room, and another one back; directions are
unambiguous; every room can be walked to; nothing is born dead) are assumptions by name, which TLC
evaluates when it checks `Rescue`.

`Combat` has one action per handler: `Tick` is `on_tick` whole, with its three cases (the quarry gone, a
round, no fight), after `hg_world_tick_respawns` (`TickRespawns`), which is also the first line of every
command (`Commands`). A round is the blow, and the kill with its reward and save, or the blow back and
perhaps the death; death heals and moves to the Nexus in memory and is not saved. `target`, `mob` and
`slainAt` are fields of the process, `char` of the session, `row` of the store. Time is in seconds. It
passes in strides longer than the heartbeat of two seconds, and every session ticks between two
strides (`due`); a kill makes everyone tick again, which is what the others' next heartbeat does long before a
creature is back. Level and weapon are in `Might`. `Cures` are the hit points that rest, the medic,
an ability or dust may give. Whether one rests is left open, as `position` is not modelled.
`Save` is every other verb that saves, and may lose the vial (give, sell, use).

`Rescue` adds the two places with a timer (`Cages`), the pit behind the warden, and the rolls. A soul is
a number, in the order of freeing. `saved` has a slot per player, bounded in number and length;
`RememberSaved` and `EmitRescued` push one name at a time in the code and several at once here.
`free_holding_pit` reads the world after the returns that the command itself brings about. `opened` and
`booted` are counted for `OncePerRefill` only.

### SessionIO, Ledger and Keeper

`SessionIO` is the callback: `TooLong`, `Gather` and `Complete` are the three ways through
`LWS_CALLBACK_RECEIVE`, `Writeable` sends one line and asks to be called again if there are more. A fragment is its place
in its message and a length; a line is 0, or the number of the ask it answers. `sent` and
`spilt` (what has come of the message, and whether some of it did not fit) and `heard` are not in the code
and no guard of it reads them. What follows a fragment that did not fit is read as a command: the code
does so, and `OneMessage` says precisely what may be executed then.

`Ledger` has the roll of the fallen and its queue for the hub, and the prune: `request` is the flag with the name
in the worker, `pruning` the worker's copy, `result` the slot with its ready flag. Asks and deaths are
numbers, so that order and loss can be spoken of. A second request before the worker takes the first
overwrites it, a second result before the loop drains the first too. `Keeper` composes the two: the
command comes out of a final fragment (`Receive`), is answered at once or by the worker, the poll and the
socket, and a death comes from the timer. `Admit` is what the poll does for who waits for the hub.

### What is assumed of the world outside

* The hub: `commitCharacter` stores the sheet, `loadCharacter` answers the last
  stored, `castsSince` answers the first rows after the id in the order of the
  log, `shiftTide` adds, clamps and answers. These are read off the calls in
  `grid/remote.c` and the uses of their answers.
* An RPC that this world gave up on is applied before its next one or never.
* SQLite: a save is atomic, and either happens or not.
* Names are compared without case, so a name in the model is a folded name.

## 4. Runs

| run | shows | bounds |
|---|---|---|
| `Identity` | types; `LoadAccounted`, `NewestCommitAccounted`, `NothingOwedAtExit`, `NoSleepOnWork`, `CommitsInOrder`, `BrandKept`, in all modes, with failing RPCs and saves, a crash and a restart | 2 slots, 2 names, 3 logins, 2 deeds, 1 restart: a name can be used in both slots in turn, two commits of one name can be in the batch and the queue at once, and each survive a restart; a file of the old format for any name, at either start; the commit queue is as long as the names, the load queue longer by one |
| `IdentityFair` | `LoginCompletes`, `ShutdownEnds` under fairness | 1 name, 3 logins, a commit queue of 1 |
| `IdentityReconnect` | finding: `MergeKeepsProgress` fails | 1 name, 2 logins |
| `IdentityTwinBrand` | finding: `BrandKept` fails with two sessions of a name | 1 name, 2 logins, 1 deed |
| `IdentityTwins` | finding: `LoginCompletes` fails with two sessions of a name | 1 name, 2 logins |
| `Casts` | types and array bounds, `FeedSafety`, `AllIsHeard`, `HeardInOrder`, `SpokenInOrder`, in all modes | 3 casts here, 2 elsewhere, 1 restart, every buffer holds 2: each one overflows or fills |
| `CastsDirect` | finding: `CarriedToEveryWorld` fails without the worker | 1 cast each |
| `MoralArc` | types and the ceiling of morality, `MarksOnDisk`, `ForgivenOnce`, `ArcKept` (refinement of `Arc`) | one hunted and one not, 3 deeds, 3 logins: straying, the Front, defecting and both kinds of return are reached because the hub may answer a sheet close to the floor (sworn) or to the ceiling; the forgiven table holds both pairs |
| `Economy` | types, packs and purses, `OnePlace`, `GoldAccounted`, `AidWaits` | 2 wanderers, packs of 2, 4 deeds, 3 logins: a pack can be full and empty, a thing bought, given and sold, a gift cut short, aid left and found |
| `Tide` | types and scale, `EveryShiftOnce`, `NothingPendingAtEnd`, `TideConverges` | scale -2..2, 3 acts of +1 or -1, 1 elsewhere: both ends are passed |
| `Rescue` | types and array bounds, `FightersFace`, `NobodyDead`, `OneReward`, `NobodyWaits`, `FightEnds`, `RollsAgree`, `OncePerRefill`, `FreedInGrace` | 2 wanderers, the pit and the cells; one falls at the warden's first blow, the other stands one; one needs two blows for the warden, the other one. `MaxNow` 241 and strides of 120: the warden (60 s) is back, the grace (180 s) is over and the cages (240 s) have refilled. 2 rescues of up to 2 souls, rolls of 3 and 2, one player's roll: each fills. One wanderer's pack is full. One crash. `Cures` is one amount that heals anybody wholly |
| `Keeper` | types and array bounds, `OneMessage`, `FallenInOrder`, `AnswersEarned`, `KeeperHears`, in all modes | 2 keepers, one sending in up to 5 fragments, a buffer that holds 2, 3 deaths and asks together, queues of 2: the buffer overflows in and at the end of a message, a queue and a roll overflow, a request and a result are overwritten |

`Identity` uses symmetry of slots and names, `Economy` of wanderers; the runs with liveness do not.
`SharedNames = FALSE` means that no two *live* sessions carry one name: the code does
not enforce it, which is what the two twin runs are about. `Casts`, `Tide` and `Keeper` stop
when their bounds are used up, so deadlock is not checked there; `Identity` has
an explicit `Stopped` step and checks it. In `MoralArc` and `Economy` a process can
always die, so that the check says little there.

Each property of a passing run is paired in `PROJECT.json` with a mutant of a
definition, kept beside the original in the module ("Mutant of ..."), under which
TLC finds the property violated: a test of the properties themselves.

### Fairness

* `WF(Worker)`: a thread the operating system schedules; each of its waits and
  RPCs has a time limit.
* `WF(Drain)`, `WF(Admit)`, `WF(PollBuffer)`, `WF(PollRing)`, `WF(Adopt)`: the service loop calls
  `poll_gridcasts` (which drains the results) at each turn, at least every 50 ms.
* `WF(BeginJoin)`, `WF(Exit)`, `WF` of `Close` while closing: straight-line code
  after the loop.
* `SF(Ping)`, and `SF` of the due refresh in `Tide`: a poll is due every two seconds, whatever else the worker
  does. `SF(FetchAnswered)`, `SF(AskAnswered)`: a hub asked for ever sometimes answers; `AllIsHeard` and
  `TideConverges` would be false of a hub that never does. `LoginCompletes` and `ShutdownEnds` need no such
  assumption.
* `WF` of each `Tick` in `Rescue`: `arm_heartbeat` sets the timer at login and at the end of each tick.
  `FightEnds` needs only that.
* `Keeper`: `WF(Write)` assumes that a peer reads or goes away; `WF(PollPrunes)` is the service loop again,
  `WF(Work)` the worker, whose RPCs have a time limit.
* Players owe nothing.

## 5. Findings

1. **A quick reconnect rolls progress back** (`IdentityReconnect`). In each worker
   turn loads come before commits. A wanderer who closes and logs in while the commit is
   pending is merged with the hub's older sheet, and that xp overwrites the newer local row.
   The same happens after a commit RPC that failed. `MergeKeepsProgressUntroubled` (§6) proves how far it reaches.
2. **Two sessions of one name** are admitted. The later save wins, so a session
   that does not have the brand removes it (`IdentityTwinBrand`), against "the brand
   remains write-once across the federation".
3. **The second of two such logins waits for ever** (`IdentityTwins`): one load,
   one result, one admission.
4. **A world whose worker did not start hears no casts** (`CastsDirect`), although
   it sends them.

## 6. Proofs

All for every value of the constants that the named assumptions of the modules allow.

* `Identity_proofs!TypeCorrect`: the type invariant together with `Distinct`: no two
  entries of the commit queue, nor of the batch, have one name. It is needed because
  `QueueCommit` replaces *every* entry of the name.
* `Identity_proofs!CommitsStayInOrder`: `CommitsInOrder`. The invariant (`Ordered`) is
  the path of a commit: what has arrived of a name is older than what is in the batch or
  the queue, those are not newer than the last issued, and what is in the batch is older
  than what is queued. Overflow and crashes only remove entries, and without a worker both
  are empty, so no capacity, mode or restart disturbs it.
* `Identity_proofs!WorkIsNoticed`: `NoSleepOnWork`, inductive with the types: `pc = "sleep"` is
  entered only without work, and each push leaves it.
* `Identity_proofs!BrandIsForever`: `BrandKept`, assuming `SharedNames = FALSE` (with it `TRUE` the
  run `IdentityTwinBrand` refutes it). The invariant (`BrandInv`) says what a slot knows of its name's row: no row while
  a race is asked for, and a row whose brand the character carries once the login goes on. It needs that
  no two slots have a name (`OneEach`), and that nobody is connected when a boot imports old files.
* `Identity_proofs!NewestIsAccounted`, `NothingLeftBehind`: `NewestCommitAccounted` and `NothingOwedAtExit`,
  assuming `RoomForAll`: the commit queue is as long as there are names. The invariant (`AccInv`) reuses `Ordered`, now
  with what was tried in place of what arrived (a batch entry was never tried before), with the worker's batch empty
  unless it commits; a full queue of distinct other names would be one name too many (the pigeonhole), so none is dropped.
  `ExitInv` adds that the worker's last flush comes after the last session is gone.
* `Identity_proofs!LoginsAreOwed`, `LoginsAreAccounted`: `LoadAccounted`, assuming `SharedNames = FALSE`. The code
  drops the oldest entry of a full queue of loads, or of results, and then a login does wait for ever; so the first
  theorem is `Spec /\ NoLoadForgotten => []LoadAccounted`, where `NoLoadForgotten` says of each step that no such
  entry is dropped, and the second discharges that hypothesis where the queues have room for every login. The invariant of the
  first (`WaitInv`): who waits is in the roster and is owed a result; the worker has loads
  in hand only while it makes those RPCs, and what an admission takes off the results nobody else waits for (`OneEach` again). That of the second (`CountInv`): loads,
  the worker's batch, the results and the connected who have not asked yet are together no more than the logins.
* `Identity_proofs!BrandIsForeverAtTheHub`: the hub's sheet does not lose the brand either ("the brand remains
  write-once across the federation"), assuming `SharedNames = FALSE` and `DiskFails = FALSE`. With `DiskFails = TRUE` it is
  false, and TLC shows it in eight states: a pledge whose save fails is committed, the next login's load fails, and what that session
  commits comes from the row without the brand. The invariant (`HubInv`): what the hub and
  every commit on its way know of the brand, the row knows; and they know it in the order in which they go, the hub
  least, then the batch, then the queue.
* `Identity_proofs!MergeKeepsProgressUntroubled`: the boundary of finding 1. `MergeKeepsProgress` does hold in every
  behaviour whose steps are all `Untroubled`: no crash, no failed commit, and nobody gives a name that is
  `Outstanding` (a commit of it is still queued, or a load of it was answered and not drained); assuming
  `SharedNames = FALSE`, `RoomForAll`, and no start without a hub. Each is needed: without any one TLC
  finds a rollback, the crash or outage between an earning and its commit among them. A commit in the worker's *batch* is
  harmless, because the worker loads only when it is done. Plays in other worlds, restarts, loads that fail and saves that
  fail are all allowed. The invariant (`ProgInv`): the last word on a name that is not live, wherever on its way to the
  hub, is not older than its row (`Told`); a character is not behind its row, and for one that waits nothing that
  will be merged is either (`SeatAhead`); and nothing is known of a name without a row (`Rooted`). `Ordered` is used to
  see that a commit tried and not failed has changed what arrived.
* `IdentityTypes`, `CastTypes`, `TideTypes`, `ArcTypes`: the type invariants.
* `Casts_proofs!WorkerFeeds`: `Spec => Feed!Spec`. The invariant says that in worker mode
  delivered ids followed by buffered ids are exactly 1..cursor, that fetched rows go
  on from the cursor, and that the cursor is within the log; a poll then extends a prefix.
* `Casts_proofs!CastsHeardInOrder`, `CastsSpokenInOrder`: `HeardInOrder` follows with a worker from that
  invariant, without one from `RingInv`: the ring's ids rise and nothing after `last_cast_id` was delivered.
  `SpokenInOrder` needs `SpokenInv`: what is at the hub was spoken before what is being sent, and that before what waits.
* `Tide_proofs!TideCounted`, `TideDrained`: the count of shifts with the fact that a
  batch is held only while its RPC is being made, and that after the last flush no act is accepted.
* `Tide_proofs!TideStaysSettled`: the half of `TideConverges` that needs no fairness. Once the world's tide is the hub's
  and nothing on its way could still change either (`Settled`), only a new act here or elsewhere unsettles it.

* `MoralArc_proofs!ArcIsKept`: `Spec => Promise!Spec`. The invariant (`MarkInv`) is the types,
  `MarksOnDisk`, and `BackHadStrayed`: redeemed implies strayed, in memory and on disk. Without the
  last, `moral_arc` could mark straying after the return and the stage would skip; without
  `MarksOnDisk`, a crash would take a stage back. `MarksSurvive` is one of its conjuncts.
* `MoralArc_proofs!ForgivenOnceOnly`: `ForgivenOnce`, assuming that the table holds every pair of two
  different wanderers; the invariant is that the table is exactly the pairs that have forgiven.
* `Economy_proofs!ThingsInOnePlace`, `PacksAndPurses`, `AidIsFound`: the invariant (`ThingInv`) adds to the types and
  `OnePlace` that every thing held or gone has been issued (`AllIssued`), so that the next one is
  another. A step of one wanderer keeps, spends or brings in (`BecomeKeeps`); closes, crashes
  and a gift cut short leave everybody with no more than before (`LessHeld`).
* `Economy_proofs!AllGoldAccounted`: `GoldAccounted`, which compares `wealth` with two sums over sets. The invariant
  (`GoldInv`) adds to `ThingInv` that whoever plays has the gold of their row (`GoldSaved`): every verb saves what
  it does to a purse, and without that a crash would make or take gold. It assumes that wanderers and rooms are
  finitely many (`FiniteAssumption`), without which there is no sum.
* `Induction`: the laws of a sum over a finite set (`SumExcept`: it changes by what one term changes by), and induction over
  subsets, numbers and sequences (`SubsetsByRest`, `NatByNext`, `SeqByAppend`). The library's induction theorems take
  a predicate as an operator, which the provers cannot instantiate; here the predicate is a set, and the argument is the
  least counterexample, from the library's theorem that strict inclusion is well founded on finite sets.

* `Rescue_proofs`: `RescueTypes`, `FightIsFaced`, `NobodyIsDead`, `CagesRefill`, and from them the action
  properties `NobodyIsKeptWaiting`, `OneKillOneReward`, `CaptiveFreedInGrace`. The invariant (`RescueInv`) has three parts.
  `FightInv` has besides types, `FightersFace` and `NobodyDead` that the xp of who is playing is on disk
  (`XpOnDisk`); that whoever has a dead creature for a target has a tick to come, at the time of its death
  (`LostQuarry`: why a returning creature finds nobody); and that the world knows when a dead warden died
  (`WardenKnown`). `CagesTimed` relates a cage's timer to how often it was opened. `RollsKept` bounds the rolls.
* `Rescue_proofs!RollsTellTheSame`: `RollsAgree`. What the world's roll tells of a player is a fold over it
  (`SoulsBy`), for which the proof has the equation of an appended entry and of a concatenation. Both have the
  newest first. The invariant (`RollsTold`) is that they have the same soul at every place that both have, which
  putting the same souls at both heads and cutting either at its end preserve; and that who is not remembered is on no roll, or came
  when the last roll for a player was taken.
* `Keeper_proofs`: `KeeperTypes`, `CommandOfOneMessage`, `LinesAskToBeSent` (lines waiting mean that the callback
  was asked for), `DeathsReachTheRoll`, `PrunesAnsweredOnce`. The invariant is `IOInv` (types, `OneMessage`,
  `NothingStuck`) with `LedgerInv`: for deaths, that the hub's roll, the batch and the queue together rise, and that
  whatever is not in one of them is either older than what the queue may hold or was tried;
  for prunes, that what has been told, the result, the worker's copy and the request come one behind another, each
  at most once.

Model-checked only: the liveness properties (`LoginCompletes`, `ShutdownEnds`, `AllIsHeard`, `TideConverges`,
`FightEnds`, `KeeperHears`) and the absence of deadlock: the prover has no support for `ENABLED`. Every safety
invariant and action property that a passing run checks is also a theorem.

## 7. Not modelled

* Texts, colours, JSON, HTTP and event lines: formatting.
* Presence, worlds and ledger statistics: snapshots copied whole under the mutex and shown to
  players; nothing that is modelled depends on them.
* The trace ring, deeds, titles, the vigil's table of kept pairs, cooldowns of abilities and of the medic.
* Levels and the wielded weapon: `player_damage` goes on counting a weapon that was given away or sold, which
  no document forbids. Positions, but for rest being possible at any tick.
* Not checked: more logins in flight than the load queue holds (16): the oldest is dropped and
  its session waits for ever, as in finding 3. The module does what the code does; the run gives the queue room, and
  `LoginsAreOwed` holds while nothing is dropped.
* The signal that arrives before the service loop has started (`stop_requested` is
  reset there).
* The hub's gold in `Economy`: a login may be answered with an older sheet, whose gold
  replaces the row's (finding 1, seen from the purse).
* Saves that fail in `MoralArc` and `Economy`. If the giver's save fails and the target's does
  not, a crash leaves a gift in two rows.
* Two sessions of one name outside `Identity`; in `Combat`, giving the vial to another.
* What the code does and no document forbids is modelled as it is: a stand in the market once per
  *session*, a new shiv for an empty pack at each login, dust paid for with a full pack, the same
  forgiveness again once the table is full or the process new.
* Authentication and admission of operators.
