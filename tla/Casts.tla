------------------------------- MODULE Casts -------------------------------
(***************************************************************************)
(* Gridcasts: a wanderer's words queued for the worker, sent to the hub,   *)
(* and the hub's log fetched, buffered and delivered to the sessions here. *)
(* A row of the hub's log is known by its id, its place in the log.        *)
(*                                                                         *)
(* The hub is external: castsSince(id, limit) answers the first `limit`    *)
(* rows after id, in order.  A failed RPC may or may not have been applied. *)
(***************************************************************************)
EXTENDS Integers, Sequences

CONSTANTS
    Modes,       \* how the world runs: "worker", "direct" (the worker failed to start), "local"
    FetchLimit,  \* rows asked for in one castsSince
    BufferCap,   \* HG_MAX_CASTS: the worker's buffer, and the local ring
    OutCap,      \* HG_MAX_PENDING_CASTS
    MaxHere,     \* bound on the casts of this world
    MaxThere,    \* bound on the casts of the other worlds
    MaxRestarts  \* bound on the deaths of this world's process

ASSUME ModeAssumption == Modes \subseteq {"worker", "direct", "local"}
ASSUME CapAssumption ==
    FetchLimit \in Nat \ {0} /\ BufferCap \in Nat \ {0} /\ OutCap \in Nat \ {0}
ASSUME BoundAssumption == {MaxHere, MaxThere, MaxRestarts} \subseteq Nat

VARIABLES
    mode,        \* how this process turned out, when it started
    restarts,    \* how many there were before it
    log,         \* the hub's casts; without a hub, all that was cast here
    said,        \* how many casts wanderers here have sent off
    out,         \* worker->out_casts
    sending,     \* the casts flush_pending_writes has taken
    fetched,     \* the rows of a castsSince answer not yet stored
    casts,       \* worker->casts, or the local ring server->casts: ids
    cursor,      \* worker->cast_cursor
    lastId,      \* server->last_cast_id
    delivered,   \* the ids this process delivered to the sessions, in order
    health,      \* worker->hub_health_ready and hub_ok
    at, round    \* where the worker is in its loop

life == <<mode, restarts>>
queues == <<out, sending, fetched, casts>>
vars == <<life, log, said, queues, cursor, lastId, delivered, health, at, round>>

Message == [from : {"here", "there"}, n : Nat]

TypeOK ==
    /\ mode \in {"worker", "direct", "local"} /\ restarts \in Nat
    /\ log \in Seq(Message)
    /\ said \in Nat
    /\ out \in Seq(Message) /\ sending \in Seq(Message)
    /\ fetched \in Seq(Nat) /\ casts \in Seq(Nat) /\ delivered \in Seq(Nat)
    /\ Len(out) <= OutCap /\ Len(sending) <= OutCap         \* arrays of the worker
    /\ Len(casts) <= BufferCap /\ Len(fetched) <= FetchLimit
    /\ cursor \in Nat /\ lastId \in Nat
    /\ health \in {"unknown", "ok", "down"}
    /\ at \in {"top", "sending", "pinged", "fetched"}
    /\ round \in {"loop", "refresh", "polled"}

Init ==
    /\ mode \in Modes /\ restarts = 0
    /\ log = <<>> /\ said = 0
    /\ out = <<>> /\ sending = <<>> /\ fetched = <<>> /\ casts = <<>>
    /\ cursor = 0 /\ lastId = 0 /\ delivered = <<>>
    /\ health = "unknown"
    /\ at = "top" /\ round = "loop"

-----------------------------------------------------------------------------
(* The event loop. *)

\* Mutant of MakeRoom: room is made one entry too late.
MakeRoomLate(q, cap) == IF Len(q) > cap THEN Tail(q) ELSE q

\* A full queue forgets its oldest entry to take a new one.
MakeRoom(q, cap) == IF Len(q) >= cap THEN Tail(q) ELSE q

Here(n) == [from |-> "here", n |-> n]

\* cmd_gridcast with the worker: queued, unless the hub is known to be down.
CastQueued ==
    /\ mode = "worker" /\ said < MaxHere
    /\ health # "down"
    /\ said' = said + 1
    /\ out' = Append(MakeRoom(out, OutCap), Here(said'))
    /\ UNCHANGED <<life, log, sending, fetched, casts, cursor, lastId, delivered, health, at, round>>

\* cmd_gridcast without the worker: sent at once, and lost if the RPC fails.
CastDirect ==
    /\ mode = "direct" /\ said < MaxHere
    /\ said' = said + 1
    /\ log' = Append(log, Here(said')) \/ UNCHANGED log
    /\ UNCHANGED <<life, queues, cursor, lastId, delivered, health, at, round>>

\* cmd_gridcast without a hub: into the ring.
CastLocal ==
    /\ mode = "local" /\ said < MaxHere
    /\ said' = said + 1
    /\ log' = Append(log, Here(said'))
    /\ casts' = Append(MakeRoom(casts, BufferCap), said')
    /\ UNCHANGED <<life, out, sending, fetched, cursor, lastId, delivered, health, at, round>>

\* The ids of a sequence in rising order end with the greatest.
LastOr(q, x) == IF q = <<>> \/ q[Len(q)] <= x THEN x ELSE q[Len(q)]

\* poll_gridcasts with the worker: the buffer is emptied and delivered.
PollBuffer ==
    /\ mode = "worker" /\ casts # <<>>
    /\ delivered' = delivered \o casts
    /\ lastId' = LastOr(casts, lastId)
    /\ casts' = <<>>
    /\ UNCHANGED <<life, log, said, out, sending, fetched, cursor, health, at, round>>

\* Mutant of PollRing: the ring is delivered whole at every poll.
PollRingAll ==
    /\ mode # "worker" /\ casts # <<>>
    /\ delivered' = delivered \o casts
    /\ lastId' = LastOr(casts, lastId)
    /\ UNCHANGED <<life, log, said, queues, cursor, health, at, round>>

\* poll_gridcasts otherwise: the ring's casts after last_cast_id, which are its
\* last ones, since ids are given in rising order.
PollRing ==
    /\ mode # "worker"
    /\ \E k \in 0..(Len(casts) - 1) :
          /\ \A i \in DOMAIN casts : casts[i] > lastId <=> i > k
          /\ delivered' = delivered \o SubSeq(casts, k + 1, Len(casts))
    /\ lastId' = LastOr(casts, lastId)
    /\ UNCHANGED <<life, log, said, queues, cursor, health, at, round>>

-----------------------------------------------------------------------------
(* The federation worker. *)

\* flush_pending_writes, under the mutex: first in the loop, then inside the
\* refresh, then after it.
TakeOut ==
    /\ mode = "worker"
    /\ \/ at = "top" /\ UNCHANGED round
       \/ at = "sending" /\ sending = <<>> /\ round = "refresh" /\ round' = "polled"
    /\ at' = "sending"
    /\ sending' = out
    /\ out' = <<>>
    /\ UNCHANGED <<life, log, said, fetched, casts, cursor, lastId, delivered, health>>

\* Mutant of SendOne: a cast that was not answered is queued again.
SendOneRequeues ==
    /\ at = "sending" /\ sending # <<>>
    /\ \/ log' = Append(log, Head(sending)) /\ UNCHANGED out
       \/ out' = Append(MakeRoom(out, OutCap), Head(sending)) /\ UNCHANGED log
    /\ sending' = Tail(sending)
    /\ UNCHANGED <<life, said, fetched, casts, cursor, lastId, delivered, health, at, round>>

\* flush_pending_writes, one gridcast RPC: it reaches the hub, or is lost.
SendOne ==
    /\ at = "sending" /\ sending # <<>>
    /\ log' = Append(log, Head(sending)) \/ UNCHANGED log
    /\ sending' = Tail(sending)
    /\ UNCHANGED <<life, said, out, fetched, casts, cursor, lastId, delivered, health, at, round>>

\* federation_refresh_caches: the ping.
Ping ==
    /\ at = "sending" /\ sending = <<>> /\ round = "loop"
    /\ health' \in {"ok", "down"}
    /\ at' = "pinged"
    /\ UNCHANGED <<life, log, said, queues, cursor, lastId, delivered, round>>

\* The rows castsSince answers from a cursor.
Least(a, b) == IF a <= b THEN a ELSE b
RowsSince(c) == [i \in 1..Least(FetchLimit, Len(log) - c) |-> c + i]

\* federation_refresh_caches: castsSince from the cursor answers ...
FetchAnswered ==
    /\ at = "pinged"
    /\ fetched' = RowsSince(cursor)
    /\ at' = "fetched"
    /\ UNCHANGED <<life, log, said, out, sending, casts, cursor, lastId, delivered, health, round>>

\* ... or fails, and the refresh goes on.
FetchFailed ==
    /\ at = "pinged"
    /\ at' = "top" /\ round' = "refresh"
    /\ UNCHANGED <<life, log, said, queues, cursor, lastId, delivered, health>>

\* Mutant of StoreRows: the cursor follows the answered rows, stored or not.
StoreRowsAhead ==
    /\ at = "fetched"
    /\ casts' = casts \o SubSeq(fetched, 1, Least(Len(fetched), BufferCap - Len(casts)))
    /\ cursor' = LastOr(fetched, cursor)
    /\ fetched' = <<>>
    /\ at' = "top" /\ round' = "refresh"
    /\ UNCHANGED <<life, log, said, out, sending, lastId, delivered, health>>

\* federation_refresh_caches: rows are stored while there is room, and the
\* cursor follows the stored ones only.
StoreRows ==
    /\ at = "fetched"
    /\ LET kept == SubSeq(fetched, 1, Least(Len(fetched), BufferCap - Len(casts))) IN
       /\ casts' = casts \o kept
       /\ cursor' = LastOr(kept, cursor)
    /\ fetched' = <<>>
    /\ at' = "top" /\ round' = "refresh"
    /\ UNCHANGED <<life, log, said, out, sending, lastId, delivered, health>>

\* The end of a turn of the loop.
Rest ==
    /\ at = "sending" /\ sending = <<>> /\ round \in {"loop", "polled"}
    /\ at' = "top" /\ round' = "loop"
    /\ UNCHANGED <<life, log, said, queues, cursor, lastId, delivered, health>>

Worker == TakeOut \/ SendOne \/ Ping \/ FetchAnswered \/ FetchFailed \/ StoreRows \/ Rest

\* Another world casts.
CastElsewhere ==
    /\ mode # "local"
    /\ Len(log) < said + MaxThere
    /\ log' = Append(log, [from |-> "there", n |-> 0])
    /\ UNCHANGED <<life, said, queues, cursor, lastId, delivered, health, at, round>>

\* Mutant of Restart: the worker's cursor outlives the process, the buffer does not.
RestartFromCursor ==
    /\ mode # "local" /\ restarts < MaxRestarts
    /\ restarts' = restarts + 1
    /\ mode' \in Modes \ {"local"}
    /\ out' = <<>> /\ sending' = <<>> /\ fetched' = <<>> /\ casts' = <<>>
    /\ lastId' = 0 /\ delivered' = <<>>
    /\ health' = "unknown" /\ at' = "top" /\ round' = "loop"
    /\ UNCHANGED <<log, said, cursor>>

\* The process dies and another starts, with a hub as before: what was queued is
\* lost, and last_cast_id, where the cursor starts, is 0 again.
Restart ==
    /\ mode # "local" /\ restarts < MaxRestarts
    /\ restarts' = restarts + 1
    /\ mode' \in Modes \ {"local"}
    /\ out' = <<>> /\ sending' = <<>> /\ fetched' = <<>> /\ casts' = <<>>
    /\ cursor' = 0 /\ lastId' = 0 /\ delivered' = <<>>
    /\ health' = "unknown" /\ at' = "top" /\ round' = "loop"
    /\ UNCHANGED <<log, said>>

EventLoop == CastQueued \/ CastDirect \/ CastLocal \/ PollBuffer \/ PollRing

Next == EventLoop \/ Worker \/ CastElsewhere \/ Restart

Spec == Init /\ [][Next]_vars

\* The worker runs for ever and polls the hub again and again; the service loop
\* polls the worker; and a hub asked again and again sometimes answers.
Fairness ==
    /\ WF_vars(Worker) /\ SF_vars(Ping) /\ SF_vars(FetchAnswered)
    /\ WF_vars(PollBuffer) /\ WF_vars(PollRing)

FairSpec == Spec /\ Fairness

-----------------------------------------------------------------------------
(* Properties. *)

\* The log as the feed sees it, and what was heard of it.  Only a world with a
\* worker promises the feed; the others are shown to it with nothing heard.
Feed == INSTANCE CastFeed WITH lives <- restarts, heard <-
    IF mode = "worker" THEN [i \in DOMAIN delivered |-> log[delivered[i]]] ELSE <<>>

\* What the worker buffers and the loop delivers is the hub's log: nothing
\* skipped when the buffer is full or an RPC fails, nothing twice, no order lost;
\* a restart, and nothing else, begins again at its beginning.
FeedSafety == Feed!Spec

\* And all of it is heard in the end, by the last process too.  (The cursor moves
\* on only past stored rows; the loop empties the buffer.)
AllIsHeard ==
    \A n \in 1..(MaxHere + MaxThere) :
        mode = "worker" /\ Len(log) >= n ~> Len(delivered) >= n \/ mode # "worker"

\* "the dead network carries it to every world": also to a world whose worker
\* failed to start and which goes on "with direct RPC only" (poll_gridcasts
\* reads only its own ring there).
CarriedToEveryWorld ==
    \A n \in 1..(MaxHere + MaxThere) :
        mode # "local" /\ Len(log) >= n ~> Len(delivered) >= n

\* No cast is delivered twice or after a later one, even when the local ring
\* has dropped some before they were delivered.  (id <= last_cast_id.)
HeardInOrder ==
    \A i, j \in DOMAIN delivered : i < j => delivered[i] < delivered[j]

\* A world's own casts are at the hub in the order they were spoken, each at
\* most once, whatever was dropped or failed on the way.
SpokenInOrder ==
    \A i, j \in DOMAIN log :
        i < j /\ log[i].from = "here" /\ log[j].from = "here" => log[i].n < log[j].n

=============================================================================
