-------------------------------- MODULE Tide --------------------------------
(***************************************************************************)
(* The war's tide: one number at the hub that every world shifts.  A world *)
(* moves its own copy at once (contribute_tide), lets the worker send the  *)
(* sum of its shifts (flush_pending_writes), and takes over what the hub   *)
(* answers or is polled for (federation_refresh_caches, poll_gridcasts).   *)
(*                                                                         *)
(* The hub is external: shiftTide adds and clamps, and answers the new     *)
(* tide.  An RPC that fails was applied or was not.                        *)
(***************************************************************************)
EXTENDS Integers

CONSTANTS
    Modes,          \* how the world runs: "worker", "direct" (the worker failed to start), "local"
    Floor, Ceil,    \* HG_TIDE_FLOOR and HG_TIDE_CEIL
    Deltas,         \* what one act adds to the tide
    MaxActs,        \* bound on the acts of this world's wanderers
    MaxElsewhere    \* bound on the shifts of the other worlds

ASSUME ModeAssumption == Modes \subseteq {"worker", "direct", "local"}
ASSUME RangeAssumption ==
    Floor \in Int /\ Ceil \in Int /\ Floor <= 0 /\ 0 <= Ceil
ASSUME DeltaAssumption == Deltas \subseteq Int
ASSUME BoundAssumption == MaxActs \in Nat /\ MaxElsewhere \in Nat

VARIABLES
    mode,           \* chosen once, when the world starts
    tide,           \* server->tide
    delta,          \* worker->tide_delta
    taken,          \* the delta flush_pending_writes has taken and not sent
    answer,         \* a tide the hub answered, not yet stored
    wtide, ready,   \* worker->tide and tide_ready
    hub,            \* the tide at the hub
    at, round,      \* where the worker is in its loop; at = "off": no thread
    stop,           \* worker->stop
    given, applied, lost,   \* sums: shifts given here, applied at the hub, lost
    acts, elsewhere         \* how much of the bounds has been used

workerVars == <<delta, taken, answer, wtide, ready, at, round>>
vars == <<mode, tide, workerVars, hub, stop, given, applied, lost, acts, elsewhere>>

TypeOK ==
    /\ mode \in {"worker", "direct", "local"}
    /\ tide \in Floor..Ceil /\ hub \in Floor..Ceil
    /\ delta \in Int /\ taken \in Int
    /\ answer \in Floor..Ceil /\ wtide \in Floor..Ceil /\ ready \in BOOLEAN
    /\ at \in {"off", "top", "shift", "shifted", "flushed", "asked", "polled"}
    /\ round \in {"loop", "refresh", "after", "final"}
    /\ stop \in BOOLEAN
    /\ given \in Int /\ applied \in Int /\ lost \in Int
    /\ acts \in Nat /\ elsewhere \in Nat

Init ==
    /\ mode \in Modes
    /\ hub \in {0, Ceil}
    /\ tide \in (IF mode = "local" THEN {0} ELSE {0, hub})   \* asked at the start, answered or not
    /\ delta = 0 /\ taken = 0 /\ answer = 0
    /\ wtide = 0 /\ ready = FALSE
    /\ at = (IF mode = "worker" THEN "top" ELSE "off")
    /\ round = "loop"
    /\ stop = FALSE
    /\ given = 0 /\ applied = 0 /\ lost = 0
    /\ acts = 0 /\ elsewhere = 0

\* Mutant of Clamp: the floor is forgotten.
ClampAbove(x) == IF x > Ceil THEN Ceil ELSE x

\* The clamp of contribute_tide and queue_tide_shift, and the hub's.
Clamp(x) == IF x > Ceil THEN Ceil ELSE IF x < Floor THEN Floor ELSE x

-----------------------------------------------------------------------------
(* The event loop. *)

\* queue_tide_shift with the worker: the sum grows under the mutex, the
\* world's own tide moves at once.
ActQueued(d) ==
    /\ mode = "worker"
    /\ delta' = delta + d
    /\ tide' = Clamp(tide + d)
    /\ UNCHANGED <<taken, answer, wtide, ready, at, round, hub, applied, lost>>

\* queue_tide_shift without it: the hub's answer, or the local sum instead.
ActDirect(d) ==
    /\ mode = "direct"
    /\ \/ /\ hub' = Clamp(hub + d) /\ applied' = applied + d
          /\ tide' \in {hub', Clamp(tide + d)}
          /\ UNCHANGED lost
       \/ /\ tide' = Clamp(tide + d) /\ lost' = lost + d
          /\ UNCHANGED <<hub, applied>>
    /\ UNCHANGED workerVars

\* contribute_tide without a hub.
ActLocal(d) ==
    /\ mode = "local"
    /\ tide' = Clamp(tide + d)
    /\ lost' = lost + d
    /\ UNCHANGED <<workerVars, hub, applied>>

Act ==
    /\ ~stop /\ acts < MaxActs
    /\ \E d \in Deltas :
          /\ ActQueued(d) \/ ActDirect(d) \/ ActLocal(d)
          /\ given' = given + d
    /\ acts' = acts + 1
    /\ UNCHANGED <<mode, stop, elsewhere>>

\* poll_gridcasts: the last tide the worker learned, once.
Adopt ==
    /\ ~stop /\ mode = "worker" /\ ready
    /\ tide' = wtide
    /\ ready' = FALSE
    /\ UNCHANGED <<mode, delta, taken, answer, wtide, at, round, hub, stop, given, applied, lost,
                   acts, elsewhere>>

\* federation_worker_stop.
Stop ==
    /\ ~stop
    /\ stop' = TRUE
    /\ UNCHANGED <<mode, tide, workerVars, hub, given, applied, lost, acts, elsewhere>>

-----------------------------------------------------------------------------
(* The federation worker. *)

workerRest == <<mode, tide, stop, given, acts, elsewhere>>

\* Mutants of TakeDelta: the sum is not zeroed where it is taken; a stopped worker
\* leaves without its last flush.
TakeDeltaAgain ==
    /\ \/ at = "top" /\ round' = (IF stop THEN "final" ELSE "loop")
       \/ at = "flushed" /\ round = "loop" /\ round' = "refresh"
       \/ at = "polled" /\ round' = "after"
    /\ taken' = delta
    /\ at' = (IF delta = 0 THEN "flushed" ELSE "shift")
    /\ UNCHANGED <<workerRest, delta, answer, wtide, ready, hub, applied, lost>>

TakeDeltaUnlessStopped ==
    /\ \/ at = "top" /\ round' = (IF stop THEN "final" ELSE "loop")
       \/ at = "flushed" /\ round = "loop" /\ round' = "refresh"
       \/ at = "polled" /\ round' = "after"
    /\ taken' = (IF round' = "final" THEN 0 ELSE delta)
    /\ delta' = (IF round' = "final" THEN delta ELSE 0)
    /\ at' = (IF round' = "final" THEN "off" ELSE IF delta = 0 THEN "flushed" ELSE "shift")
    /\ UNCHANGED <<workerRest, answer, wtide, ready, hub, applied, lost>>

\* flush_pending_writes takes the sum under the mutex: in the loop, inside the
\* refresh, after it, and once more when the loop has ended.
TakeDelta ==
    /\ \/ /\ at = "top"
          /\ round' = (IF stop THEN "final" ELSE "loop")
       \/ /\ at = "flushed" /\ round = "loop"      \* a poll is due
          /\ round' = "refresh"
       \/ /\ at = "polled"
          /\ round' = "after"
    /\ taken' = delta
    /\ delta' = 0
    /\ at' = (IF delta = 0 THEN "flushed" ELSE "shift")
    /\ UNCHANGED <<workerRest, answer, wtide, ready, hub, applied, lost>>

\* shiftTide is applied, and answered or not ...
ShiftApplied ==
    /\ at = "shift"
    /\ hub' = Clamp(hub + taken)
    /\ applied' = applied + taken
    /\ taken' = 0
    /\ \/ at' = "shifted" /\ answer' = hub'
       \/ at' = "flushed" /\ UNCHANGED answer
    /\ UNCHANGED <<workerRest, delta, wtide, ready, round, lost>>

\* ... or lost: the sum is not put back.
ShiftLost ==
    /\ at = "shift"
    /\ lost' = lost + taken
    /\ taken' = 0
    /\ at' = "flushed"
    /\ UNCHANGED <<workerRest, delta, answer, wtide, ready, round, hub, applied>>

\* The refresh asks for the tide, and the hub answers ...
AskAnswered ==
    /\ at = "flushed" /\ round = "refresh"
    /\ answer' = hub
    /\ at' = "asked"
    /\ UNCHANGED <<workerRest, delta, taken, wtide, ready, round, hub, applied, lost>>

\* ... or does not.
AskFailed ==
    /\ at = "flushed" /\ round = "refresh"
    /\ at' = "polled"
    /\ UNCHANGED <<workerRest, delta, taken, answer, wtide, ready, round, hub, applied, lost>>

\* Mutant of StoreTide: a polled tide is stored without the flag.
StoreTideUnmarked ==
    /\ at \in {"shifted", "asked"}
    /\ wtide' = answer
    /\ ready' = (ready \/ at = "shifted")
    /\ at' = (IF at = "asked" THEN "polled" ELSE "flushed")
    /\ UNCHANGED <<workerRest, delta, taken, answer, round, hub, applied, lost>>

\* An answered tide is stored under the mutex.
StoreTide ==
    /\ at \in {"shifted", "asked"}
    /\ wtide' = answer /\ ready' = TRUE
    /\ at' = (IF at = "asked" THEN "polled" ELSE "flushed")
    /\ UNCHANGED <<workerRest, delta, taken, answer, round, hub, applied, lost>>

\* The end of a turn, and of the thread.
Rest ==
    /\ at = "flushed" /\ round \in {"loop", "after", "final"}
    /\ at' = (IF round = "final" THEN "off" ELSE "top")
    /\ UNCHANGED <<workerRest, delta, taken, answer, wtide, ready, round, hub, applied, lost>>

Worker == \/ TakeDelta \/ ShiftApplied \/ ShiftLost \/ AskAnswered \/ AskFailed
          \/ StoreTide \/ Rest

\* Another world shifts the tide.
ShiftElsewhere ==
    /\ mode # "local" /\ elsewhere < MaxElsewhere
    /\ \E d \in Deltas : hub' = Clamp(hub + d)
    /\ elsewhere' = elsewhere + 1
    /\ UNCHANGED <<mode, tide, workerVars, stop, given, applied, lost, acts>>

Next == Act \/ Adopt \/ Stop \/ Worker \/ ShiftElsewhere

Spec == Init /\ [][Next]_vars

\* The worker runs and polls again and again; a hub asked for ever sometimes
\* answers; the service loop polls the worker.
Fairness ==
    /\ WF_vars(Worker) /\ SF_vars(TakeDelta /\ round = "loop" /\ at = "flushed")
    /\ SF_vars(AskAnswered)
    /\ WF_vars(Adopt)

FairSpec == Spec /\ Fairness

-----------------------------------------------------------------------------
(* Properties. *)

\* Every shift a wanderer here gave is in exactly one place: not sent, with
\* the worker, in the hub's tide, or lost; none is sent twice.  (The sum is
\* zeroed in the critical section that takes it.)
EveryShiftOnce == given = delta + taken + applied + lost

\* A stopped world has sent, or lost, all it was given: the last flush comes
\* after the last act.  (federation_worker_main after its loop.)
NothingPendingAtEnd == mode = "worker" /\ at = "off" => delta = 0 /\ taken = 0

\* When acts cease everywhere, the tide of a world with a worker becomes the
\* hub's and stays so, although stale answers overwrite newer sums on the way.
TideConverges == mode = "worker" => <>[](stop \/ tide = hub)

=============================================================================
