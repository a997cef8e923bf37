---------------------------- MODULE Tide_proofs ----------------------------
(***************************************************************************)
(* Proofs about Tide, for any scale, any shifts and any number of acts.    *)
(*                                                                         *)
(* EveryShiftOnce is inductive only with two facts about the worker: a     *)
(* taken sum exists only while its request is out (HeldOnlyInFlight), and  *)
(* the last flush of the loop runs after the last act (DrainedAtTheEnd).   *)
(***************************************************************************)
EXTENDS Tide, TLAPS

\* The clamp of contribute_tide and queue_tide_shift stays on the scale.
LEMMA ClampInRange == \A x \in Int : Clamp(x) \in Floor..Ceil
  BY RangeAssumption DEF Clamp

HeldOnlyInFlight == at # "shift" => taken = 0

DrainedAtTheEnd ==
    /\ round = "final" => stop /\ delta = 0
    /\ at = "off" /\ mode = "worker" => round = "final"

TideInv == TypeOK /\ EveryShiftOnce /\ HeldOnlyInFlight /\ DrainedAtTheEnd

\* The initial states: nothing is given, taken or sent.
LEMMA TideInit == Init => TideInv
  <1> SUFFICES ASSUME Init PROVE TideInv
    OBVIOUS
  <1>1. hub \in Floor..Ceil /\ tide \in Floor..Ceil /\ 0 \in Floor..Ceil
    BY RangeAssumption DEF Init
  <1>2. /\ delta = 0 /\ taken = 0 /\ answer = 0 /\ wtide = 0 /\ ready = FALSE
        /\ round = "loop" /\ stop = FALSE
        /\ given = 0 /\ applied = 0 /\ lost = 0 /\ acts = 0 /\ elsewhere = 0
        /\ mode \in {"worker", "direct", "local"}
    BY ModeAssumption DEF Init
  <1>3. at \in {"top", "off"} /\ (mode = "worker" => at = "top")
    BY DEF Init
  <1>4. TypeOK
    <2>1. answer \in Floor..Ceil /\ wtide \in Floor..Ceil /\ ready \in BOOLEAN
      BY <1>1, <1>2
    <2>2. /\ delta \in Int /\ taken \in Int /\ given \in Int /\ applied \in Int /\ lost \in Int
          /\ acts \in Nat /\ elsewhere \in Nat
      BY <1>2
    <2>3. stop \in BOOLEAN /\ round \in {"loop", "refresh", "after", "final"}
      BY <1>2
    <2>4. at \in {"off", "top", "shift", "shifted", "flushed", "asked", "polled"}
      BY <1>3
    <2> QED BY <1>1, <1>2, <2>1, <2>2, <2>3, <2>4 DEF TypeOK
  <1>5. EveryShiftOnce /\ HeldOnlyInFlight /\ DrainedAtTheEnd
    BY <1>2, <1>3 DEF EveryShiftOnce, HeldOnlyInFlight, DrainedAtTheEnd
  <1> QED BY <1>4, <1>5 DEF TideInv

\* No step takes the tide off its scale, and none loses count of a shift.
LEMMA TideStep == TideInv /\ [Next]_vars => TideInv'
  <1> SUFFICES ASSUME TideInv, [Next]_vars
               PROVE  TideInv'
    OBVIOUS
  <1> USE DEF TideInv, EveryShiftOnce, HeldOnlyInFlight, DrainedAtTheEnd
  <1>1. CASE Act
    <2>1. PICK d \in Deltas : /\ ActQueued(d) \/ ActDirect(d) \/ ActLocal(d)
                              /\ given' = given + d
      BY <1>1 DEF Act
    <2>2. d \in Int /\ Clamp(tide + d) \in Floor..Ceil /\ Clamp(hub + d) \in Floor..Ceil
      BY ClampInRange, DeltaAssumption DEF TypeOK
    <2>3. ~stop /\ acts' = acts + 1 /\ UNCHANGED <<mode, stop, elsewhere>>
      BY <1>1 DEF Act
    <2>4. CASE ActQueued(d)
      BY <2>1, <2>2, <2>3, <2>4 DEF ActQueued, TypeOK
    <2>5. CASE ActDirect(d)
      BY <2>1, <2>2, <2>3, <2>5 DEF ActDirect, workerVars, TypeOK
    <2>6. CASE ActLocal(d)
      BY <2>1, <2>2, <2>3, <2>6 DEF ActLocal, workerVars, TypeOK
    <2> QED BY <2>1, <2>4, <2>5, <2>6
  <1>2. CASE Adopt
    BY <1>2 DEF Adopt, TypeOK
  <1>3. CASE Stop
    BY <1>3 DEF Stop, workerVars, TypeOK
  <1>4. CASE TakeDelta
    <2>1. taken = 0 /\ at # "off"
      BY <1>4 DEF TakeDelta
    <2>2. taken' = delta /\ delta' = 0 /\ at' = (IF delta = 0 THEN "flushed" ELSE "shift")
      BY <1>4 DEF TakeDelta
    <2>3. round' \in {"loop", "refresh", "after", "final"} /\ (round' = "final" => stop)
      BY <1>4 DEF TakeDelta
    <2>4. UNCHANGED <<mode, tide, stop, given, acts, elsewhere, answer, wtide, ready, hub,
                      applied, lost>>
      BY <1>4 DEF TakeDelta, workerRest
    <2>5. TypeOK'
      BY <2>2, <2>3, <2>4 DEF TypeOK
    <2>6. EveryShiftOnce' /\ HeldOnlyInFlight' /\ DrainedAtTheEnd'
      BY <2>1, <2>2, <2>3, <2>4 DEF TypeOK
    <2> QED BY <2>5, <2>6
  <1>5. CASE ShiftApplied
    BY <1>5, ClampInRange DEF ShiftApplied, workerRest, TypeOK
  <1>6. CASE ShiftLost
    BY <1>6 DEF ShiftLost, workerRest, TypeOK
  <1>7. CASE AskAnswered
    BY <1>7 DEF AskAnswered, workerRest, TypeOK
  <1>8. CASE AskFailed
    BY <1>8 DEF AskFailed, workerRest, TypeOK
  <1>9. CASE StoreTide
    BY <1>9 DEF StoreTide, workerRest, TypeOK
  <1>10. CASE Rest
    BY <1>10 DEF Rest, workerRest, TypeOK
  <1>11. CASE ShiftElsewhere
    BY <1>11, ClampInRange, DeltaAssumption DEF ShiftElsewhere, workerVars, TypeOK
  <1>12. CASE UNCHANGED vars
    BY <1>12 DEF vars, workerVars, TypeOK
  <1> QED BY <1>1, <1>2, <1>3, <1>4, <1>5, <1>6, <1>7, <1>8, <1>9, <1>10, <1>11, <1>12
          DEF Next, Worker

LEMMA TideAlways == Spec => []TideInv
  <1> QED BY TideInit, TideStep, PTL DEF Spec

\* Every shift a wanderer gave is waiting, in flight, at the hub or lost, and
\* counted once (queue_tide_shift, flush_pending_writes).
THEOREM TideCounted == Spec => []EveryShiftOnce
  <1>1. TideInv => EveryShiftOnce
    BY DEF TideInv
  <1> QED BY <1>1, TideAlways, PTL

\* Every variable keeps its type; the tide stays on its scale.  (queue_tide_shift,
\* contribute_tide.)
THEOREM TideTypes == Spec => []TypeOK
  <1>1. TideInv => TypeOK
    BY DEF TideInv
  <1> QED BY <1>1, TideAlways, PTL

\* When the worker has ended, no shift is left in it (the flush after the
\* loop of federation_worker_main, and no act after federation_worker_stop).
THEOREM TideDrained == Spec => []NothingPendingAtEnd
  <1>1. TideInv => NothingPendingAtEnd
    BY DEF TideInv, NothingPendingAtEnd, HeldOnlyInFlight, DrainedAtTheEnd
  <1> QED BY <1>1, TideAlways, PTL

-----------------------------------------------------------------------------
(* Why the world's tide, once it is the hub's, stays so: nothing that is on *)
(* its way to it (a sum to send, an answer to store, a stored tide to adopt) *)
(* can still differ from it.  This is the part of TideConverges that needs  *)
(* no fairness.                                                             *)

Settled ==
    /\ tide = hub
    /\ delta = 0 /\ at # "shift"
    /\ ready => wtide = hub
    /\ at \in {"shifted", "asked"} => answer = hub

\* Only a wanderer's act, here or elsewhere, unsettles the tide: the worker's
\* turns, its lost requests and what the service loop adopts never do.
\* (flush_pending_writes, federation_refresh_caches, poll_gridcasts.)
THEOREM TideStaysSettled ==
  Spec => [][Settled /\ acts' = acts /\ elsewhere' = elsewhere => Settled']_vars
  <1>1. TideInv /\ [Next]_vars
          => [Settled /\ acts' = acts /\ elsewhere' = elsewhere => Settled']_vars
    <2> SUFFICES ASSUME TideInv, [Next]_vars, Settled, acts' = acts, elsewhere' = elsewhere
                 PROVE  Settled'
      OBVIOUS
    <2> USE DEF Settled
    <2>1. ~Act /\ ~ShiftElsewhere
      BY DEF Act, ShiftElsewhere, TideInv, TypeOK
    <2>2. CASE Adopt
      BY <2>2 DEF Adopt
    <2>3. CASE Stop
      BY <2>3 DEF Stop, workerVars
    <2>4. CASE TakeDelta
      BY <2>4 DEF TakeDelta, workerRest
    <2>5. CASE ShiftApplied \/ ShiftLost
      BY <2>5 DEF ShiftApplied, ShiftLost
    <2>6. CASE AskAnswered
      BY <2>6 DEF AskAnswered, workerRest
    <2>7. CASE AskFailed
      BY <2>7 DEF AskFailed, workerRest
    <2>8. CASE StoreTide
      BY <2>8 DEF StoreTide, workerRest
    <2>9. CASE Rest
      BY <2>9 DEF Rest, workerRest
    <2>10. CASE UNCHANGED vars
      BY <2>10 DEF vars, workerVars
    <2> QED BY <2>1, <2>2, <2>3, <2>4, <2>5, <2>6, <2>7, <2>8, <2>9, <2>10 DEF Next, Worker
  <1> QED BY <1>1, TideAlways, PTL DEF Spec

=============================================================================
