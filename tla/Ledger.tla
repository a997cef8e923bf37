------------------------------- MODULE Ledger -------------------------------
(***************************************************************************)
(* What the world writes into the hub's ledger besides casts, tide and     *)
(* characters: the deaths, in a bounded queue, and the keepers' prunes,    *)
(* with one slot for the request and one for the result.                   *)
(*                                                                         *)
(* A death is its number, an ask for a prune is its number too.  Without a *)
(* hub the world prunes its own ring of traces, of which only the answer   *)
(* is here; sleep and wake-up of the worker are in Identity.               *)
(***************************************************************************)
EXTENDS Integers, Sequences, FiniteSets

CONSTANTS
    Keepers,            \* server->admins
    Modes,              \* "local": no hub; "direct": no worker; "worker"
    MaxFallen,          \* HG_MAX_FALLEN
    MaxPendingFallen,   \* HG_MAX_PENDING_FALLEN
    MaxNews             \* bound on the deaths and asks together

ASSUME ModeAssumption == Modes \subseteq {"local", "direct", "worker"}
ASSUME CapAssumption ==
    /\ {MaxFallen, MaxPendingFallen} \subseteq Nat \ {0}
    /\ MaxNews \in Nat

VARIABLES
    mode,           \* whether there are server->remote and federation.started
    deaths,         \* how many there have been
    fallen,         \* server->fallen, newest first
    pending,        \* worker->fallens
    flying,         \* the worker's copy, being sent
    hubFallen,      \* the hub's roll
    unsent,         \* deaths whose sending failed
    asks,           \* who asked for a prune, in the order of asking
    request,        \* worker->prune_requested and prune_admin: an ask, or 0
    pruning,        \* the worker's copy: an ask, or 0
    result,         \* worker->prune_result and its ready flag: an ask, or 0
    told            \* the asks answered, in the order of answering, and to whom

ledgerVars == <<mode, deaths, fallen, pending, flying, hubFallen, unsent,
                asks, request, pruning, result, told>>

LedgerTypeOK ==
    /\ mode \in Modes
    /\ deaths \in Nat
    /\ fallen \in Seq(1 .. deaths) /\ Len(fallen) <= MaxFallen
    /\ pending \in Seq(1 .. deaths) /\ Len(pending) <= MaxPendingFallen
    /\ flying \in Seq(1 .. deaths) /\ Len(flying) <= MaxPendingFallen
    /\ hubFallen \in Seq(1 .. deaths)
    /\ unsent \subseteq 1 .. deaths
    /\ asks \in Seq(Keepers)
    /\ {request, pruning, result} \subseteq 0 .. Len(asks)
    /\ told \in Seq([no : 1 .. Len(asks), to : Keepers])

LedgerInit ==
    /\ mode \in Modes
    /\ deaths = 0 /\ fallen = <<>> /\ pending = <<>> /\ flying = <<>>
    /\ hubFallen = <<>> /\ unsent = {}
    /\ asks = <<>> /\ request = 0 /\ pruning = 0 /\ result = 0 /\ told = <<>>

fallenVars == <<deaths, fallen, pending, hubFallen, unsent>>
pruneVars == <<asks, request, result, told>>

-----------------------------------------------------------------------------
(* Deaths. *)

\* Mutant of Later: a full queue drops the newest.
LaterKeepsOld(queue, d) ==
    IF Len(queue) >= MaxPendingFallen THEN queue ELSE Append(queue, d)

\* Mutant of Later: nothing makes room.
LaterWhole(queue, d) == Append(queue, d)

\* A full queue drops its oldest.
Later(queue, d) ==
    Append(IF Len(queue) >= MaxPendingFallen THEN Tail(queue) ELSE queue, d)

\* hg_grid_record_fallen, whose outcome nobody looks at.
Record(d) ==
    \/ hubFallen' = Append(hubFallen, d) /\ UNCHANGED unsent
    \/ unsent' = unsent \cup {d} /\ UNCHANGED hubFallen

\* combat_round's roll, and queue_fallen_remote.
Fall ==
    LET d == deaths + 1 IN
    /\ deaths + Len(asks) < MaxNews
    /\ deaths' = d
    /\ fallen' = SubSeq(<<d>> \o fallen, 1,
                        IF Len(fallen) < MaxFallen THEN Len(fallen) + 1 ELSE MaxFallen)
    /\ \/ mode = "local" /\ UNCHANGED <<pending, hubFallen, unsent>>
       \/ mode = "direct" /\ Record(d) /\ UNCHANGED pending
       \/ mode = "worker" /\ pending' = Later(pending, d) /\ UNCHANGED <<hubFallen, unsent>>
    /\ UNCHANGED <<mode, flying, pruning>> /\ UNCHANGED pruneVars

-----------------------------------------------------------------------------
(* Prunes. *)

\* cmd_gridprune of a keeper w: the number of the ask is told at once if there is
\* no hub, and 0, that it is out of reach or under way, if there is.
Ask(w) ==
    LET n == Len(asks) + 1 IN
    /\ deaths + Len(asks) < MaxNews
    /\ asks' = Append(asks, w)
    /\ request' = IF mode = "worker" THEN n ELSE request
    /\ told' = IF mode = "local" THEN Append(told, [no |-> n, to |-> w]) ELSE told
    /\ UNCHANGED <<mode, flying, pruning, result>> /\ UNCHANGED fallenVars

Answer == IF mode = "local" THEN Len(asks) + 1 ELSE 0

\* drain_prune_results: the first player of that name, if there is one, is told.
Drain(playing) ==
    LET to == asks[result] IN
    /\ result # 0
    /\ result' = 0
    /\ told' = IF to \in playing THEN Append(told, [no |-> result, to |-> to]) ELSE told
    /\ UNCHANGED <<mode, asks, request, flying, pruning>> /\ UNCHANGED fallenVars

-----------------------------------------------------------------------------
(* The worker. *)

AtRest == flying = <<>> /\ pruning = 0

\* Mutant of TakeWrites: the request is left for the next turn too.
TakeWritesAgain ==
    /\ mode = "worker" /\ AtRest
    /\ pending # <<>> \/ request # 0
    /\ flying' = pending /\ pending' = <<>>
    /\ pruning' = request /\ UNCHANGED request
    /\ UNCHANGED <<mode, deaths, fallen, hubFallen, unsent, asks, result, told>>

\* flush_pending_writes, under the mutex.
TakeWrites ==
    /\ mode = "worker" /\ AtRest
    /\ pending # <<>> \/ request # 0
    /\ flying' = pending /\ pending' = <<>>
    /\ pruning' = request /\ request' = 0
    /\ UNCHANGED <<mode, deaths, fallen, hubFallen, unsent, asks, result, told>>

\* Deaths first, one RPC each, none tried again.
SendFallen ==
    /\ flying # <<>>
    /\ Record(Head(flying))
    /\ flying' = Tail(flying)
    /\ UNCHANGED <<mode, deaths, fallen, pending, pruning>> /\ UNCHANGED pruneVars

\* Then the prune: stats, prune, stats.  It succeeds or not, and either is the
\* result; one not yet drained is overwritten.
PruneLedger ==
    /\ flying = <<>> /\ pruning # 0
    /\ result' = pruning /\ pruning' = 0
    /\ UNCHANGED <<mode, asks, request, told, flying>> /\ UNCHANGED fallenVars

Worker == TakeWrites \/ SendFallen \/ PruneLedger

-----------------------------------------------------------------------------
(* Properties. *)

InSeq(s) == {s[i] : i \in DOMAIN s}

\* The hub hears of deaths in their order, each once; of the newest that the queue
\* holds none is forgotten without having been sent; the roll here is of the
\* newest.  (combat_round, queue_fallen_remote, flush_pending_writes.)
FallenInOrder ==
    /\ \A i, j \in DOMAIN (hubFallen \o flying \o pending) :
           i < j => (hubFallen \o flying \o pending)[i] < (hubFallen \o flying \o pending)[j]
    /\ mode # "local" =>
           \A d \in 1 .. deaths : d > deaths - MaxPendingFallen =>
               d \in InSeq(hubFallen) \cup InSeq(flying) \cup InSeq(pending) \cup unsent
    /\ \A i \in DOMAIN fallen : fallen[i] = deaths + 1 - i

\* Every answer answers an ask of the keeper it goes to, and none twice or after a
\* later one.  (cmd_gridprune, queue_ledger_prune, flush_pending_writes,
\* drain_prune_results.)
AnswersEarned ==
    /\ \A i \in DOMAIN told : told[i].to = asks[told[i].no]
    /\ \A i, j \in DOMAIN told : i < j => told[i].no < told[j].no

=============================================================================
