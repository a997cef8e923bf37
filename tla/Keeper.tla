------------------------------- MODULE Keeper -------------------------------
(***************************************************************************)
(* Sessions and the ledger together: the commands that come out of the     *)
(* fragments ask for prunes, deaths are queued, and answers go out as      *)
(* lines, while the worker writes to the hub.                              *)
(***************************************************************************)
EXTENDS SessionIO, Ledger

ASSUME KeeperAssumption == Keepers \subseteq Wanderers

VARIABLES
    running,        \* the service loop has not been told to stop
    gone            \* whoever asked last has left since

vars == <<state, input, inputLength, sent, spilt, out, wants, heard,
          mode, deaths, fallen, pending, flying, hubFallen, unsent,
          asks, request, pruning, result, told, running, gone>>

TypeOK == IOTypeOK /\ LedgerTypeOK /\ running \in BOOLEAN /\ gone \in BOOLEAN

Init == IOInit /\ LedgerInit /\ running = TRUE /\ gone = FALSE

Playing == {w \in Wanderers : state[w] = "playing"}

-----------------------------------------------------------------------------
(* The service loop. *)

\* handle_command, before one plays: a name, a race, or nothing.
HandleLogin(w) ==
    /\ state[w] = "waiting"
    /\ \/ UNCHANGED <<state, out, wants>>
       \/ Queue(w, <<0>>) /\ state' \in {state, [state EXCEPT ![w] = "playing"]}
    /\ UNCHANGED ledgerVars /\ UNCHANGED gone

\* handle_play, any verb but a keeper's gridprune: nothing, or an answer at once.
HandleOther(w) ==
    /\ state[w] = "playing"
    /\ \E lines \in {<<>>, <<0>>} : Queue(w, lines)
    /\ UNCHANGED state /\ UNCHANGED ledgerVars /\ UNCHANGED gone

\* cmd_gridprune
HandlePrune(w) ==
    /\ state[w] = "playing" /\ w \in Keepers
    /\ Ask(w)
    /\ Queue(w, <<Answer>>)
    /\ gone' = FALSE
    /\ UNCHANGED state

Receive(w) ==
    /\ running
    /\ \E len \in Lens :
          \/ /\ \E final \in BOOLEAN : TooLong(w, len, final)
             /\ UNCHANGED ledgerVars /\ UNCHANGED gone
          \/ Gather(w, len) /\ UNCHANGED ledgerVars /\ UNCHANGED gone
          \/ Complete(w, len) /\ (HandleLogin(w) \/ HandleOther(w) \/ HandlePrune(w))
    /\ UNCHANGED running

Open(w) ==
    /\ running /\ Established(w)
    /\ UNCHANGED ledgerVars /\ UNCHANGED <<running, gone>>

\* LWS_CALLBACK_TIMER with a death in the round.
Dies(w) ==
    /\ running /\ state[w] = "playing" /\ Len(out[w]) < MaxOut
    /\ Fall
    /\ Queue(w, <<0>>)
    /\ UNCHANGED <<state, input, inputLength, sent, spilt, heard, running, gone>>

Write(w) ==
    /\ running /\ Writeable(w)
    /\ UNCHANGED ledgerVars /\ UNCHANGED <<running, gone>>

AskerIn(ws) == asks # <<>> /\ asks[Len(asks)] \in ws

Close(w) ==
    /\ running /\ state[w] # "closed"
    /\ Closed({w})
    /\ gone' = (gone \/ AskerIn({w}))
    /\ UNCHANGED ledgerVars /\ UNCHANGED running

\* poll_gridcasts, the part that lets in who waited for the hub (Identity).
Admit(w) ==
    /\ running /\ state[w] = "waiting"
    /\ state' = [state EXCEPT ![w] = "playing"]
    /\ Queue(w, <<0>>)
    /\ UNCHANGED <<input, inputLength, sent, spilt, heard>>
    /\ UNCHANGED ledgerVars /\ UNCHANGED <<running, gone>>

\* poll_gridcasts, the part that hands out the result of a prune.
PollPrunes ==
    LET to == asks[result] IN
    /\ running
    /\ Drain(Playing)
    /\ IF to \in Playing THEN Queue(to, <<result>>) ELSE UNCHANGED <<out, wants>>
    /\ UNCHANGED <<state, input, inputLength, sent, spilt, heard, running, gone>>

\* The loop ends: lws_context_destroy closes every session; the worker goes on
\* until what was queued is sent.
Stop ==
    /\ running /\ running' = FALSE
    /\ Closed(Wanderers)
    /\ UNCHANGED ledgerVars /\ UNCHANGED gone

-----------------------------------------------------------------------------

Work == Worker /\ UNCHANGED ioVars /\ UNCHANGED <<running, gone>>

Next ==
    \/ \E w \in Wanderers :
          Open(w) \/ Admit(w) \/ Receive(w) \/ Dies(w) \/ Write(w) \/ Close(w)
    \/ PollPrunes \/ Stop
    \/ Work

\* The loop polls before each lws_service, which calls back the writeable; an
\* RPC ends, by its timeout if not otherwise, and the worker goes on.
Fairness ==
    /\ \A w \in Wanderers : WF_vars(Write(w))
    /\ WF_vars(PollPrunes)
    /\ WF_vars(Work)

Spec == Init /\ [][Next]_vars /\ Fairness

-----------------------------------------------------------------------------
(* Properties. *)

\* The newest ask of a keeper for the hub's ledger is answered, through queue,
\* worker, slot, poll and socket, unless the keeper leaves, somebody asks after or
\* the server stops.  (queue_ledger_prune .. WRITEABLE.)
KeeperHears ==
    \A n \in 1 .. MaxNews :
        Len(asks) = n /\ mode = "worker" ~> heard >= n \/ Len(asks) > n \/ gone \/ ~running

=============================================================================
