----------------------------- MODULE SessionIO -----------------------------
(***************************************************************************)
(* What the WebSocket callback does for each session: fragments into a     *)
(* bounded buffer, whole commands out of it, and the list of lines to send *)
(* with the request to be called when the socket can take one.             *)
(*                                                                         *)
(* A text is not read here: a fragment is its place in its message and its *)
(* length, a line is 0 or the number of the ask it answers; the lines that *)
(* one event queues may be one line.  Which command was run, and what is   *)
(* answered, is for the module that extends this one.                      *)
(***************************************************************************)
EXTENDS Integers, Sequences

CONSTANTS
    Wanderers,          \* names; one session each
    Lens,               \* lengths a fragment may have
    MaxInput,           \* sizeof(session->input)
    MaxFragments,       \* bound on the fragments of a message, of each
    MaxOut              \* bound on the lines waiting when a command is read

ASSUME InputAssumption ==
    /\ Lens \subseteq Nat
    /\ MaxInput \in Nat \ {0}
    /\ MaxFragments \in [Wanderers -> Nat] /\ MaxOut \in Nat

VARIABLES
    state,          \* "closed", or session->state: "waiting" to play, "playing"
    input,          \* session->input, as places of fragments in their message
    inputLength,    \* session->input_length
    sent,           \* how many fragments of the message have come
    spilt,          \* whether one of them did not fit
    out,            \* session->out_head .. out_tail
    wants,          \* lws_callback_on_writable has been asked for
    heard           \* the newest ask whose answer went out

ioVars == <<state, input, inputLength, sent, spilt, out, wants, heard>>

IOTypeOK ==
    /\ state \in [Wanderers -> {"closed", "waiting", "playing"}]
    /\ input \in [Wanderers -> Seq(Nat)]
    /\ inputLength \in [Wanderers -> 0 .. MaxInput - 1]
    /\ sent \in [Wanderers -> Nat]
    /\ spilt \in [Wanderers -> BOOLEAN]
    /\ out \in [Wanderers -> Seq(Nat)]
    /\ wants \in [Wanderers -> BOOLEAN]
    /\ heard \in Nat

IOInit ==
    /\ state = [w \in Wanderers |-> "closed"]
    /\ input = [w \in Wanderers |-> <<>>]
    /\ inputLength = [w \in Wanderers |-> 0]
    /\ sent = [w \in Wanderers |-> 0]
    /\ spilt = [w \in Wanderers |-> FALSE]
    /\ out = [w \in Wanderers |-> <<>>]
    /\ wants = [w \in Wanderers |-> FALSE]
    /\ heard = 0

-----------------------------------------------------------------------------
(* Lines to send. *)

\* queue_owned, for each of some lines
Queue(w, lines) ==
    /\ out' = [out EXCEPT ![w] = @ \o lines]
    /\ wants' = [wants EXCEPT ![w] = @ \/ lines # <<>>]

\* Mutant of Writeable: it does not ask to be called for the next line.
WriteableOnce(w) ==
    /\ wants[w]
    /\ IF out[w] = <<>> THEN UNCHANGED <<out, heard>>
       ELSE /\ out' = [out EXCEPT ![w] = Tail(@)]
            /\ heard' = IF Head(out[w]) > heard THEN Head(out[w]) ELSE heard
    /\ wants' = [wants EXCEPT ![w] = FALSE]
    /\ UNCHANGED <<state, input, inputLength, sent, spilt>>

\* LWS_CALLBACK_SERVER_WRITEABLE, when the write goes through: one line.
Writeable(w) ==
    /\ wants[w]
    /\ IF out[w] = <<>> THEN UNCHANGED <<out, heard>>
       ELSE /\ out' = [out EXCEPT ![w] = Tail(@)]
            /\ heard' = IF Head(out[w]) > heard THEN Head(out[w]) ELSE heard
    /\ wants' = [wants EXCEPT ![w] = Len(out[w]) > 1]
    /\ UNCHANGED <<state, input, inputLength, sent, spilt>>

-----------------------------------------------------------------------------
(* Fragments. *)

\* The next fragment of w's message, the final one or not.
Count(w, final) ==
    /\ state[w] # "closed"
    /\ sent[w] < MaxFragments[w] /\ Len(out[w]) < MaxOut
    /\ sent' = [sent EXCEPT ![w] = IF final THEN 0 ELSE @ + 1]

\* Mutant of TooLong: what was read stays in the buffer.
TooLongKeeps(w, len, final) ==
    /\ inputLength[w] + len >= MaxInput
    /\ Count(w, final)
    /\ UNCHANGED <<input, inputLength>>
    /\ spilt' = [spilt EXCEPT ![w] = ~final]
    /\ Queue(w, <<0>>)
    /\ UNCHANGED <<state, heard>>

\* LWS_CALLBACK_RECEIVE: what does not fit empties the buffer; the rest of the
\* message, if there is any, is read as if it were the beginning of one.
TooLong(w, len, final) ==
    /\ inputLength[w] + len >= MaxInput
    /\ Count(w, final)
    /\ input' = [input EXCEPT ![w] = <<>>]
    /\ inputLength' = [inputLength EXCEPT ![w] = 0]
    /\ spilt' = [spilt EXCEPT ![w] = ~final]
    /\ Queue(w, <<0>>)
    /\ UNCHANGED <<state, heard>>

\* LWS_CALLBACK_RECEIVE: more to come.
Gather(w, len) ==
    /\ inputLength[w] + len < MaxInput
    /\ Count(w, FALSE)
    /\ input' = [input EXCEPT ![w] = Append(@, sent[w] + 1)]
    /\ inputLength' = [inputLength EXCEPT ![w] = @ + len]
    /\ UNCHANGED <<state, spilt, out, wants, heard>>

\* LWS_CALLBACK_RECEIVE, the final fragment: it and the buffer are the command, and
\* the buffer is empty afterwards.  What the handler does is left to it.
Complete(w, len) ==
    /\ inputLength[w] + len < MaxInput
    /\ Count(w, TRUE)
    /\ input' = [input EXCEPT ![w] = <<>>]
    /\ inputLength' = [inputLength EXCEPT ![w] = 0]
    /\ spilt' = [spilt EXCEPT ![w] = FALSE]
    /\ UNCHANGED heard

-----------------------------------------------------------------------------
(* Comings and goings. *)

\* LWS_CALLBACK_ESTABLISHED
Established(w) ==
    /\ state[w] = "closed"
    /\ state' = [state EXCEPT ![w] = "waiting"]
    /\ Queue(w, <<0>>)
    /\ UNCHANGED <<input, inputLength, sent, spilt, heard>>

\* LWS_CALLBACK_CLOSED, by the peer or after a failed write: what was not sent is
\* freed.  The memory of the session goes with it.
Closed(ws) ==
    /\ state' = [w \in Wanderers |-> IF w \in ws THEN "closed" ELSE state[w]]
    /\ input' = [w \in Wanderers |-> IF w \in ws THEN <<>> ELSE input[w]]
    /\ inputLength' = [w \in Wanderers |-> IF w \in ws THEN 0 ELSE inputLength[w]]
    /\ sent' = [w \in Wanderers |-> IF w \in ws THEN 0 ELSE sent[w]]
    /\ spilt' = [w \in Wanderers |-> IF w \in ws THEN FALSE ELSE spilt[w]]
    /\ out' = [w \in Wanderers |-> IF w \in ws THEN <<>> ELSE out[w]]
    /\ wants' = [w \in Wanderers |-> IF w \in ws THEN FALSE ELSE wants[w]]
    /\ UNCHANGED heard

-----------------------------------------------------------------------------
(* Properties. *)

\* What the next final fragment makes a command of is the end of its own message,
\* without a gap and with nothing of another, and all of it unless an earlier
\* fragment did not fit.  (LWS_CALLBACK_RECEIVE.)
OneMessage ==
    \A w \in Wanderers :
        LET n == Len(input[w]) IN
        /\ \A i \in 1 .. n : input[w][i] = sent[w] - n + i
        /\ ~spilt[w] => n = sent[w]

\* Whoever has lines to send has asked to be called.  (queue_owned, WRITEABLE.)
NothingStuck == \A w \in Wanderers : out[w] # <<>> => wants[w]

=============================================================================
