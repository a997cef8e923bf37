------------------------------ MODULE CastFeed ------------------------------
(***************************************************************************)
(* What a world promises its wanderers about gridcasts: in each of its     *)
(* lives they hear the Grid's log from its beginning, in its order, each   *)
(* cast once.                                                              *)
(***************************************************************************)
EXTENDS Naturals, Sequences

CONSTANT Message

VARIABLES log, heard, lives

Init == log = <<>> /\ heard = <<>> /\ lives = 0

\* Some world casts.
Post ==
    /\ log' \in Seq(Message)
    /\ Len(log') = Len(log) + 1 /\ SubSeq(log', 1, Len(log)) = log
    /\ UNCHANGED <<heard, lives>>

\* Wanderers here hear some more of the log.
Hear ==
    /\ \E n \in Len(heard) + 1 .. Len(log) : heard' = SubSeq(log, 1, n)
    /\ UNCHANGED <<log, lives>>

\* The world dies and lives again, and has heard nothing.
Revive ==
    /\ lives' = lives + 1
    /\ heard' = <<>>
    /\ UNCHANGED log

Next == Post \/ Hear \/ Revive

\* Nothing is heard that was not cast, or out of its place.
Spec == Init /\ [][Next]_<<log, heard, lives>>

=============================================================================
