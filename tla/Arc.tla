--------------------------------- MODULE Arc ---------------------------------
(***************************************************************************)
(* What the Grid promises about a wanderer's moral arc, whatever they do   *)
(* and however often the world goes down: one strays once, comes back      *)
(* once, and is named the Returned only then, and only if neither branded  *)
(* nor of the Front.  A branded one comes back without the name.           *)
(***************************************************************************)
EXTENDS Naturals

CONSTANT Wanderers

VARIABLES
    stage,       \* "steady", "strayed", "back"
    grants,      \* how often the name was given
    branded,     \* who bears the ash: not decided here
    front        \* who is of the Cinder Front: not decided here

Init ==
    /\ stage = [w \in Wanderers |-> "steady"]
    /\ grants = [w \in Wanderers |-> 0]
    /\ branded \in [Wanderers -> BOOLEAN]
    /\ front \in [Wanderers -> BOOLEAN]

Stray(w) ==
    /\ stage[w] = "steady"
    /\ stage' = [stage EXCEPT ![w] = "strayed"]
    /\ UNCHANGED grants

\* Judged by what they are when they come back: a defector has left the Front.
Return(w) ==
    /\ stage[w] = "strayed" /\ ~branded'[w] /\ ~front'[w]
    /\ stage' = [stage EXCEPT ![w] = "back"]
    /\ grants' = [grants EXCEPT ![w] = @ + 1]

Penance(w) ==
    /\ stage[w] = "strayed" /\ branded'[w] /\ ~front'[w]
    /\ stage' = [stage EXCEPT ![w] = "back"]
    /\ UNCHANGED grants

Next == \E w \in Wanderers : Stray(w) \/ Return(w) \/ Penance(w)

Spec == Init /\ [][Next]_<<stage, grants>>

=============================================================================
