------------------------------ MODULE MCRescue ------------------------------
(* Model-checking instance of Rescue: the pit behind the market, the cells. *)
EXTENDS Rescue

CONSTANTS a, b

\* The warden's blow is 5: one stands a blow, the other does not.
MCMaxHp == [w \in Wanderers |-> IF w = a THEN 6 ELSE 5]
\* Two blows, or one, for the warden's 18.
MCMight == [w \in Wanderers |-> IF w = a THEN 9 ELSE 18]

=============================================================================
