------------------------------ MODULE MCKeeper ------------------------------
(* Model-checking instance of Keeper: a's messages come in pieces, b's whole. *)
EXTENDS Keeper

CONSTANTS a, b

MCMaxFragments == [w \in Wanderers |-> IF w = a THEN 4 ELSE 1]

=============================================================================
