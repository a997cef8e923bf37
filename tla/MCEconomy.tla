------------------------------ MODULE MCEconomy ------------------------------
(* Model-checking instances of Economy.                                       *)
EXTENDS Economy, TLC

Symmetry == Permutations(Wanderers)

=============================================================================
