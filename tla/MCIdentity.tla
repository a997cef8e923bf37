----------------------------- MODULE MCIdentity -----------------------------
(* Model-checking instances of Identity: a few connection slots and names.  *)
EXTENDS Identity, TLC

\* Slots and names are interchangeable in every safety property.
Symmetry == Permutations(Sessions) \cup Permutations(Names)

\* Who played before there was a database.
MCLegacy == {Blank}

=============================================================================
