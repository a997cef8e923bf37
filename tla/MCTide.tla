------------------------------- MODULE MCTide -------------------------------
(* Model-checking instances of Tide: a short scale, so that it is reached.  *)
EXTENDS Tide

MCFloor == -2
MCDeltas == {-1, 1}

=============================================================================
