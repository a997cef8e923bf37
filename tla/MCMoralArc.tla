----------------------------- MODULE MCMoralArc -----------------------------
(* Model-checking instances of MoralArc: one of the hunted and one other.   *)
EXTENDS MoralArc

\* Close to the floor, sworn elsewhere; and close to the ceiling.
MCSheets == {[faction |-> "front", morality |-> -98, sworn |-> TRUE],
             [faction |-> "ally", morality |-> 95, sworn |-> FALSE]}

=============================================================================
