------------------------------ MODULE MCCasts ------------------------------
(* Model-checking instances of Casts: small queues, a handful of casts.     *)
EXTENDS Casts
=============================================================================
