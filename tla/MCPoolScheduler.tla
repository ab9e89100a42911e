--------------------------- MODULE MCPoolScheduler --------------------------
(* A small instance of the pool scheduler; the .cfg gives the constants. *)
EXTENDS PoolScheduler
=============================================================================
