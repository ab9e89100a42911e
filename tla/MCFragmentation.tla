-------------------------- MODULE MCFragmentation ---------------------------
(* Small instances of the fragmentation layer. *)
EXTENDS Fragmentation
=============================================================================
