-------------------------- MODULE MCConnectionActor --------------------------
(* Model-checking entry point for ConnectionActor; the .cfg files give the  *)
(* constants their values.                                                  *)
EXTENDS ConnectionActor
=============================================================================
