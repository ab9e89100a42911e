------------------------------ MODULE MCClient -------------------------------
(***************************************************************************)
(* The client of Client.tla on a small instance.                           *)
(***************************************************************************)
EXTENDS Client
=============================================================================
