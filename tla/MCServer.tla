------------------------------ MODULE MCServer ------------------------------
(* Model-checking entry point for Server; the .cfg file gives the constants *)
(* their values.                                                            *)
EXTENDS Server
=============================================================================
