------------------------- MODULE MCSessionRegistry -------------------------
(* Instances of SessionRegistry for TLC. *)
EXTENDS SessionRegistry, TLC

\* Ids, handles and tasks are each interchangeable.
Symmetry == Permutations(Ids) \union Permutations(Handles) \union Permutations(Tasks)
=============================================================================
