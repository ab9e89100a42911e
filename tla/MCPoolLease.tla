----------------------------- MODULE MCPoolLease ----------------------------
(* Small instances of a pool slot and its leases. *)
EXTENDS PoolLease, TLC

\* The clients are interchangeable.
Symmetry == Permutations(Leases)
=============================================================================
