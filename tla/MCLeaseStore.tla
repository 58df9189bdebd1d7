---------------------------- MODULE MCLeaseStore ----------------------------
(* Small instance of LeaseStore for TLC. *)
EXTENDS LeaseStore, TLC

Symmetry == Permutations(Callers) \cup Permutations(Owners)
=============================================================================
