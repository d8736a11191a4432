-------------------------- MODULE MC_SessionLease --------------------------
(* Model-checking instances of SessionLease. *)
EXTENDS SessionLease, TLC

Symmetry == Permutations(Sessions) \cup Permutations(Envs)
=============================================================================
