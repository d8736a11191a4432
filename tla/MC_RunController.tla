-------------------------- MODULE MC_RunController --------------------------
(* Model-checking instances of RunController. *)
EXTENDS RunController, TLC

Symmetry == Permutations(Runs) \cup Permutations(Turns) \cup Permutations(Calls)
=============================================================================
