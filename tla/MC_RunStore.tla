---------------------------- MODULE MC_RunStore ----------------------------
(* Model-checking instances of RunStore. *)
EXTENDS RunStore, TLC

Symmetry == Permutations(Runs)
=============================================================================
