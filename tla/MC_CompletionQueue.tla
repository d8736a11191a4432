------------------------ MODULE MC_CompletionQueue ------------------------
(* Model-checking instances of CompletionQueue. *)
EXTENDS CompletionQueue, TLC

Symmetry == Permutations(Runs) \cup Permutations(Waits)
=============================================================================
