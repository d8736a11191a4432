----------------------------- MODULE MC_McpCall -----------------------------
(* Model-checking instances of McpCall. *)
EXTENDS McpCall, TLC

Symmetry == Permutations(Calls)
=============================================================================
