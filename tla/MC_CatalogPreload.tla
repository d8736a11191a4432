------------------------- MODULE MC_CatalogPreload -------------------------
(* Model-checking instances of CatalogPreload. *)
EXTENDS CatalogPreload, TLC

Symmetry == Permutations(Servers) \cup Permutations(Requests) \cup Permutations(Loops)
=============================================================================
