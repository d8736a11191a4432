--------------------------- MODULE MC_CatalogCache ---------------------------
(* Model-checking instances of CatalogCache. *)
EXTENDS CatalogCache
=============================================================================
