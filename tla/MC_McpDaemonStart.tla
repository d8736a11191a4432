------------------------- MODULE MC_McpDaemonStart -------------------------
(* Model-checking instances of McpDaemonStart. *)
EXTENDS McpDaemonStart, TLC

Symmetry == Permutations(Clients) \cup Permutations(Daemons)
=============================================================================
