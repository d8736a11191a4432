---------------------------- MODULE MC_PiSession ----------------------------
(* Model-checking instances of PiSession. *)
EXTENDS PiSession, TLC

CONSTANTS v1, v2, v3

\* One version of the Recipe for each thing it may say of MCP.
MCMcpMode == v1 :> "cli" @@ v2 :> "tools" @@ v3 :> "bare"

Symmetry == Permutations(Options)
=============================================================================
