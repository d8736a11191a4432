---------------------------- MODULE MC_McpClient ----------------------------
(* Model-checking instances of McpClient. *)
EXTENDS McpClient
=============================================================================
