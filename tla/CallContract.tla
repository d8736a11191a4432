---------------------------- MODULE CallContract ----------------------------
(***************************************************************************)
(* What the MCP daemon promises a caller about the side effects of a tool  *)
(* call: the messages "remote outcome is unknown; do not retry             *)
(* automatically" of src/src/mcp-daemon.ts and mcp-daemon-client.ts.       *)
(* A remote tool may run, once, and the caller is told at most once.  An   *)
(* error without that warning promises that the tool did not run and never *)
(* will, so that the call may be made again.                               *)
(***************************************************************************)
CONSTANT Calls

VARIABLES
  ran,   \* calls whose tool the remote server was asked to run
  told   \* what the caller of each call knows

vars == <<ran, told>>

Init == ran = {} /\ told = [c \in Calls |-> "nothing"]

Run(c) ==
  /\ c \notin ran /\ told[c] # "failed"
  /\ ran' = ran \cup {c}
  /\ UNCHANGED told

Tell(c) ==
  /\ told[c] = "nothing"
  /\ \E what \in {"failed", "result", "unknown"} :
       /\ what = "failed" => c \notin ran
       /\ what = "result" => c \in ran
       /\ told' = [told EXCEPT ![c] = what]
  /\ UNCHANGED ran

Next == \E c \in Calls : Run(c) \/ Tell(c)

Spec == Init /\ [][Next]_vars
=============================================================================
