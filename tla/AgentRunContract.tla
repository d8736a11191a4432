-------------------------- MODULE AgentRunContract --------------------------
(***************************************************************************)
(* What an AgentRunController promises about the life of its runs, as far  *)
(* as a caller can see it: the portable lifecycle of src/src/agents.ts.    *)
(* A run is one session that works on one turn at a time.  Only the turn   *)
(* it is working on settles it, a settled run takes a follow-up, and a     *)
(* closed run stays closed.                                                *)
(***************************************************************************)
CONSTANT Runs

VARIABLES
  status,   \* AgentRunSummary.status; "none" before start()
  working   \* is a turn of the run still executing?

vars == <<status, working>>

Init ==
  /\ status = [r \in Runs |-> "none"]
  /\ working = [r \in Runs |-> FALSE]

\* start() on a new run and message() on a settled one both begin a turn,
\* never beside one that is still executing.
BeginTurn(r) ==
  /\ status[r] \notin {"running", "closed"} /\ ~working[r]
  /\ status' = [status EXCEPT ![r] = "running"]
  /\ working' = [working EXCEPT ![r] = TRUE]

Settle(r) ==
  /\ status[r] = "running" /\ working[r]
  /\ \E outcome \in {"completed", "failed"} :
       status' = [status EXCEPT ![r] = outcome]
  /\ working' = [working EXCEPT ![r] = FALSE]

\* interrupt() stops one run; a host going away may stop several at once.
Interrupt(rs) ==
  /\ \A r \in rs : status[r] = "running"
  /\ status' = [r \in Runs |-> IF r \in rs THEN "interrupted" ELSE status[r]]
  /\ UNCHANGED working

\* A turn that was stopped winds down without touching the status.
WindDown(r) ==
  /\ status[r] \in {"interrupted", "closed"} /\ working[r]
  /\ working' = [working EXCEPT ![r] = FALSE]
  /\ UNCHANGED status

\* close() stops one run, shutdown() all of them.
Close(rs) ==
  /\ \A r \in rs : status[r] \notin {"none", "closed"}
  /\ status' = [r \in Runs |-> IF r \in rs THEN "closed" ELSE status[r]]
  /\ UNCHANGED working

Next ==
  \/ \E r \in Runs : BeginTurn(r) \/ Settle(r) \/ WindDown(r)
  \/ \E rs \in SUBSET Runs : Interrupt(rs) \/ Close(rs)

Spec == Init /\ [][Next]_vars

\* A turn that was begun ends.
TurnsEnd == \A r \in Runs : working[r] ~> ~working[r]
=============================================================================
