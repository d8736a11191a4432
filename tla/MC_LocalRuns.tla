---------------------------- MODULE MC_LocalRuns ----------------------------
(* A model-checking instance of LocalRuns. *)
EXTENDS LocalRuns

Started == {r \in Runs : status[r] # "none"}

FirstRun == CHOOSE r \in Runs : TRUE

\* Bound: runs start in a fixed order, and a wait or a steering message comes
\* only while there is a single one.
MCBound ==
  /\ Started # {} => FirstRun \in Started
  /\ (\E c \in Calls : call[c] # NoCall \/ session[c] # "none") => Started = {FirstRun}
=============================================================================
