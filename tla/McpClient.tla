----------------------------- MODULE McpClient -----------------------------
(***************************************************************************)
(* The `mcp` command of a session for one `mcp run`: the shell script that *)
(* materializeMcpShim() of src/src/mcp.ts writes, and the native client of *)
(* crates/pi-mcp-client/src/main.rs, over the workflow of McpWorkflow.     *)
(* The script runs the client, starts the daemon when the client ends with *)
(* Unavailable, and runs the client again; without a daemon's coordinates  *)
(* it runs the command in a process of its own.                            *)
(***************************************************************************)
EXTENDS McpWorkflow

VARIABLES
  up,           \* the daemon listens
  client,       \* what the client is doing
  tries,        \* how often the script has run it
  stdin,        \* tries that have read the input of the command
  requests,     \* tries that have sent their request
  interrupted,  \* the client was interrupted
  cancel,       \* its cancel request: "none", "sent" or "done"
  code          \* the exit code of the command, or None

clientVars == <<up, client, tries, stdin, requests, interrupted, cancel, code>>
vars == <<workflowVars, clientVars>>

Unavailable == 75

Init ==
  /\ up \in BOOLEAN /\ tries = 1 /\ stdin = {} /\ requests = {}
  /\ interrupted = FALSE /\ cancel = "none" /\ code = None
  /\ \/ InitAs("daemon", "none") /\ client = "pinging"
     \/ InitAs("cli", "script") /\ client = "none"

-----------------------------------------------------------------------------
\* The memory of a process that ended.
Forgotten ==
  /\ aborted' = FALSE /\ frozen' = FALSE /\ late' = FALSE
  /\ error' = "none" /\ unsafe' = {} /\ counted' = {}
  /\ stage' = [c \in Calls |-> "unused"]
  /\ outcome' = [c \in Calls |-> "pending"]
  /\ observed' = {} /\ remote' = {}
  /\ waiting' = <<>> /\ active' = 0 /\ cancelled' = FALSE

Keep == UNCHANGED <<tries, interrupted, cancel>>
Exits(with) == client' = "ended" /\ code' = with

\* A client that ends with Unavailable is run again, once, after the daemon
\* was started.
Ends(with) ==
  IF with = Unavailable /\ tries = 1
  THEN client' = "supervising" /\ UNCHANGED code
  ELSE Exits(with)

\* daemon_ready(): connects, for 250 ms at most, and is answered.
Ping ==
  /\ client = "pinging"
  /\ \/ up /\ client' = "connecting" /\ UNCHANGED code
     \/ Ends(Unavailable)
  /\ Keep /\ UNCHANGED <<workflowVars, up, stdin, requests>>

Connect ==
  /\ client = "connecting"
  /\ \/ up /\ client' = "reading" /\ UNCHANGED code
     \/ Ends(Unavailable)
  /\ Keep /\ UNCHANGED <<workflowVars, up, stdin, requests>>

\* The script is read from stdin.
ReadStdin ==
  /\ client = "reading"
  /\ stdin' = stdin \cup {tries}
  /\ \/ client' = "sending" /\ UNCHANGED code
     \/ Exits(1)
  /\ Keep /\ UNCHANGED <<workflowVars, up, requests>>

\* The daemon takes the request up, or is gone.
Send ==
  /\ client = "sending"
  /\ \/ /\ up /\ client' = "waiting" /\ requests' = requests \cup {tries} /\ phase' = "joining"
        /\ UNCHANGED <<code, place, worker, aborted, exit>>
     \/ ~up /\ Exits(1) /\ UNCHANGED <<requests, hostVars>>
  /\ Keep /\ UNCHANGED <<up, stdin, scriptVars, callVars, queueVars>>

\* `--start-daemon` of mcp-client.ts, which may fail.
Supervise ==
  /\ client = "supervising"
  /\ \/ client' = "pinging" /\ tries' = 2 /\ up' = TRUE /\ UNCHANGED code
     \/ Exits(1) /\ UNCHANGED <<tries, up>>
  /\ UNCHANGED <<workflowVars, stdin, requests, interrupted, cancel>>

\* SIGINT or SIGTERM: the first one sends a cancel request on a connection of
\* its own and is remembered; later ones find nobody.
Interrupt ==
  /\ client = "waiting" /\ ~interrupted
  /\ interrupted' = TRUE
  /\ cancel' = IF up THEN "sent" ELSE cancel
  /\ UNCHANGED <<workflowVars, up, client, tries, stdin, requests, code>>

\* The exit code of the workflow, or the end of the connection.
Receive ==
  /\ client = "waiting"
  /\ \/ exit # None /\ Exits(IF interrupted THEN 130 ELSE exit)
     \/ exit = None /\ ~up /\ Exits(IF interrupted THEN 130 ELSE 1)
  /\ Keep /\ UNCHANGED <<workflowVars, up, stdin, requests>>

\* Whoever reads the output is gone: the workflow is cancelled and the
\* command ends well.
BreakPipe ==
  /\ client = "waiting" /\ exit = None /\ phase # "joining"
  /\ cancel' = IF up THEN "sent" ELSE cancel
  /\ Exits(0)
  /\ UNCHANGED <<workflowVars, up, tries, stdin, requests, interrupted>>

\* The daemon handles the cancel request, or sees that the client is gone.
Cancelled ==
  /\ up /\ place = "daemon" /\ phase # "none"
  /\ \/ cancel = "sent" /\ cancel' = "done"
     \/ client = "ended" /\ UNCHANGED cancel
  /\ Abort
  /\ UNCHANGED <<up, client, tries, stdin, requests, interrupted, code>>

\* Nothing runs any more when it arrives.
CancelIsLate ==
  /\ cancel = "sent" /\ (exit # None \/ aborted \/ ~up)
  /\ cancel' = "done"
  /\ UNCHANGED <<workflowVars, up, client, tries, stdin, requests, interrupted, code>>

\* The daemon's process ends, and nothing of the workflow is left.
DaemonDies ==
  /\ up /\ up' = FALSE /\ place = "daemon"
  /\ IF exit = None /\ phase # "none"
     THEN /\ phase' = "lost" /\ worker' = "gone" /\ Forgotten
          /\ UNCHANGED <<place, exit, reached>>
     ELSE UNCHANGED workflowVars
  /\ UNCHANGED <<client, tries, stdin, requests, interrupted, cancel, code>>

Workflow ==
  /\ Script \/ Progress \/ DeadlinePasses \/ Kill \/ (place = "cli" /\ Abort)
  /\ phase # "lost" /\ UNCHANGED clientVars

Client == Ping \/ Connect \/ ReadStdin \/ Send \/ Supervise \/ Receive

Next ==
  \/ Workflow \/ Client \/ Interrupt \/ BreakPipe \/ Cancelled \/ CancelIsLate \/ DaemonDies

Spec ==
  /\ Init /\ [][Next]_vars
  /\ WF_vars(phase # "lost" /\ Progress /\ UNCHANGED clientVars)
  /\ WF_vars(phase # "lost" /\ DeadlinePasses /\ UNCHANGED clientVars)
  /\ WF_vars(phase # "lost" /\ Kill /\ UNCHANGED clientVars)
  /\ WF_vars(Client) /\ WF_vars(Cancelled)

-----------------------------------------------------------------------------
\* The input of the command is there for the try that asks for it, and the
\* workflow is run by one try: what a failed try has read or sent is not asked
\* for again.
InputIsNotLost == \A t \in stdin \cup requests : t = tries

\* What may be done again has not been done: the model repeats a call that was
\* not started, the script repeats a try that found no daemon.
RetriesAreSafe == NotStartedIsTrue /\ InputIsNotLost

\* The command ends: with the workflow, when it is cut off or when nobody
\* answers; and no worker of the daemon outlives its request, one whose cancel
\* came too early included.
CommandEnds ==
  /\ <>(IF place = "cli" THEN exit # None ELSE code # None)
  /\ place = "daemon" => (worker = "alive" ~> worker # "alive")
=============================================================================
