------------------------------ MODULE McpCall ------------------------------
(***************************************************************************)
(* A direct MCP tool call through the daemon: callMcpDaemonTool() and      *)
(* exchangeMcpDaemon() of src/src/mcp-daemon-client.ts against handle(),   *)
(* callToolRequest() and shutdown() of src/src/mcp-daemon.ts.              *)
(*                                                                         *)
(* Every call has a connection of its own, and its cancellation another,   *)
(* so the two may arrive in any order.  The daemon is the one that was     *)
(* there when the connection was made; how it was started is the business  *)
(* of McpDaemonStart.  An action is what one process does between two      *)
(* awaits or events.                                                       *)
(***************************************************************************)
EXTENDS Integers

CONSTANT Calls  \* request ids: each is a fresh UUID

VARIABLES
  caller,   \* what callMcpDaemonTool() is doing or how it ended
  away,     \* calls whose calling process has ended
  wire,     \* what is on the connection of each call
  cancel,   \* the cancel request of each call
  handler,  \* what callToolRequest() is doing
  active,   \* the daemon's map of running requests
  aborted,  \* requests whose controller was aborted
  ran,      \* calls whose tool the remote server was asked to run
  daemon    \* the daemon process

callerVars == <<caller, away, cancel>>
daemonVars == <<handler, active, aborted, ran, daemon>>
vars == <<callerVars, wire, daemonVars>>

Told == {"failed", "result", "unknown"}
Replies == {"error", "warning", "result"}
Working == {"authorizing", "starting", "calling"}

Init ==
  /\ caller = [c \in Calls |-> "idle"]
  /\ away = {}
  /\ wire = [c \in Calls |-> "none"]
  /\ cancel = [c \in Calls |-> "none"]
  /\ handler = [c \in Calls |-> "none"]
  /\ active = {} /\ aborted = {} /\ ran = {}
  /\ daemon = "up"

-----------------------------------------------------------------------------
(* callMcpDaemonTool(), and the connection of exchangeMcpDaemon()          *)

\* The caller of c is told this, unless it gave up before.
Tell(c, what) ==
  caller' = [caller EXCEPT ![c] = IF @ = "exchanging" THEN what ELSE @]

OnWire(c, what) == wire' = [wire EXCEPT ![c] = what]

\* Aborted before anything was sent, or no daemon could be started.
CallFails(c) ==
  /\ caller[c] = "idle"
  /\ caller' = [caller EXCEPT ![c] = "failed"]
  /\ UNCHANGED <<away, cancel, wire, daemonVars>>

Call(c) ==
  /\ caller[c] = "idle"
  /\ caller' = [caller EXCEPT ![c] = "exchanging"]
  /\ OnWire(c, "connecting")
  /\ UNCHANGED <<away, cancel, daemonVars>>

\* The request is written as soon as the connection is there.
Connect(c) ==
  /\ wire[c] = "connecting" /\ daemon = "up"
  /\ OnWire(c, "request")
  /\ UNCHANGED <<callerVars, daemonVars>>

\* Nobody listens: the exchange rejects with requestWritten unset.
ConnectFails(c) ==
  /\ wire[c] = "connecting" /\ daemon # "up"
  /\ OnWire(c, "closed")
  /\ Tell(c, "failed")
  /\ UNCHANGED <<away, cancel, daemonVars>>

\* The connection goes down with the daemon after the request was written.
Lose(c) ==
  /\ daemon = "gone" /\ wire[c] \in {"request", "served"} \cup Replies
  /\ OnWire(c, "closed")
  /\ Tell(c, "unknown")
  /\ UNCHANGED <<away, cancel, daemonVars>>

Reply(c) ==
  /\ c \notin away /\ wire[c] \in Replies
  /\ OnWire(c, "closed")
  /\ Tell(c, CASE wire[c] = "error"   -> "failed"
               [] wire[c] = "warning" -> "unknown"
               [] wire[c] = "result"  -> "result")
  /\ UNCHANGED <<away, cancel, daemonVars>>

\* FAULT: the hard timeout is armed when the daemon takes up the request.
GiveUpServed(c) ==
  /\ caller[c] = "exchanging" /\ wire[c] = "served"
  /\ caller' = [caller EXCEPT ![c] = "unknown"]
  /\ cancel' = [cancel EXCEPT ![c] = "sent"]
  /\ UNCHANGED <<away, wire, daemonVars>>

\* The signal is aborted or the hard timeout fires: a cancel request is sent
\* and the exchange is left to itself, even if it has yet to connect.
GiveUp(c) ==
  /\ caller[c] = "exchanging"
  /\ caller' = [caller EXCEPT ![c] = "unknown"]
  /\ cancel' = [cancel EXCEPT ![c] = "sent"]
  /\ UNCHANGED <<away, wire, daemonVars>>

\* The calling process ends.  A request it wrote may still be read.
HangUp(c) ==
  /\ caller[c] # "idle" /\ c \notin away
  /\ away' = away \cup {c}
  /\ Tell(c, "gone")
  /\ \/ wire[c] \in {"connecting", "request"} \cup Replies /\ OnWire(c, "closed")
     \/ wire[c] # "connecting" /\ UNCHANGED wire
  /\ UNCHANGED <<cancel, daemonVars>>

-----------------------------------------------------------------------------
(* The daemon: handle() and callToolRequest()                              *)

\* FAULT: nothing is refused while the daemon shuts down.
AcceptLate(c) ==
  /\ wire[c] = "request" /\ daemon # "gone"
  /\ OnWire(c, "served")
  /\ active' = active \cup {c}
  /\ \E next \in {"authorizing", "starting"} : handler' = [handler EXCEPT ![c] = next]
  /\ UNCHANGED <<callerVars, aborted, ran, daemon>>

\* A cached catalog that has the tool saves waiting for one.
Accept(c) ==
  /\ wire[c] = "request" /\ daemon = "up"
  /\ OnWire(c, "served")
  /\ active' = active \cup {c}
  /\ \E next \in {"authorizing", "starting"} : handler' = [handler EXCEPT ![c] = next]
  /\ UNCHANGED <<callerVars, aborted, ran, daemon>>

\* Stopping, or the request is too large or has a stale token.
Refuse(c) ==
  /\ wire[c] = "request" /\ daemon # "gone"
  /\ OnWire(c, "error")
  /\ UNCHANGED <<callerVars, daemonVars>>

\* The end of callToolRequest(): whoever is still there gets this reply.
Finish(c, reply) ==
  /\ handler' = [handler EXCEPT ![c] = "done"]
  /\ active' = active \ {c}
  /\ OnWire(c, IF wire[c] = "served" THEN reply ELSE wire[c])
  /\ UNCHANGED <<callerVars, aborted, daemon>>

\* The tool is in the catalog that was waited for.
Authorize(c) ==
  /\ handler[c] = "authorizing" /\ c \notin aborted
  /\ handler' = [handler EXCEPT ![c] = "starting"]
  /\ UNCHANGED <<callerVars, wire, active, aborted, ran, daemon>>

\* It is not, or there is no catalog, or the call was cancelled meanwhile.
Deny(c) ==
  /\ handler[c] = "authorizing"
  /\ Finish(c, "error")
  /\ UNCHANGED ran

\* runtime() settles; an abort is not looked at any more.
Dispatch(c) ==
  /\ handler[c] = "starting"
  /\ handler' = [handler EXCEPT ![c] = "calling"]
  /\ ran' = ran \cup {c}
  /\ UNCHANGED <<callerVars, wire, active, aborted, daemon>>

RuntimeFails(c) ==
  /\ handler[c] = "starting"
  /\ Finish(c, "error")
  /\ UNCHANGED ran

\* FAULT: dispatched is not looked at in the catch.
RejectPlain(c) ==
  /\ handler[c] = "calling"
  /\ Finish(c, "error")
  /\ UNCHANGED ran

\* callTool() rejects or times out, the call was aborted while it ran, or its
\* result cannot be serialized.
Reject(c) ==
  /\ handler[c] = "calling"
  /\ Finish(c, "warning")
  /\ UNCHANGED ran

Answer(c) ==
  /\ handler[c] = "calling" /\ c \notin aborted
  /\ Finish(c, "result")
  /\ UNCHANGED ran

\* A cancel request finds its call running, or finds nothing: not yet, or no
\* more.
CancelArrives(c) ==
  /\ cancel[c] = "sent"
  /\ cancel' = [cancel EXCEPT ![c] = "done"]
  /\ aborted' = IF c \in active THEN aborted \cup {c} ELSE aborted
  /\ UNCHANGED <<caller, away, wire, handler, active, ran, daemon>>

\* The connection of a running call is closed by its caller.
SeeClose(c) ==
  /\ c \in away /\ wire[c] = "served" /\ daemon # "gone"
  /\ OnWire(c, "closed")
  /\ aborted' = aborted \cup {c}
  /\ UNCHANGED <<callerVars, handler, active, ran, daemon>>

\* shutdown() as far as its await.
Shutdown ==
  /\ daemon = "up"
  /\ daemon' = "stopping"
  /\ aborted' = aborted \cup active
  /\ UNCHANGED <<callerVars, wire, handler, active, ran>>

\* The process goes: the end of the grace period, or killed.
Gone ==
  /\ daemon' = "gone"
  /\ handler' = [c \in Calls |-> IF handler[c] \in Working THEN "done" ELSE handler[c]]
  /\ active' = {}
  /\ UNCHANGED <<callerVars, wire, aborted, ran>>

Exit == daemon = "stopping" /\ Gone

Killed == daemon # "gone" /\ Gone

-----------------------------------------------------------------------------
Transport(c) == Connect(c) \/ ConnectFails(c) \/ Lose(c) \/ Reply(c)

Handle(c) ==
  \/ Accept(c) \/ Refuse(c) \/ Authorize(c) \/ Deny(c)
  \/ Dispatch(c) \/ RuntimeFails(c) \/ Reject(c) \/ Answer(c)

Next ==
  \/ \E c \in Calls :
       \/ CallFails(c) \/ Call(c) \/ GiveUp(c) \/ HangUp(c)
       \/ Transport(c) \/ Handle(c) \/ CancelArrives(c) \/ SeeClose(c)
  \/ Shutdown \/ Exit \/ Killed

Spec == Init /\ [][Next]_vars

\* Nothing but the caller's own timer can be relied on.
TimedSpec == Spec /\ \A c \in Calls : WF_vars(GiveUp(c))

\* Discovery, runtime() and callTool() settle: each has a timeout.
ServerSettles ==
  /\ \A c \in Calls : WF_vars(Handle(c)) /\ WF_vars(SeeClose(c))
  /\ WF_vars(Exit)

-----------------------------------------------------------------------------
TypeOK ==
  /\ caller \in [Calls -> {"idle", "exchanging", "gone"} \cup Told]
  /\ away \in SUBSET Calls
  /\ wire \in [Calls -> {"none", "connecting", "request", "served", "closed"} \cup Replies]
  /\ cancel \in [Calls -> {"none", "sent", "done"}]
  /\ handler \in [Calls -> {"none", "done"} \cup Working]
  /\ active \in SUBSET Calls
  /\ aborted \in SUBSET Calls
  /\ ran \in SUBSET Calls
  /\ daemon \in {"up", "stopping", "gone"}

\* What callers are told of side effects is true, then and later: an error
\* without the warning means that the tool did not run and never will.
knows == [c \in Calls |-> IF caller[c] \in Told THEN caller[c] ELSE "nothing"]

KnowsOutcome == INSTANCE CallContract WITH told <- knows

KeepsContract == KnowsOutcome!Spec

\* shutdown() reaches every request: none is taken up after it and left to run
\* without its controller being aborted.
ShutdownReachesAll == daemon = "stopping" => active \subseteq aborted

\* Every call ends, whatever becomes of the daemon and of the connection.
CallsReturn == \A c \in Calls : caller[c] = "exchanging" ~> caller[c] # "exchanging"

\* While the daemon's own awaits settle no request stays in its map, that of a
\* caller who gave up and that of one whose cancel came too early included.
RequestsEnd == ServerSettles => \A c \in Calls : c \in active ~> c \notin active

\* Neither side of a call is left with it.
CallsEnd == CallsReturn /\ RequestsEnd
=============================================================================
