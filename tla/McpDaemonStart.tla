--------------------------- MODULE McpDaemonStart ---------------------------
(***************************************************************************)
(* How clients agree on one MCP daemon: ensureMcpDaemon() of               *)
(* src/src/mcp-daemon-client.ts, the startup and shutdown of               *)
(* src/src/mcp-daemon.ts, and stopMcpDaemon() of src/src/mcp.ts.           *)
(*                                                                         *)
(* Clients are processes of one session: they share a socket path, a lock  *)
(* file beside it, a token and a fingerprint.  An action is what happens   *)
(* between two awaits, at most one of them a system call on the lock file  *)
(* or on the socket path.  A client that died is not replaced by another   *)
(* process with its pid.                                                   *)
(***************************************************************************)
EXTENDS Integers, FiniteSets

CONSTANTS
  Clients,  \* processes that call ensureMcpDaemon()
  Daemons,  \* daemon processes that may be spawned
  Nothing,     \* no lock file, no socket file
  Faults    \* what can go wrong: of "crash", "deadline" and "stop"

ASSUME McpDaemonStartAssumption ==
  /\ Nothing \notin Daemons
  /\ Nothing \notin [by : Clients, text : {"empty", "pid"}]
  /\ Faults \subseteq {"crash", "deadline", "stop"}

VARIABLES
  pc,      \* where each client is in ensureMcpDaemon()
  holds,   \* clients with `lock` set: they created a lock file
  lock,    \* the lock file: who created it and its text
  path,    \* the daemon that the socket path leads to
  daemon,  \* the state of each daemon process
  faults   \* what goes wrong in this execution; it never changes

startVars == <<pc, holds, lock, path, daemon, faults>>

Alive(c) == pc[c] # "dead"
Starting == {"opened", "named", "cleared", "polling", "ready", "expired"}

\* A ping is answered.  The fingerprint is part of the socket path.
Answers == path # Nothing /\ daemon[path] = "up"

Goto(c, where) == pc' = [pc EXCEPT ![c] = where]

StartInit ==
  /\ pc = [c \in Clients |-> "idle"]
  /\ holds = {}
  /\ lock = Nothing /\ path = Nothing
  /\ daemon = [d \in Daemons |-> "unused"]
  /\ faults \in SUBSET Faults

-----------------------------------------------------------------------------
(* ensureMcpDaemon()                                                       *)

\* The first ping.  One that is answered makes the call return.
FirstPing(c) ==
  /\ pc[c] \in {"idle", "retrying"}
  /\ \/ Answers /\ Goto(c, "idle")
     \/ ~Answers /\ Goto(c, "missed")
  /\ UNCHANGED <<holds, lock, path, daemon, faults>>

\* FAULT: the lock is taken whether the file exists or not.
OpenRegardless(c) ==
  /\ pc[c] = "missed"
  /\ lock' = [by |-> c, text |-> "empty"]
  /\ holds' = holds \cup {c}
  /\ Goto(c, "opened")
  /\ UNCHANGED <<path, daemon, faults>>

\* open(lockPath, "wx")
OpenLock(c) ==
  /\ pc[c] = "missed"
  /\ \/ /\ lock = Nothing
        /\ lock' = [by |-> c, text |-> "empty"]
        /\ holds' = holds \cup {c}
        /\ Goto(c, "opened")
     \/ /\ lock # Nothing
        /\ Goto(c, "contending")
        /\ UNCHANGED <<lock, holds>>
  /\ UNCHANGED <<path, daemon, faults>>

\* Only a pid that is there to be read and belongs to no process is stale.
ReadLock(c) ==
  /\ pc[c] = "contending"
  /\ Goto(c, IF lock # Nothing /\ lock.text = "pid" /\ ~Alive(lock.by) THEN "breaking" ELSE "polling")
  /\ UNCHANGED <<holds, lock, path, daemon, faults>>

\* rm(lockPath), whoever's it is by now, and start over.
BreakLock(c) ==
  /\ pc[c] = "breaking"
  /\ lock' = Nothing
  /\ Goto(c, "retrying")
  /\ UNCHANGED <<holds, path, daemon, faults>>

\* The pid goes to the file that was opened, which may be gone.
WritePid(c) ==
  /\ pc[c] = "opened"
  /\ lock' = IF lock # Nothing /\ lock.by = c THEN [lock EXCEPT !.text = "pid"] ELSE lock
  /\ Goto(c, "named")
  /\ UNCHANGED <<holds, path, daemon, faults>>

ClearSocket(c) ==
  /\ pc[c] = "named"
  /\ path' = Nothing
  /\ Goto(c, "cleared")
  /\ UNCHANGED <<holds, lock, daemon, faults>>

Spawn(c) ==
  /\ pc[c] = "cleared"
  /\ \E d \in Daemons :
       /\ daemon[d] = "unused" /\ d = CHOOSE x \in Daemons : daemon[x] = "unused"
       /\ daemon' = [daemon EXCEPT ![d] = "spawned"]
  /\ Goto(c, "polling")
  /\ UNCHANGED <<holds, lock, path, faults>>

\* FAULT: an error while starting leaves the lock behind.
SpawnFailsLocked(c) ==
  /\ "deadline" \in faults
  /\ pc[c] = "cleared"
  /\ holds' = holds \ {c}
  /\ Goto(c, "idle")
  /\ UNCHANGED <<lock, path, daemon, faults>>

\* The call throws.
SpawnFails(c) ==
  /\ "deadline" \in faults
  /\ pc[c] = "cleared"
  /\ lock' = Nothing
  /\ holds' = holds \ {c}
  /\ Goto(c, "idle")
  /\ UNCHANGED <<path, daemon, faults>>

\* A ping that goes unanswered is repeated, which changes nothing.
Poll(c) ==
  /\ pc[c] = "polling" /\ Answers
  /\ Goto(c, "ready")
  /\ UNCHANGED <<holds, lock, path, daemon, faults>>

\* FAULT: the call waits for the daemon however long that takes.
PollPatiently(c) ==
  /\ pc[c] = "polling" /\ Answers
  /\ Goto(c, "expired")
  /\ UNCHANGED <<holds, lock, path, daemon, faults>>

PollExpires(c) ==
  /\ "deadline" \in faults
  /\ pc[c] = "polling"
  /\ Goto(c, "expired")
  /\ UNCHANGED <<holds, lock, path, daemon, faults>>

\* if (lock) rm(lockPath): the call returns or throws.
Leave(c) ==
  /\ pc[c] \in {"ready", "expired"}
  /\ lock' = IF c \in holds THEN Nothing ELSE lock
  /\ holds' = holds \ {c}
  /\ Goto(c, "idle")
  /\ UNCHANGED <<path, daemon, faults>>

\* The client process is killed; an idle one is of no interest.
Crash(c) ==
  /\ "crash" \in faults
  /\ pc[c] \notin {"idle", "dead"}
  /\ Goto(c, "dead")
  /\ UNCHANGED <<holds, lock, path, daemon, faults>>

-----------------------------------------------------------------------------
(* The daemon process.                                                     *)

\* rm(socketPath)
Clears(d) ==
  /\ daemon[d] = "spawned"
  /\ path' = Nothing
  /\ daemon' = [daemon EXCEPT ![d] = "binding"]
  /\ UNCHANGED <<pc, holds, lock, faults>>

\* server.listen(): an address in use ends the process.
Listens(d) ==
  /\ daemon[d] = "binding"
  /\ \/ path = Nothing /\ path' = d /\ daemon' = [daemon EXCEPT ![d] = "up"]
     \/ path # Nothing /\ path' = path /\ daemon' = [daemon EXCEPT ![d] = "gone"]
  /\ UNCHANGED <<pc, holds, lock, faults>>

\* shutdown() as far as its await: closing the server unlinks the path.
Closes(d) ==
  /\ daemon[d] = "up"
  /\ path' = Nothing
  /\ daemon' = [daemon EXCEPT ![d] = "closing"]
  /\ UNCHANGED <<pc, holds, lock, faults>>

\* stopMcpDaemon() reaches the daemon that the path leads to.
Stop == "stop" \in faults /\ \E d \in Daemons : path = d /\ Closes(d)

\* The end of shutdown(): rm(socketPath) once more, and exit.
DaemonExits(d) ==
  /\ daemon[d] = "closing"
  /\ path' = Nothing
  /\ daemon' = [daemon EXCEPT ![d] = "gone"]
  /\ UNCHANGED <<pc, holds, lock, faults>>

\* The process is killed and leaves its socket file.
Killed(d) ==
  /\ "crash" \in faults
  /\ daemon[d] \in {"spawned", "binding", "up"}
  /\ daemon' = [daemon EXCEPT ![d] = "gone"]
  /\ UNCHANGED <<pc, holds, lock, path, faults>>

-----------------------------------------------------------------------------
ClientStep(c) ==
  \/ pc[c] = "retrying" /\ FirstPing(c)
  \/ OpenLock(c) \/ ReadLock(c) \/ BreakLock(c)
  \/ WritePid(c) \/ ClearSocket(c) \/ Spawn(c) \/ SpawnFails(c)
  \/ Poll(c) \/ PollExpires(c) \/ Leave(c)

DaemonStep(d) == Clears(d) \/ Listens(d) \/ DaemonExits(d)

StartNext ==
  \/ \E c \in Clients : ClientStep(c) \/ FirstPing(c) \/ Crash(c)
  \/ \E d \in Daemons : DaemonStep(d) \/ Killed(d)
  \/ Stop

StartSpec == StartInit /\ [][StartNext]_startVars

\* System calls return, processes that are spawned run and deadlines expire.
FairStartSpec ==
  /\ StartSpec
  /\ \A c \in Clients : WF_startVars(ClientStep(c))
  /\ \A d \in Daemons : WF_startVars(DaemonStep(d))

-----------------------------------------------------------------------------
StartTypeOK ==
  /\ pc \in [Clients -> {"idle", "missed", "contending", "breaking",
                         "retrying", "dead"} \cup Starting]
  /\ holds \in SUBSET Clients
  /\ lock \in {Nothing} \cup [by : Clients, text : {"empty", "pid"}]
  /\ path \in Daemons \cup {Nothing}
  /\ daemon \in [Daemons -> {"unused", "spawned", "binding", "up", "closing", "gone"}]
  /\ faults \in SUBSET Faults

\* Unless clients die, at most one is between taking the lock and giving it
\* up, and the lock file is then there and its own.
LockIsExclusive ==
  "crash" \notin faults => \A c \in holds : lock # Nothing /\ lock.by = c

\* Unless clients die, no lock file is left when nobody is starting.
LockIsReleased == "crash" \notin faults /\ lock # Nothing => holds # {}

\* The lock file stands for exactly one client that is starting.
LockIsKept == LockIsExclusive /\ LockIsReleased

\* With nothing but races between clients, a daemon that was started can be
\* reached whenever every call has returned.
DaemonIsReachable ==
  /\ faults = {}
  /\ \A c \in Clients : pc[c] = "idle"
  /\ \E d \in Daemons : daemon[d] = "up"
  => Answers

\* Where deadlines expire every call returns or throws, or its process is gone.
CallsReturn ==
  \A c \in Clients :
    "deadline" \in faults /\ pc[c] # "idle" ~> pc[c] \in {"idle", "dead"}

\* A lock that names a dead process, once a client sees it, does not last.
StaleLocksGo ==
  \A c, o \in Clients :
    (/\ pc[c] = "contending" /\ lock # Nothing
     /\ lock.by = o /\ lock.text = "pid" /\ pc[o] = "dead")
    ~> (lock = Nothing \/ lock.by # o \/ pc[c] = "dead")

\* No call waits for ever, for its own deadline or for a lock of the dead.
CallsEnd == CallsReturn /\ StaleLocksGo
=============================================================================
