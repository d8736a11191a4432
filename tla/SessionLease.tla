---------------------------- MODULE SessionLease ----------------------------
(***************************************************************************)
(* The life of Recipe sessions that provision MCP in CLI mode:             *)
(* createSessionForAgent() and configureSessionMcp() of src/src/session.ts *)
(* with the daemon of src/src/mcp-daemon-client.ts that their warm-up      *)
(* starts in the background.                                               *)
(*                                                                         *)
(* A session writes its MCP coordinates into an environment object that    *)
(* belongs to the host, and whatever runs later finds there what is there  *)
(* by then.  An action is what happens between two awaits.                 *)
(***************************************************************************)
EXTENDS Integers, FiniteSets

CONSTANTS
  Sessions,  \* calls of createAgentSession()
  Envs,      \* environment objects of the host
  Host,      \* owner of the coordinates that the host put there
  Blank      \* no coordinates

ASSUME SessionLeaseAssumption ==
  Host \notin Sessions /\ Blank \notin Sessions /\ Host # Blank

VARIABLES
  pc,        \* where each session is in its life
  env,       \* the environment it was given
  snapshot,  \* whose coordinates it saw there and will put back
  acquired,  \* what it must release: "runs", "session", "taps"
  coords,    \* whose MCP coordinates are in each environment
  leased,    \* leasedMcpEnvironments
  warm,      \* the warm-up: preloadMcpCatalogs(), ensureMcpDaemon()
  daemon,    \* the daemon of each session's coordinates
  hasty      \* history: sessions that began to end while their warm-up ran

mcpVars == <<coords, leased, warm, daemon>>
leaseVars == <<pc, env, snapshot, acquired, mcpVars, hasty>>

Building == {"configuring", "loading", "creating", "binding"}
Ending == {"endingRuns", "endingSession", "stopping"}

Goto(s, where) == pc' = [pc EXCEPT ![s] = where]

\* The session begins to end.
Ends(s) == hasty' = IF warm[s] \in {"none", "over"} THEN hasty ELSE hasty \cup {s}

LeaseInit ==
  /\ pc = [s \in Sessions |-> "new"]
  /\ env \in [Sessions -> Envs]
  /\ snapshot = [s \in Sessions |-> Blank]
  /\ acquired = [s \in Sessions |-> {}]
  /\ coords = [e \in Envs |-> Host]
  /\ leased = {}
  /\ warm = [s \in Sessions |-> "none"]
  /\ daemon = [s \in Sessions |-> "none"]
  /\ hasty = {}

-----------------------------------------------------------------------------
(* configureSessionMcp()                                                   *)

\* FAULT: an environment is taken whether it is leased or not.
LeaseRegardless(s) ==
  /\ pc[s] = "new"
  /\ snapshot' = [snapshot EXCEPT ![s] = coords[env[s]]]
  /\ leased' = leased \cup {env[s]}
  /\ coords' = [coords EXCEPT ![env[s]] = Blank]
  /\ Goto(s, "configuring")
  /\ UNCHANGED <<env, acquired, warm, daemon, hasty>>

\* Snapshot, lease and isolation are one step; a second session is refused.
Lease(s) ==
  /\ pc[s] = "new"
  /\ \/ /\ env[s] \in leased
        /\ Goto(s, "refused")
        /\ UNCHANGED <<snapshot, coords, leased>>
     \/ /\ env[s] \notin leased
        /\ snapshot' = [snapshot EXCEPT ![s] = coords[env[s]]]
        /\ leased' = leased \cup {env[s]}
        /\ coords' = [coords EXCEPT ![env[s]] = Blank]
        /\ Goto(s, "configuring")
  /\ UNCHANGED <<env, acquired, warm, daemon, hasty>>

\* The coordinates are there; the warm-up begins, if there are servers.
Materialize(s) ==
  /\ pc[s] = "configuring"
  /\ coords' = [coords EXCEPT ![env[s]] = s]
  /\ \E w \in {"none", "pinging"} : warm' = [warm EXCEPT ![s] = w]
  /\ Goto(s, "loading")
  /\ UNCHANGED <<env, snapshot, acquired, leased, daemon, hasty>>

\* FAULT: what fails before the session is built leaves without its cleanup.
MaterializeFailsLeased(s) ==
  /\ pc[s] = "configuring"
  /\ \E c \in {Blank, s} : coords' = [coords EXCEPT ![env[s]] = c]
  /\ Goto(s, "closed")
  /\ UNCHANGED <<env, snapshot, acquired, leased, warm, daemon, hasty>>

MaterializeFails(s) ==
  /\ pc[s] = "configuring"
  /\ \E c \in {Blank, s} : coords' = [coords EXCEPT ![env[s]] = c]
  /\ Goto(s, "stopping")
  /\ UNCHANGED <<env, snapshot, acquired, leased, warm, daemon, hasty>>

-----------------------------------------------------------------------------
(* createSessionForAgent()                                                 *)

\* Connectors, extensions, services and the model; then the controller.
Load(s) ==
  /\ pc[s] = "loading"
  /\ acquired' = [acquired EXCEPT ![s] = @ \cup {"runs"}]
  /\ Goto(s, "creating")
  /\ UNCHANGED <<env, snapshot, mcpVars, hasty>>

\* The tool set without collisions, and the Pi session.
CreateSession(s) ==
  /\ pc[s] = "creating"
  /\ acquired' = [acquired EXCEPT ![s] = @ \cup {"session"}]
  /\ Goto(s, "binding")
  /\ UNCHANGED <<env, snapshot, mcpVars, hasty>>

\* Extensions are bound, every declared tool is there; taps come last.
Bind(s) ==
  /\ pc[s] = "binding"
  /\ \E taps \in SUBSET {"taps"} : acquired' = [acquired EXCEPT ![s] = @ \cup taps]
  /\ Goto(s, "open")
  /\ UNCHANGED <<env, snapshot, mcpVars, hasty>>

\* Any of it throws: cleanup() and then the error.
BuildFails(s) ==
  /\ pc[s] \in {"loading", "creating", "binding"}
  /\ Goto(s, "endingRuns")
  /\ Ends(s)
  /\ UNCHANGED <<env, snapshot, acquired, mcpVars>>

\* A second call returns at once and changes nothing.
Dispose(s) ==
  /\ pc[s] = "open"
  /\ acquired' = [acquired EXCEPT ![s] = @ \ {"taps"}]
  /\ Goto(s, "endingRuns")
  /\ Ends(s)
  /\ UNCHANGED <<env, snapshot, mcpVars>>

\* agentRuns.shutdown() settles; its error is swallowed.
EndRuns(s) ==
  /\ pc[s] = "endingRuns"
  /\ acquired' = [acquired EXCEPT ![s] = @ \ {"runs"}]
  /\ Goto(s, "endingSession")
  /\ UNCHANGED <<env, snapshot, mcpVars, hasty>>

\* session.abort() settles; then session.dispose() and release().
EndSession(s) ==
  /\ pc[s] = "endingSession"
  /\ acquired' = [acquired EXCEPT ![s] = @ \ {"session", "taps"}]
  /\ Goto(s, "stopping")
  /\ UNCHANGED <<env, snapshot, mcpVars, hasty>>

\* release(): stopMcpDaemon() ends the daemon that listens behind the
\* coordinates, if one does; the environment is put back and is free again.
Release(s) ==
  /\ pc[s] = "stopping"
  /\ daemon' = IF coords[env[s]] = s /\ daemon[s] = "up"
               THEN [daemon EXCEPT ![s] = "none"] ELSE daemon
  /\ coords' = [coords EXCEPT ![env[s]] = snapshot[s]]
  /\ leased' = leased \ {env[s]}
  /\ Goto(s, "closed")
  /\ UNCHANGED <<env, snapshot, acquired, warm, hasty>>

-----------------------------------------------------------------------------
(* The warm-up: ensureMcpDaemon() with the environment as it is by then.   *)

\* The first ping fails.  No coordinates: the warm-up throws.  Otherwise a
\* daemon is started, the host's being up already.
WarmPinged(s) ==
  /\ warm[s] = "pinging"
  /\ LET owner == coords[env[s]] IN
     IF owner \in Sessions
     THEN /\ daemon' = [daemon EXCEPT ![owner] = IF @ = "none" THEN "starting" ELSE @]
          /\ warm' = [warm EXCEPT ![s] = "polling"]
     ELSE /\ warm' = [warm EXCEPT ![s] = "over"]
          /\ UNCHANGED daemon
  /\ UNCHANGED <<pc, env, snapshot, acquired, coords, leased, hasty>>

Listens(s) ==
  /\ daemon[s] = "starting"
  /\ daemon' = [daemon EXCEPT ![s] = "up"]
  /\ UNCHANGED <<pc, env, snapshot, acquired, coords, leased, warm, hasty>>

\* A ping is answered, or there is nothing to ping any more.
WarmPolled(s) ==
  /\ warm[s] = "polling"
  /\ coords[env[s]] \in Sessions => daemon[coords[env[s]]] = "up"
  /\ warm' = [warm EXCEPT ![s] = "over"]
  /\ UNCHANGED <<pc, env, snapshot, acquired, coords, leased, daemon, hasty>>

-----------------------------------------------------------------------------
Configure(s) == Lease(s) \/ Materialize(s) \/ MaterializeFails(s)
Build(s) == Load(s) \/ CreateSession(s) \/ Bind(s) \/ BuildFails(s)
Cleanup(s) == EndRuns(s) \/ EndSession(s) \/ Release(s)
WarmUp(s) == WarmPinged(s) \/ Listens(s) \/ WarmPolled(s)

LeaseNext ==
  \E s \in Sessions : Configure(s) \/ Build(s) \/ Dispose(s) \/ Cleanup(s) \/ WarmUp(s)

LeaseSpec == LeaseInit /\ [][LeaseNext]_leaseVars

\* What a session awaits settles: runs shut down, turns abort, and
\* stopMcpDaemon() has a deadline.
FairLeaseSpec ==
  LeaseSpec /\ \A s \in Sessions :
    /\ WF_leaseVars(Materialize(s) \/ MaterializeFails(s))
    /\ WF_leaseVars(Build(s))
    /\ WF_leaseVars(Cleanup(s))
    /\ WF_leaseVars(WarmUp(s))

-----------------------------------------------------------------------------
TypeOK ==
  /\ pc \in [Sessions -> {"new", "refused", "open", "closed"} \cup Building \cup Ending]
  /\ env \in [Sessions -> Envs]
  /\ snapshot \in [Sessions -> Sessions \cup {Host, Blank}]
  /\ acquired \in [Sessions -> SUBSET {"runs", "session", "taps"}]
  /\ coords \in [Envs -> Sessions \cup {Host, Blank}]
  /\ leased \in SUBSET Envs
  /\ warm \in [Sessions -> {"none", "pinging", "polling", "over"}]
  /\ daemon \in [Sessions -> {"none", "starting", "up"}]
  /\ hasty \in SUBSET Sessions

\* An environment that no session holds is as the host left it, however the
\* lives of the sessions that were given it overlapped.
EnvIsRestored == \A e \in Envs : e \notin leased => coords[e] = Host

\* MCP goes last: a session whose environment was given back holds nothing.
ReleasedLast == \A s \in Sessions : pc[s] = "closed" => acquired[s] = {}

\* A session's coordinates are not pulled away from under it.
CoordinatesStay ==
  \A s \in Sessions :
    pc[s] \in {"loading", "creating", "binding", "open"} => coords[env[s]] = s

\* At any time an environment has the coordinates of the one it belongs to.
EnvironmentsAreOwn == EnvIsRestored /\ CoordinatesStay

\* Whatever fails, an environment that was leased comes back: its session is
\* open or will have let go of it.
LeaseComesBack ==
  \A s \in Sessions : pc[s] \in Building \cup Ending ~> pc[s] = "open" \/ env[s] \notin leased

\* A session that is over has no daemon, unless a session that was given the
\* same environment was ended while its warm-up was under way.
DaemonStops ==
  \A s \in Sessions :
    pc[s] = "closed" /\ (\A q \in hasty : env[q] # env[s]) => daemon[s] = "none"

\* A session lets go of everything, in the end and in the right order.
SessionsLetGo == []ReleasedLast /\ []DaemonStops /\ LeaseComesBack
=============================================================================
