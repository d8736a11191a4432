------------------------- MODULE SessionStateProofs -------------------------
(***************************************************************************)
(* What Recipe sessions leave behind for those after them: the environment *)
(* that they lease (SessionLease), for every set of sessions and           *)
(* environments, and the runs that they write down (RunStore), for every   *)
(* set of runs and writes and any number of sessions.                      *)
(***************************************************************************)
EXTENDS Sequences, SessionLease, RunStore, TLAPS

-----------------------------------------------------------------------------
(* SessionLease: the environment belongs to one session at a time          *)

(***************************************************************************)
(* A session holds its environment from its lease to its release.  The     *)
(* inductive invariant says that an environment has one holder at most,    *)
(* that the holder saw the host's coordinates there and will put them      *)
(* back, and what each phase may have acquired.                            *)
(***************************************************************************)

Ready == {"loading", "creating", "binding", "open"}
Holding == {"configuring", "loading", "creating", "binding", "open",
             "endingRuns", "endingSession", "stopping"}
Held(s) == pc[s] \in Holding

HolderLeased == \A s \in Sessions : Held(s) => env[s] \in leased /\ snapshot[s] = Host
OneHolder == \A s, q \in Sessions : Held(s) /\ Held(q) /\ env[s] = env[q] => s = q

Acquisitions ==
  \A s \in Sessions :
    /\ pc[s] \in {"new", "configuring", "stopping", "closed"} => acquired[s] = {}
    /\ pc[s] = "endingSession" => "runs" \notin acquired[s]

Inv ==
  /\ TypeOK
  /\ HolderLeased /\ OneHolder
  /\ EnvIsRestored /\ CoordinatesStay
  /\ Acquisitions

LEMMA InitInv == LeaseInit => Inv
BY SessionLeaseAssumption
DEF LeaseInit, Inv, TypeOK, HolderLeased, OneHolder, EnvIsRestored, CoordinatesStay,
    Acquisitions, Held, Holding

Phases == {"new", "refused", "open", "closed"} \cup Building \cup Ending

\* What most steps do to the program counters and to the history.
LEMMA GotoType ==
  ASSUME TypeOK, NEW s \in Sessions, NEW where \in Phases, Goto(s, where)
  PROVE  /\ pc' \in [Sessions -> Phases]
         /\ pc'[s] = where
         /\ \A q \in Sessions : q # s => pc'[q] = pc[q]
BY DEF TypeOK, Goto, Phases

Resources == SUBSET {"runs", "session", "taps"}

LEMMA AcquiredType ==
  ASSUME TypeOK, NEW s \in Sessions, NEW got \in Resources,
         acquired' = [acquired EXCEPT ![s] = got]
  PROVE  acquired' \in [Sessions -> Resources]
BY DEF TypeOK, Resources

LEMMA EndsType ==
  ASSUME TypeOK, NEW s \in Sessions, Ends(s)
  PROVE  hasty' \in SUBSET Sessions
BY DEF TypeOK, Ends

\* Every step leaves the state well typed.
LEMMA StepType == ASSUME TypeOK, [LeaseNext]_leaseVars PROVE TypeOK'
<1>1. ASSUME NEW s \in Sessions, Configure(s) PROVE TypeOK'
  <2>1. CASE Lease(s)
    <3>1. pc' \in [Sessions -> Phases]
      BY <2>1, GotoType DEF Lease, Phases, Building
    <3>2. coords[env[s]] \in Sessions \cup {Host, Blank}
      BY DEF TypeOK
    <3>3. /\ snapshot' \in [Sessions -> Sessions \cup {Host, Blank}]
          /\ coords' \in [Envs -> Sessions \cup {Host, Blank}]
          /\ leased' \in SUBSET Envs
      BY <2>1, <3>2 DEF Lease, TypeOK
    <3>4. QED BY <2>1, <3>1, <3>3 DEF Lease, TypeOK, Phases
  <2>2. CASE Materialize(s)
    <3>1. pc' \in [Sessions -> Phases]
      BY <2>2, GotoType DEF Materialize, Phases, Building
    <3>2. QED BY <2>2, <3>1 DEF Materialize, TypeOK, Phases
  <2>3. CASE MaterializeFails(s)
    <3>1. pc' \in [Sessions -> Phases]
      BY <2>3, GotoType DEF MaterializeFails, Phases, Ending
    <3>2. coords' \in [Envs -> Sessions \cup {Host, Blank}]
      BY <2>3 DEF MaterializeFails, TypeOK
    <3>3. QED BY <2>3, <3>1, <3>2 DEF MaterializeFails, TypeOK, Phases
  <2>4. QED BY <1>1, <2>1, <2>2, <2>3 DEF Configure
<1>2. ASSUME NEW s \in Sessions, Build(s) \/ Dispose(s) PROVE TypeOK'
  <2>1. pc' \in [Sessions -> Phases]
    BY <1>2, GotoType DEF Build, Load, CreateSession, Bind, BuildFails, Dispose,
                          Phases, Building, Ending
  <2>2. acquired' \in [Sessions -> Resources]
    <3>1. acquired[s] \in Resources
      BY DEF TypeOK, Resources
    <3>2. PICK got \in Resources : acquired' = [acquired EXCEPT ![s] = got]
      <4>1. CASE Load(s)
        BY <3>1, <4>1 DEF Load, Resources
      <4>2. CASE CreateSession(s)
        BY <3>1, <4>2 DEF CreateSession, Resources
      <4>3. CASE Bind(s)
        BY <3>1, <4>3 DEF Bind, Resources
      <4>4. CASE BuildFails(s)
        BY <3>1, <4>4 DEF BuildFails, TypeOK
      <4>5. CASE Dispose(s)
        BY <3>1, <4>5 DEF Dispose, Resources
      <4>6. QED BY <1>2, <4>1, <4>2, <4>3, <4>4, <4>5 DEF Build
    <3>3. QED BY <3>2, AcquiredType
  <2>3. hasty' \in SUBSET Sessions
    BY <1>2, EndsType DEF Build, Load, CreateSession, Bind, BuildFails, Dispose, TypeOK
  <2>4. UNCHANGED <<env, snapshot, mcpVars>>
    BY <1>2 DEF Build, Load, CreateSession, Bind, BuildFails, Dispose
  <2>5. QED BY <2>1, <2>2, <2>3, <2>4 DEF TypeOK, Phases, Resources, mcpVars
<1>3. ASSUME NEW s \in Sessions, Cleanup(s) PROVE TypeOK'
  <2>1. pc' \in [Sessions -> Phases]
    BY <1>3, GotoType DEF Cleanup, EndRuns, EndSession, Release, Phases, Ending
  <2>2. acquired' \in [Sessions -> Resources]
    <3>1. acquired[s] \in Resources
      BY DEF TypeOK, Resources
    <3>2. PICK got \in Resources : acquired' = [acquired EXCEPT ![s] = got]
      <4>1. CASE EndRuns(s)
        BY <3>1, <4>1 DEF EndRuns, Resources
      <4>2. CASE EndSession(s)
        BY <3>1, <4>2 DEF EndSession, Resources
      <4>3. CASE Release(s)
        BY <3>1, <4>3 DEF Release, TypeOK
      <4>4. QED BY <1>3, <4>1, <4>2, <4>3 DEF Cleanup
    <3>3. QED BY <3>2, AcquiredType
  <2>3. /\ coords' \in [Envs -> Sessions \cup {Host, Blank}]
        /\ leased' \in SUBSET Envs
        /\ daemon' \in [Sessions -> {"none", "starting", "up"}]
    BY <1>3 DEF Cleanup, EndRuns, EndSession, Release, TypeOK, mcpVars
  <2>4. UNCHANGED <<env, snapshot, warm, hasty>>
    BY <1>3 DEF Cleanup, EndRuns, EndSession, Release, mcpVars
  <2>5. QED BY <2>1, <2>2, <2>3, <2>4 DEF TypeOK, Phases, Resources
<1>4. ASSUME NEW s \in Sessions, WarmUp(s) PROVE TypeOK'
  BY <1>4 DEF WarmUp, WarmPinged, Listens, WarmPolled, TypeOK
<1>5. CASE UNCHANGED leaseVars
  BY <1>5 DEF leaseVars, mcpVars, TypeOK
<1>6. QED BY <1>1, <1>2, <1>3, <1>4, <1>5 DEF LeaseNext

\* A session that moves on without touching leases or environments, and
\* becomes ready only if it was.
LEMMA MovesOn ==
  ASSUME Inv, NEW s \in Sessions, NEW where \in Phases, Goto(s, where),
         Held(s), where \in Holding, where \in Ready => pc[s] \in Ready,
         UNCHANGED <<env, snapshot, coords, leased>>
  PROVE  HolderLeased' /\ OneHolder' /\ EnvIsRestored' /\ CoordinatesStay'
<1>1. /\ pc'[s] = where
      /\ \A q \in Sessions : q # s => pc'[q] = pc[q]
  BY GotoType DEF Inv
<1>2. \A q \in Sessions : Held(q)' => Held(q)
  BY <1>1 DEF Held
<1>3. \A q \in Sessions : pc'[q] \in Ready => pc[q] \in Ready
  BY <1>1
<1>4. QED BY <1>2, <1>3 DEF Inv, HolderLeased, OneHolder, EnvIsRestored, CoordinatesStay, Ready

\* A step that writes one environment, which no other session holds.
LEMMA OthersReady ==
  ASSUME TypeOK, CoordinatesStay, NEW s \in Sessions,
         \A q \in Sessions : q # s => pc'[q] = pc[q],
         \A q \in Sessions : q # s /\ Held(q) => env[q] # env[s],
         \A e \in Envs : e # env[s] => coords'[e] = coords[e],
         UNCHANGED env, pc'[s] \in Ready => coords'[env[s]] = s
  PROVE  CoordinatesStay'
<1>1. ASSUME NEW q \in Sessions, pc'[q] \in Ready PROVE coords'[env[q]] = q
  <2>1. CASE q = s
    BY <1>1, <2>1
  <2>2. CASE q # s
    <3>1. pc[q] \in Ready /\ Held(q)
      BY <1>1, <2>2 DEF Held, Holding, Ready
    <3>2. env[q] # env[s] /\ env[q] \in Envs
      BY <2>2, <3>1 DEF TypeOK
    <3>3. QED BY <3>1, <3>2 DEF CoordinatesStay, Ready
  <2>3. QED BY <2>1, <2>2
<1>2. QED BY <1>1 DEF CoordinatesStay, Ready

LEMMA LeaseKeeps == ASSUME Inv, TypeOK', NEW s \in Sessions, Lease(s) PROVE Inv'
<1>1. CASE env[s] \in leased /\ Goto(s, "refused") /\ UNCHANGED <<snapshot, coords, leased>>
  <2>1. /\ pc'[s] = "refused"
        /\ \A q \in Sessions : q # s => pc'[q] = pc[q]
    BY <1>1, GotoType DEF Inv, Phases
  <2>2. \A q \in Sessions : Held(q)' => Held(q)
    BY <2>1 DEF Held, Holding
  <2>3. UNCHANGED <<env, snapshot, coords, leased, acquired>>
    BY <1>1 DEF Lease
  <2>4. HolderLeased' /\ OneHolder' /\ EnvIsRestored' /\ CoordinatesStay' /\ Acquisitions'
    BY <2>1, <2>2, <2>3 DEF Inv, HolderLeased, OneHolder, EnvIsRestored,
                            CoordinatesStay, Acquisitions
  <2>5. QED BY <2>4 DEF Inv
<1>2. CASE env[s] \notin leased
  <2>1. coords[env[s]] = Host /\ pc[s] = "new" /\ env[s] \in Envs
    BY <1>2 DEF Inv, Lease, EnvIsRestored, TypeOK
  <2>2. \A q \in Sessions : Held(q) => env[q] # env[s]
    BY <1>2 DEF Inv, HolderLeased
  <2>3. /\ pc'[s] = "configuring"
        /\ \A q \in Sessions : q # s => pc'[q] = pc[q]
    BY <1>2, GotoType DEF Inv, Lease, Phases, Building
  <2>4. /\ snapshot'[s] = Host
        /\ \A q \in Sessions : q # s => snapshot'[q] = snapshot[q]
        /\ leased' = leased \cup {env[s]}
        /\ \A e \in Envs : e # env[s] => coords'[e] = coords[e]
        /\ UNCHANGED <<env, acquired>>
    BY <1>2, <2>1 DEF Inv, TypeOK, Lease
  <2>5. \A q \in Sessions : Held(q)' => q = s \/ Held(q)
    BY <2>3 DEF Held
  <2>6. HolderLeased' /\ OneHolder'
    BY <2>2, <2>3, <2>4, <2>5 DEF Inv, HolderLeased, OneHolder
  <2>7. EnvIsRestored'
    BY <2>4 DEF Inv, EnvIsRestored
  <2>8. CoordinatesStay'
    BY <2>2, <2>3, <2>4, OthersReady DEF Inv, Ready
  <2>9. Acquisitions'
    BY <2>1, <2>3, <2>4 DEF Inv, Acquisitions
  <2>10. QED BY <2>6, <2>7, <2>8, <2>9 DEF Inv
<1>3. QED BY <1>1, <1>2 DEF Lease

LEMMA MaterializeKeeps ==
  ASSUME Inv, TypeOK', NEW s \in Sessions, Materialize(s) \/ MaterializeFails(s)
  PROVE  Inv'
<1>1. Held(s) /\ pc[s] = "configuring"
  BY DEF Materialize, MaterializeFails, Held, Holding
<1>2. PICK where \in {"loading", "stopping"} : Goto(s, where)
  BY DEF Materialize, MaterializeFails
<1>3. /\ pc'[s] = where
      /\ \A q \in Sessions : q # s => pc'[q] = pc[q]
  BY <1>2, GotoType DEF Inv, Phases, Building, Ending
<1>4. \A q \in Sessions : Held(q)' <=> Held(q)
  BY <1>1, <1>3 DEF Held, Holding
<1>5. /\ \A e \in Envs : e # env[s] => coords'[e] = coords[e]
      /\ where = "loading" => coords'[env[s]] = s
      /\ UNCHANGED <<env, snapshot, leased, acquired>>
  BY <1>1, <1>2, <1>3 DEF Inv, TypeOK, Materialize, MaterializeFails, Goto
<1>6. HolderLeased' /\ OneHolder'
  BY <1>4, <1>5 DEF Inv, HolderLeased, OneHolder
<1>7. EnvIsRestored'
  BY <1>1, <1>5 DEF Inv, HolderLeased, EnvIsRestored
<1>8. CoordinatesStay'
  <2>1. \A q \in Sessions : q # s /\ Held(q) => env[q] # env[s]
    BY <1>1 DEF Inv, OneHolder
  <2>2. pc'[s] \in Ready => coords'[env[s]] = s
    BY <1>2, <1>3, <1>5 DEF Ready
  <2>3. QED BY <1>3, <1>5, <2>1, <2>2, OthersReady DEF Inv
<1>9. Acquisitions'
  BY <1>1, <1>3, <1>5 DEF Inv, Acquisitions
<1>10. QED BY <1>6, <1>7, <1>8, <1>9 DEF Inv

LEMMA BuildKeeps ==
  ASSUME Inv, TypeOK', NEW s \in Sessions, Build(s) \/ Dispose(s) PROVE Inv'
<1>1. /\ pc[s] \in Ready
      /\ UNCHANGED <<env, snapshot, coords, leased>>
  BY DEF Build, Load, CreateSession, Bind, BuildFails, Dispose, mcpVars, Ready
<1>2. PICK where \in {"creating", "binding", "open", "endingRuns"} : Goto(s, where)
  BY DEF Build, Load, CreateSession, Bind, BuildFails, Dispose
<1>3. HolderLeased' /\ OneHolder' /\ EnvIsRestored' /\ CoordinatesStay'
  BY <1>1, <1>2, MovesOn DEF Held, Holding, Ready, Phases, Building, Ending
<1>4. /\ pc'[s] = where
      /\ \A q \in Sessions : q # s => pc'[q] = pc[q]
  BY <1>2, GotoType DEF Inv, Phases, Building, Ending
<1>5. \A q \in Sessions : q # s => acquired'[q] = acquired[q]
  BY DEF Inv, TypeOK, Build, Load, CreateSession, Bind, BuildFails, Dispose
<1>6. Acquisitions'
  BY <1>4, <1>5 DEF Inv, Acquisitions
<1>7. QED BY <1>3, <1>6 DEF Inv

LEMMA CleanupKeeps ==
  ASSUME Inv, TypeOK', NEW s \in Sessions, Cleanup(s) PROVE Inv'
<1>1. CASE EndRuns(s) \/ EndSession(s)
  <2>1. /\ pc[s] \in {"endingRuns", "endingSession"}
        /\ UNCHANGED <<env, snapshot, coords, leased>>
    BY <1>1 DEF EndRuns, EndSession, mcpVars
  <2>2. PICK where \in {"endingSession", "stopping"} : Goto(s, where)
    BY <1>1 DEF EndRuns, EndSession
  <2>3. HolderLeased' /\ OneHolder' /\ EnvIsRestored' /\ CoordinatesStay'
    BY <2>1, <2>2, MovesOn DEF Held, Holding, Ready, Phases, Ending
  <2>4. /\ pc'[s] = where
        /\ \A q \in Sessions : q # s => pc'[q] = pc[q]
    BY <2>2, GotoType DEF Inv, Phases, Ending
  <2>5. \A q \in Sessions : q # s => acquired'[q] = acquired[q]
    BY <1>1 DEF Inv, TypeOK, EndRuns, EndSession
  <2>6. /\ pc'[s] = "endingSession" => "runs" \notin acquired'[s]
        /\ pc'[s] = "stopping" => acquired'[s] = {}
    <3>1. acquired[s] \subseteq {"runs", "session", "taps"}
      BY DEF Inv, TypeOK
    <3>2. CASE EndRuns(s)
      <4>1. pc'[s] = "endingSession"
        BY <3>2, GotoType DEF EndRuns, Inv, Phases, Ending
      <4>2. acquired'[s] = acquired[s] \ {"runs"}
        BY <3>2 DEF EndRuns, Inv, TypeOK
      <4>3. QED BY <3>1, <4>1, <4>2
    <3>3. CASE EndSession(s)
      <4>1. pc'[s] = "stopping" /\ "runs" \notin acquired[s]
        BY <3>3, GotoType DEF EndSession, Inv, Acquisitions, Phases, Ending
      <4>2. acquired'[s] = acquired[s] \ {"session", "taps"}
        BY <3>3 DEF EndSession, Inv, TypeOK
      <4>3. QED BY <3>1, <4>1, <4>2
    <3>4. QED BY <1>1, <3>2, <3>3
  <2>7. Acquisitions'
    BY <2>4, <2>5, <2>6 DEF Inv, Acquisitions
  <2>8. QED BY <2>3, <2>7 DEF Inv
<1>2. CASE Release(s)
  <2>1. Held(s) /\ pc[s] = "stopping" /\ snapshot[s] = Host /\ env[s] \in Envs
    BY <1>2 DEF Inv, TypeOK, Release, Held, Holding, HolderLeased
  <2>2. \A q \in Sessions : q # s /\ Held(q) => env[q] # env[s]
    BY <2>1 DEF Inv, OneHolder
  <2>3. /\ pc'[s] = "closed"
        /\ \A q \in Sessions : q # s => pc'[q] = pc[q]
    BY <1>2, GotoType DEF Inv, Release, Phases
  <2>4. /\ coords'[env[s]] = Host
        /\ \A e \in Envs : e # env[s] => coords'[e] = coords[e]
        /\ leased' = leased \ {env[s]}
        /\ UNCHANGED <<env, snapshot, acquired>>
    BY <1>2, <2>1 DEF Release, Inv, TypeOK
  <2>5. \A q \in Sessions : Held(q)' => q # s /\ Held(q)
    BY <2>3 DEF Held, Holding
  <2>6. HolderLeased' /\ OneHolder'
    BY <2>2, <2>4, <2>5 DEF Inv, HolderLeased, OneHolder
  <2>7. EnvIsRestored'
    BY <2>4 DEF Inv, EnvIsRestored
  <2>8. CoordinatesStay'
    BY <2>2, <2>3, <2>4, OthersReady DEF Inv, Ready
  <2>9. Acquisitions'
    BY <2>1, <2>3, <2>4 DEF Inv, Acquisitions
  <2>10. QED BY <2>6, <2>7, <2>8, <2>9 DEF Inv
<1>3. QED BY <1>1, <1>2 DEF Cleanup

LEMMA NextInv == Inv /\ [LeaseNext]_leaseVars => Inv'
<1> SUFFICES ASSUME Inv, [LeaseNext]_leaseVars PROVE Inv'
  OBVIOUS
<1>1. TypeOK'
  BY StepType DEF Inv
<1>2. ASSUME NEW s \in Sessions, Configure(s) PROVE Inv'
  BY <1>1, <1>2, LeaseKeeps, MaterializeKeeps DEF Configure
<1>3. ASSUME NEW s \in Sessions, Build(s) \/ Dispose(s) PROVE Inv'
  BY <1>1, <1>3, BuildKeeps
<1>4. ASSUME NEW s \in Sessions, Cleanup(s) PROVE Inv'
  BY <1>1, <1>4, CleanupKeeps
<1>5. ASSUME NEW s \in Sessions, WarmUp(s) PROVE Inv'
  BY <1>1, <1>5 DEF Inv, WarmUp, WarmPinged, Listens, WarmPolled, HolderLeased, OneHolder,
                    EnvIsRestored, CoordinatesStay, Acquisitions, Held
<1>6. CASE UNCHANGED leaseVars
  BY <1>1, <1>6 DEF Inv, leaseVars, mcpVars, HolderLeased, OneHolder,
                    EnvIsRestored, CoordinatesStay, Acquisitions, Held
<1>7. QED BY <1>2, <1>3, <1>4, <1>5, <1>6 DEF LeaseNext

LEMMA InvKept == LeaseSpec => []Inv
BY InitInv, NextInv, PTL DEF LeaseSpec

\* The state of every reachable state is well typed.
THEOREM LeaseTypeCorrect == LeaseSpec => []TypeOK
<1>1. Inv => TypeOK
  BY DEF Inv
<1>2. QED BY <1>1, InvKept, PTL

\* An environment that no session has leased has the host's coordinates, for
\* all sessions that ever shared it.
THEOREM HostEnvironmentKept == LeaseSpec => []EnvIsRestored
<1>1. Inv => EnvIsRestored
  BY DEF Inv
<1>2. QED BY <1>1, InvKept, PTL

\* No session rewrites the coordinates of another that is built or in use.
THEOREM CoordinatesAreOwn == LeaseSpec => []CoordinatesStay
<1>1. Inv => CoordinatesStay
  BY DEF Inv
<1>2. QED BY <1>1, InvKept, PTL

\* A session that gave its environment back has let go of all else.
THEOREM McpGoesLast == LeaseSpec => []ReleasedLast
<1>1. Inv => ReleasedLast
  BY DEF Inv, Acquisitions, ReleasedLast
<1>2. QED BY <1>1, InvKept, PTL

\* At any time an environment has the coordinates of the one it belongs to, a
\* session or the host.
THEOREM EnvironmentsKept == LeaseSpec => []EnvironmentsAreOwn
BY HostEnvironmentKept, CoordinatesAreOwn, PTL DEF EnvironmentsAreOwn

(***************************************************************************)
(* The daemon of a session's coordinates.  An environment is calm while no *)
(* session that was given it began to end before its warm-up was over.  In *)
(* a calm one, only a session that is ready warms up, with its own         *)
(* coordinates, and who releases the environment ends the one daemon that  *)
(* can be there.                                                           *)
(***************************************************************************)

Calm(s) == \A q \in hasty : env[q] # env[s]

\* Coordinates are found where their session was put.
OwnCoords == \A e \in Envs : coords[e] \in Sessions => env[coords[e]] = e

WarmIsReady ==
  \A q \in Sessions : warm[q] \in {"pinging", "polling"} => pc[q] \in Ready \/ q \in hasty

DaemonIsOwned ==
  \A s \in Sessions : Calm(s) /\ daemon[s] # "none" =>
    /\ pc[s] \in Ready \cup Ending
    /\ coords[env[s]] = s
    /\ daemon[s] = "starting" => pc[s] \in Ready /\ warm[s] = "polling"

DaemonInv == OwnCoords /\ WarmIsReady /\ DaemonIsOwned

\* A daemon's session holds its environment: no other one writes there.
LEMMA OwnerHolds ==
  ASSUME Inv, DaemonIsOwned, NEW s \in Sessions, Calm(s), daemon[s] # "none"
  PROVE  Held(s) /\ pc[s] # "configuring" /\ coords[env[s]] = s
BY DEF DaemonIsOwned, Held, Holding, Ready, Ending

LEMMA LeaseKeepsDaemons ==
  ASSUME Inv, DaemonInv, NEW s \in Sessions, Configure(s) PROVE DaemonInv'
<1>1. PICK where \in {"refused", "configuring", "loading", "stopping"} : Goto(s, where)
  BY DEF Configure, Lease, Materialize, MaterializeFails
<1>2. /\ pc[s] \in {"new", "configuring"} /\ env[s] \in Envs
      /\ pc'[s] = where
      /\ \A q \in Sessions : q # s => pc'[q] = pc[q]
  BY <1>1, GotoType DEF Inv, TypeOK, Configure, Lease, Materialize, MaterializeFails,
                        Phases, Building, Ending
<1>3. /\ \A e \in Envs : e # env[s] => coords'[e] = coords[e]
      /\ coords'[env[s]] \in {coords[env[s]], Blank, s}
      /\ UNCHANGED <<env, daemon, hasty>>
  BY <1>2 DEF Inv, TypeOK, Configure, Lease, Materialize, MaterializeFails
<1>4. /\ \A q \in Sessions : q # s => warm'[q] = warm[q]
      /\ warm'[s] = warm[s] \/ where = "loading"
  BY <1>1, <1>2 DEF Inv, TypeOK, Configure, Lease, Materialize, MaterializeFails, Goto
<1>5. OwnCoords'
  BY <1>3, SessionLeaseAssumption DEF DaemonInv, OwnCoords
<1>6. WarmIsReady'
  BY <1>2, <1>3, <1>4 DEF DaemonInv, WarmIsReady, Ready
<1>7. DaemonIsOwned'
  <2> SUFFICES ASSUME NEW q \in Sessions, Calm(q)', daemon'[q] # "none"
               PROVE  /\ pc'[q] \in Ready \cup Ending
                      /\ coords'[env'[q]] = q
                      /\ daemon'[q] = "starting" => pc'[q] \in Ready /\ warm'[q] = "polling"
    BY DEF DaemonIsOwned
  <2>1. Calm(q) /\ daemon[q] # "none"
    BY <1>3 DEF Calm
  <2>2. Held(q) /\ pc[q] # "configuring" /\ coords[env[q]] = q
    BY <2>1, OwnerHolds DEF DaemonInv
  <2>3. q # s /\ pc[q] # "new"
    BY <1>2, <2>2 DEF Held, Holding
  <2>4. coords'[env[q]] = q
    <3>1. CASE env[q] # env[s]
      <4>1. env[q] \in Envs
        BY DEF Inv, TypeOK
      <4>2. QED BY <1>3, <2>2, <3>1, <4>1
    <3>2. CASE env[q] = env[s]
      <4>1. ~Held(s)
        BY <2>2, <2>3, <3>2 DEF Inv, OneHolder
      <4>2. pc[s] = "new"
        BY <1>2, <4>1 DEF Held, Holding
      <4>3. env[s] \in leased
        BY <2>2, <3>2 DEF Inv, HolderLeased
      <4>4. coords' = coords
        BY <4>2, <4>3 DEF Configure, Lease, Materialize, MaterializeFails
      <4>5. QED BY <2>2, <4>4
    <3>3. QED BY <3>1, <3>2
  <2>5. pc'[q] = pc[q] /\ warm'[q] = warm[q] /\ daemon'[q] = daemon[q] /\ env'[q] = env[q]
    BY <1>2, <1>3, <1>4, <2>3
  <2>6. QED BY <2>1, <2>4, <2>5 DEF DaemonInv, DaemonIsOwned
<1>8. QED BY <1>5, <1>6, <1>7 DEF DaemonInv

\* Who ends while it warms up is hasty; who ends otherwise has no daemon on
\* its way up.
LEMMA BuildKeepsDaemons ==
  ASSUME Inv, DaemonInv, NEW s \in Sessions, Build(s) \/ Dispose(s) PROVE DaemonInv'
<1>1. PICK where \in {"creating", "binding", "open", "endingRuns"} : Goto(s, where)
  BY DEF Build, Load, CreateSession, Bind, BuildFails, Dispose
<1>2. /\ pc[s] \in Ready /\ pc'[s] = where
      /\ \A q \in Sessions : q # s => pc'[q] = pc[q]
      /\ UNCHANGED <<env, coords, warm, daemon>>
  BY <1>1, GotoType DEF Inv, Build, Load, CreateSession, Bind, BuildFails, Dispose,
                        Phases, Building, Ending, Ready, mcpVars
<1>3. hasty \subseteq hasty'
  BY DEF Build, Load, CreateSession, Bind, BuildFails, Dispose, Ends
<1>4. where = "endingRuns" => warm[s] \in {"none", "over"} \/ s \in hasty'
  BY <1>1, <1>2 DEF Inv, TypeOK, Build, Load, CreateSession, Bind, BuildFails, Dispose, Ends, Goto
<1>5. OwnCoords'
  BY <1>2 DEF DaemonInv, OwnCoords
<1>6. WarmIsReady'
  BY <1>2, <1>3, <1>4 DEF DaemonInv, WarmIsReady, Ready
<1>7. DaemonIsOwned'
  <2> SUFFICES ASSUME NEW q \in Sessions, Calm(q)', daemon'[q] # "none"
               PROVE  /\ pc'[q] \in Ready \cup Ending
                      /\ coords'[env'[q]] = q
                      /\ daemon'[q] = "starting" => pc'[q] \in Ready /\ warm'[q] = "polling"
    BY DEF DaemonIsOwned
  <2>1. Calm(q) /\ daemon[q] # "none"
    BY <1>2, <1>3 DEF Calm
  <2>2. /\ pc[q] \in Ready \cup Ending
        /\ coords[env[q]] = q
        /\ daemon[q] = "starting" => pc[q] \in Ready /\ warm[q] = "polling"
    BY <2>1 DEF DaemonInv, DaemonIsOwned
  <2>3. q \notin hasty'
    BY DEF Calm
  <2>4. CASE q = s
    BY <1>2, <1>4, <2>2, <2>3, <2>4 DEF Ready, Ending
  <2>5. CASE q # s
    BY <1>2, <2>2, <2>5
  <2>6. QED BY <2>4, <2>5
<1>8. QED BY <1>5, <1>6, <1>7 DEF DaemonInv

LEMMA CleanupKeepsDaemons ==
  ASSUME Inv, DaemonInv, NEW s \in Sessions, Cleanup(s) PROVE DaemonInv'
<1>1. PICK where \in {"endingSession", "stopping", "closed"} : Goto(s, where)
  BY DEF Cleanup, EndRuns, EndSession, Release
<1>2. /\ pc[s] \in Ending /\ pc'[s] = where
      /\ \A q \in Sessions : q # s => pc'[q] = pc[q]
      /\ UNCHANGED <<env, warm, hasty>>
  BY <1>1, GotoType DEF Inv, Cleanup, EndRuns, EndSession, Release, Phases, Ending, mcpVars
<1>3. WarmIsReady'
  BY <1>2 DEF DaemonInv, WarmIsReady, Ready, Ending
<1>4. CASE EndRuns(s) \/ EndSession(s)
  <2>1. where # "closed" /\ UNCHANGED <<coords, daemon>>
    BY <1>1, <1>2, <1>4 DEF Inv, TypeOK, EndRuns, EndSession, Goto, mcpVars
  <2>2. OwnCoords'
    BY <1>2, <2>1 DEF DaemonInv, OwnCoords
  <2>3. DaemonIsOwned'
    BY <1>2, <2>1 DEF DaemonInv, DaemonIsOwned, Calm, Ending, Ready
  <2>4. QED BY <1>3, <2>2, <2>3 DEF DaemonInv
<1>5. CASE Release(s)
  <2>1. Held(s) /\ snapshot[s] = Host /\ env[s] \in Envs
    BY <1>5 DEF Inv, TypeOK, Release, Held, Holding, HolderLeased
  <2>2. /\ coords'[env[s]] = Host
        /\ \A e \in Envs : e # env[s] => coords'[e] = coords[e]
        /\ \A q \in Sessions : q # s => daemon'[q] = daemon[q]
        /\ coords[env[s]] = s /\ daemon[s] = "up" => daemon'[s] = "none"
        /\ daemon'[s] \in {daemon[s], "none"}
    BY <1>5, <2>1 DEF Release, Inv, TypeOK
  <2>3. OwnCoords'
    BY <1>2, <2>2, SessionLeaseAssumption DEF DaemonInv, OwnCoords
  <2>4. DaemonIsOwned'
    <3> SUFFICES ASSUME NEW q \in Sessions, Calm(q)', daemon'[q] # "none"
                 PROVE  /\ pc'[q] \in Ready \cup Ending
                        /\ coords'[env'[q]] = q
                        /\ daemon'[q] = "starting" => pc'[q] \in Ready /\ warm'[q] = "polling"
      BY DEF DaemonIsOwned
    <3>1. Calm(q) /\ daemon[q] # "none"
      BY <1>2, <2>2 DEF Calm
    <3>2. /\ pc[q] \in Ready \cup Ending
          /\ coords[env[q]] = q
          /\ daemon[q] = "starting" => pc[q] \in Ready /\ warm[q] = "polling"
      BY <3>1 DEF DaemonInv, DaemonIsOwned
    <3>3. q # s
      <4>1. SUFFICES ASSUME q = s PROVE FALSE
        OBVIOUS
      <4>2. daemon[s] = "up"
        BY <1>2, <3>1, <3>2, <4>1 DEF Inv, TypeOK, Ready, Ending
      <4>3. QED BY <2>2, <3>2, <4>1, <4>2
    <3>4. Held(q) /\ env[q] \in Envs
      BY <3>1, OwnerHolds DEF DaemonInv, Inv, TypeOK
    <3>5. env[q] # env[s]
      BY <2>1, <3>3, <3>4 DEF Inv, OneHolder
    <3>6. coords'[env'[q]] = coords[env[q]]
      BY <1>2, <2>2, <3>4, <3>5
    <3>7. QED BY <1>2, <2>2, <3>2, <3>3, <3>6
  <2>5. QED BY <1>3, <2>3, <2>4 DEF DaemonInv
<1>6. QED BY <1>4, <1>5 DEF Cleanup

\* A warm-up of a calm environment starts the daemon of its own session.
LEMMA WarmUpKeepsDaemons ==
  ASSUME Inv, DaemonInv, NEW s \in Sessions, WarmUp(s) PROVE DaemonInv'
<1>1. /\ UNCHANGED <<pc, env, coords, hasty>>
      /\ \A q \in Sessions : q # s => warm'[q] = warm[q]
      /\ warm'[s] \in {warm[s], "polling", "over"}
      /\ warm'[s] = "polling" => warm[s] \in {"pinging", "polling"}
  BY DEF WarmUp, WarmPinged, Listens, WarmPolled, Inv, TypeOK
<1>2. OwnCoords'
  BY <1>1 DEF DaemonInv, OwnCoords
<1>3. WarmIsReady'
  BY <1>1 DEF DaemonInv, WarmIsReady
<1>4. DaemonIsOwned'
  <2> SUFFICES ASSUME NEW q \in Sessions, Calm(q)', daemon'[q] # "none"
               PROVE  /\ pc'[q] \in Ready \cup Ending
                      /\ coords'[env'[q]] = q
                      /\ daemon'[q] = "starting" => pc'[q] \in Ready /\ warm'[q] = "polling"
    BY DEF DaemonIsOwned
  <2>1. Calm(q) /\ q \notin hasty
    BY <1>1 DEF Calm
  <2>2. daemon[q] # "none" =>
          /\ pc[q] \in Ready \cup Ending
          /\ coords[env[q]] = q
          /\ daemon[q] = "starting" => pc[q] \in Ready /\ warm[q] = "polling"
    BY <2>1 DEF DaemonInv, DaemonIsOwned
  <2>3. CASE WarmPinged(s)
    <3>1. env[s] \in Envs /\ warm[s] = "pinging"
      BY <2>3 DEF WarmPinged, Inv, TypeOK
    <3>2. CASE daemon' = daemon
      <4>1. ~(q = s /\ daemon[q] = "starting")
        BY <2>2, <3>1
      <4>2. QED BY <1>1, <2>2, <3>2, <4>1
    <3>3. CASE daemon' # daemon
      <4>1. PICK owner \in Sessions : owner = coords[env[s]]
        BY <2>3, <3>3 DEF WarmPinged
      <4>2. /\ daemon' = [daemon EXCEPT ![owner] = IF @ = "none" THEN "starting" ELSE @]
            /\ warm' = [warm EXCEPT ![s] = "polling"]
        BY <2>3, <4>1 DEF WarmPinged
      <4>3. CASE q # owner
        <5>1. daemon'[q] = daemon[q]
          BY <4>2, <4>3 DEF Inv, TypeOK
        <5>2. ~(q = s /\ daemon[q] = "starting")
          BY <2>2, <3>1, <5>1
        <5>3. QED BY <1>1, <2>2, <5>1, <5>2
      <4>4. CASE q = owner
        <5>1. env[q] = env[s]
          BY <3>1, <4>1, <4>4 DEF DaemonInv, OwnCoords
        <5>2. s \notin hasty
          BY <2>1, <5>1 DEF Calm
        <5>3. pc[s] \in Ready
          BY <3>1, <5>2 DEF DaemonInv, WarmIsReady
        <5>4. s = q
          BY <4>1, <4>4, <5>3 DEF Inv, CoordinatesStay, Ready
        <5>5. warm'[q] = "polling"
          BY <4>2, <5>4 DEF Inv, TypeOK
        <5>6. QED BY <1>1, <4>1, <4>4, <5>1, <5>3, <5>4, <5>5
      <4>5. QED BY <4>3, <4>4
    <3>4. QED BY <3>2, <3>3
  <2>4. CASE Listens(s)
    <3>1. /\ daemon[q] # "none"
          /\ daemon'[q] = "starting" => daemon[q] = "starting"
          /\ warm' = warm
      BY <2>4 DEF Listens, Inv, TypeOK
    <3>2. QED BY <1>1, <2>2, <3>1
  <2>5. CASE WarmPolled(s)
    <3>1. daemon' = daemon /\ warm[s] = "polling"
      BY <2>5 DEF WarmPolled
    <3>2. ~(q = s /\ daemon[q] = "starting")
      <4>1. SUFFICES ASSUME q = s, daemon[q] = "starting" PROVE FALSE
        OBVIOUS
      <4>2. coords[env[s]] = s
        BY <2>2, <4>1
      <4>3. daemon[s] = "up"
        BY <2>5, <4>2 DEF WarmPolled
      <4>4. QED BY <4>1, <4>3
    <3>3. QED BY <1>1, <2>2, <3>1, <3>2
  <2>6. QED BY <2>3, <2>4, <2>5 DEF WarmUp
<1>5. QED BY <1>2, <1>3, <1>4 DEF DaemonInv

\* A session that is over has no daemon, unless one that was given the same
\* environment began to end while its warm-up was under way.
THEOREM DaemonsAreStopped == LeaseSpec => []DaemonStops
<1>1. LeaseInit => DaemonInv
  BY SessionLeaseAssumption
  DEF LeaseInit, DaemonInv, OwnCoords, WarmIsReady, DaemonIsOwned, Calm
<1>2. Inv /\ DaemonInv /\ [LeaseNext]_leaseVars => DaemonInv'
  <2> SUFFICES ASSUME Inv, DaemonInv, [LeaseNext]_leaseVars PROVE DaemonInv'
    OBVIOUS
  <2>1. CASE UNCHANGED leaseVars
    BY <2>1 DEF DaemonInv, OwnCoords, WarmIsReady, DaemonIsOwned, Calm, leaseVars, mcpVars
  <2>2. CASE LeaseNext
    BY <2>2, LeaseKeepsDaemons, BuildKeepsDaemons, CleanupKeepsDaemons, WarmUpKeepsDaemons
    DEF LeaseNext
  <2>3. QED BY <2>1, <2>2
<1>3. DaemonInv => DaemonStops
  BY DEF DaemonInv, DaemonIsOwned, DaemonStops, Calm, Ready, Ending
<1>4. QED BY <1>1, <1>2, <1>3, InvKept, PTL DEF LeaseSpec

-----------------------------------------------------------------------------
(* The store of runs: what writes and restarts keep                        *)

Statuses == Settled \cup {"running"}
Snapshots == [run : Runs, id : Ids, status : Statuses]
WriteCalls ==
  [at : {"queued", "open"}, snap : Snapshots, by : SessionNumbers, prev : Writes \cup {None}]

StoreTypeOK ==
  /\ session \in 0 .. MaxSessions /\ phase \in {"down", "restoring", "up"}
  /\ phase # "down" => session \in SessionNumbers
  /\ index \in 0 .. MaxIndex /\ listed \subseteq Runs
  /\ archived \in [Ids -> Snapshots \cup {None}]
  /\ found.unread \subseteq Ids /\ found.read \subseteq Snapshots
  /\ flip \in Writes \cup {None}
  /\ id \in [Runs -> 0 .. MaxIndex] /\ sessionOf \in [Runs -> 0 .. session]
  /\ \A r \in Runs : id[r] # 0 => status[r] \in Statuses /\ sessionOf[r] \in SessionNumbers
  /\ \A r \in Runs : id[r] = 0 => sessionOf[r] = 0
  /\ status \in [Runs -> Statuses \cup {"none"}]
  /\ turn \in [Runs -> Writes \cup {None, "prompting"}] /\ cancelling \subseteq Runs
  /\ write \in [Writes -> WriteCalls \cup {Free}]
  /\ tail \in [SessionNumbers -> [Ids -> Writes \cup {None}]]
  /\ disk \in [Ids -> Snapshots \cup {Absent, Torn}] /\ spoilt \in BOOLEAN

\* A turn or a cancellation under way is that of a run that was started.
RunsFit ==
  /\ \A r \in Runs : turn[r] # None \/ r \in cancelling \/ r \in listed => id[r] # 0
  /\ \A r \in listed : sessionOf[r] = session
  /\ \A r \in listed : status[r] = "running" => turn[r] = "prompting"
  /\ phase # "up" => listed = {}
  /\ \A i \in Ids : disk[i] \in Snapshots => disk[i].id = i
  /\ \A i \in found.unread : disk[i] # Absent

\* The calls that write one file from one store stand in line: the first one
\* waits for nobody, each other one for the one before it.
Line(q, s, i) ==
  /\ q \in Seq(Writes)
  /\ \A w \in Writes :
       (w \in InFlight /\ write[w].by = s /\ write[w].snap.id = i) <=> \E k \in 1..Len(q) : q[k] = w
  /\ \A j, k \in 1..Len(q) : q[j] = q[k] => j = k
  /\ tail[s][i] = IF Len(q) = 0 THEN None ELSE q[Len(q)]
  /\ \A k \in 1..Len(q) : write[q[k]].prev = IF k = 1 THEN None ELSE q[k - 1]

InLine ==
  /\ \A s \in SessionNumbers, i \in Ids : \E q \in Seq(Writes) : Line(q, s, i)
  /\ \A w \in InFlight : write[w].at = "open" => write[w].prev = None

\* What the file will say when the calls of this session are done.
LastSaid(i) == IF tail[session][i] = None THEN disk[i] ELSE write[tail[session][i]].snap

Stopped(outcome) == IF outcome = "running" THEN "interrupted" ELSE outcome

\* A snapshot that a restart takes for the run as it was.
Tells(snap, r) ==
  snap \in Snapshots /\ snap.run = r /\ snap.id = id[r] /\ Stopped(snap.status) = Stopped(status[r])

Archived(r) ==
  /\ archived[id[r]] = [run |-> r, id |-> id[r], status |-> Stopped(status[r])]
  /\ id[r] <= index

\* No two runs have one id.
Unshared == \A q, r \in Runs : id[q] # 0 /\ id[q] = id[r] => q = r

\* Nothing is under way that the session does not know of; a restart reads
\* every file, and the snapshots it has read are of different runs.
Quiet ==
  /\ phase # "up" => \A r \in Runs : turn[r] = None /\ r \notin cancelling
  /\ phase = "down" => InFlight = {}
  /\ phase = "restoring" =>
       /\ InFlight = IF flip = None THEN {} ELSE {flip}
       /\ flip # None => found.unread = {}
       /\ \A x, y \in found.read : x.id = y.id => x = y
       /\ \A x \in found.read : x.id \notin found.unread
  /\ \A w \in InFlight : write[w].by = session
  /\ \A r \in Runs : turn[r] # None \/ r \in cancelling => sessionOf[r] = session

\* A run that was started is on disk, or is being written; the run of an
\* earlier session is still to be read, or read, or archived.
RunKept(r) ==
  /\ session \in SessionNumbers /\ Tells(LastSaid(id[r]), r)
  /\ sessionOf[r] = session => phase # "restoring"
  /\ phase = "restoring" =>
       \/ id[r] \in found.unread
       \/ \E snap \in found.read : Tells(snap, r)
       \/ Archived(r) /\ \A snap \in found.read : snap.id # id[r]
  /\ phase = "up" /\ sessionOf[r] # session => Archived(r)
  /\ phase = "up" => id[r] <= index
  /\ phase = "up" /\ sessionOf[r] = session /\ turn[r] # "prompting" /\ r \notin cancelling =>
       LastSaid(id[r]) = Snapshot(r)

Kept == Unshared /\ Quiet /\ \A r \in Started : RunKept(r)

StoreInv == StoreTypeOK /\ RunsFit /\ InLine /\ (~spoilt => Kept)

\* Slots are told apart by what is in them.
LEMMA SlotFacts ==
  ASSUME StoreTypeOK
  PROVE  /\ \A w \in Writes : (w \in InFlight) <=> (write[w] \in WriteCalls)
         /\ \A w \in InFlight : /\ w \in Writes /\ write[w].snap \in Snapshots
                                /\ write[w].snap.id \in Ids /\ write[w].by \in SessionNumbers
                                /\ write[w].prev \in Writes \cup {None}
                                /\ write[w].at \in {"queued", "open"}
<1>1. Free \notin WriteCalls
  <2>1. \A c \in WriteCalls : c.at \in {"queued", "open"}
    BY DEF WriteCalls
  <2>2. Free.at = "free"
    BY DEF Free
  <2>3. QED BY <2>1, <2>2
<1>2. \A w \in Writes : write[w] \in WriteCalls \cup {Free}
  BY DEF StoreTypeOK
<1>3. \A w \in Writes : (w \in InFlight) <=> (write[w] \in WriteCalls)
  BY <1>1, <1>2 DEF InFlight
<1>4. ASSUME NEW c \in WriteCalls
      PROVE  /\ c.snap \in Snapshots /\ c.snap.id \in Ids /\ c.by \in SessionNumbers
             /\ c.prev \in Writes \cup {None} /\ c.at \in {"queued", "open"}
  BY DEF WriteCalls, Snapshots
<1>5. QED BY <1>3, <1>4 DEF InFlight

\* A write that is chained behind the last one of its run.
LEMMA PersistFacts ==
  ASSUME StoreTypeOK, NEW w \in Writes, NEW s \in SessionNumbers, NEW snap \in Snapshots,
         Persist(w, s, snap)
  PROVE  /\ w \notin InFlight /\ InFlight' = InFlight \cup {w}
         /\ write' \in [Writes -> WriteCalls \cup {Free}]
         /\ write'[w] = [at |-> "queued", snap |-> snap, by |-> s, prev |-> tail[s][snap.id]]
         /\ \A v \in Writes : v # w => write'[v] = write[v]
         /\ tail' \in [SessionNumbers -> [Ids -> Writes \cup {None}]]
         /\ tail'[s][snap.id] = w
         /\ \A z \in SessionNumbers, i \in Ids : z # s \/ i # snap.id => tail'[z][i] = tail[z][i]
<1>1. snap.id \in Ids
  BY DEF Snapshots
<1>2. tail[s][snap.id] \in Writes \cup {None}
  BY <1>1 DEF StoreTypeOK
<1> DEFINE call == [at |-> "queued", snap |-> snap, by |-> s, prev |-> tail[s][snap.id]]
<1>3. call \in WriteCalls
  BY <1>2 DEF WriteCalls
<1>4. call # Free
  <2>1. call.at = "queued"
    OBVIOUS
  <2>2. Free.at = "free"
    BY DEF Free
  <2>3. QED BY <2>1, <2>2
<1>5. write' = [write EXCEPT ![w] = call] /\ w \notin InFlight
  BY DEF Persist, IsNext
<1> HIDE DEF call
<1>6. /\ write' \in [Writes -> WriteCalls \cup {Free}] /\ write'[w] = call
      /\ \A v \in Writes : v # w => write'[v] = write[v]
  BY <1>3, <1>5 DEF StoreTypeOK
<1>7. InFlight' = InFlight \cup {w}
  BY <1>4, <1>5, <1>6 DEF InFlight
<1>8. /\ tail' \in [SessionNumbers -> [Ids -> Writes \cup {None}]]
      /\ tail'[s][snap.id] = w
      /\ \A z \in SessionNumbers, i \in Ids : z # s \/ i # snap.id => tail'[z][i] = tail[z][i]
  BY <1>1 DEF Persist, StoreTypeOK
<1>9. QED BY <1>5, <1>6, <1>7, <1>8 DEF call

\* A write that returns to the one behind it.
LEMMA ReturnedFacts ==
  ASSUME StoreTypeOK, NEW w \in InFlight, Returned(w)
  PROVE  /\ InFlight' = InFlight \ {w}
         /\ write' \in [Writes -> WriteCalls \cup {Free}]
         /\ \A v \in InFlight : v # w =>
              /\ write'[v].snap = write[v].snap /\ write'[v].by = write[v].by
              /\ write'[v].at = write[v].at
              /\ write'[v].prev = IF write[v].prev = w THEN None ELSE write[v].prev
         /\ tail' \in [SessionNumbers -> [Ids -> Writes \cup {None}]]
         /\ \A z \in SessionNumbers, i \in Ids :
              tail'[z][i] = IF z = write[w].by /\ i = write[w].snap.id /\ tail[z][i] = w
                            THEN None ELSE tail[z][i]
         /\ turn' \in [Runs -> Writes \cup {None, "prompting"}]
         /\ \A r \in Runs : turn'[r] = IF turn[r] = w THEN None ELSE turn[r]
         /\ flip' \in Writes \cup {None}
         /\ flip' = IF flip = w THEN None ELSE flip
<1>1. w \in Writes /\ write[w].by \in SessionNumbers /\ write[w].snap.id \in Ids
  BY SlotFacts
<1>2. ASSUME NEW v \in InFlight, v # w
      PROVE  /\ v \in Writes /\ write'[v] \in WriteCalls
             /\ write'[v].snap = write[v].snap /\ write'[v].by = write[v].by
             /\ write'[v].at = write[v].at
             /\ write'[v].prev = IF write[v].prev = w THEN None ELSE write[v].prev
  <2>1. v \in Writes /\ write[v] \in WriteCalls
    BY SlotFacts
  <2>2. CASE write[v].prev = w
    <3>1. write'[v] = [write[v] EXCEPT !.prev = None]
      BY <1>2, <2>1, <2>2 DEF Returned
    <3>2. QED BY <2>1, <2>2, <3>1 DEF WriteCalls
  <2>3. CASE write[v].prev # w
    <3>1. write'[v] = write[v]
      BY <1>2, <2>1, <2>3 DEF Returned
    <3>2. QED BY <2>1, <2>3, <3>1
  <2>4. QED BY <2>2, <2>3
<1>3. \A v \in Writes : v = w \/ v \notin InFlight => write'[v] = Free
  BY DEF Returned, InFlight
<1>4. DOMAIN write' = Writes /\ write' = [v \in Writes |-> write'[v]]
  BY DEF Returned
<1>5. \A v \in Writes : write'[v] \in WriteCalls \cup {Free}
  BY <1>2, <1>3
<1>6. write' \in [Writes -> WriteCalls \cup {Free}]
  BY <1>4, <1>5
<1>7. Free \notin WriteCalls
  <2>1. \A c \in WriteCalls : c.at \in {"queued", "open"}
    BY DEF WriteCalls
  <2>2. Free.at = "free"
    BY DEF Free
  <2>3. QED BY <2>1, <2>2
<1>8. InFlight' = InFlight \ {w}
  BY <1>2, <1>3, <1>7 DEF InFlight
<1>9. /\ tail' \in [SessionNumbers -> [Ids -> Writes \cup {None}]]
      /\ \A z \in SessionNumbers, i \in Ids :
           tail'[z][i] = IF z = write[w].by /\ i = write[w].snap.id /\ tail[z][i] = w
                         THEN None ELSE tail[z][i]
  BY <1>1 DEF Returned, StoreTypeOK
<1>10. /\ turn' \in [Runs -> Writes \cup {None, "prompting"}]
       /\ \A r \in Runs : turn'[r] = IF turn[r] = w THEN None ELSE turn[r]
       /\ flip' \in Writes \cup {None} /\ flip' = IF flip = w THEN None ELSE flip
  BY DEF Returned, StoreTypeOK
<1>11. QED BY <1>2, <1>6, <1>8, <1>9, <1>10

-----------------------------------------------------------------------------
(* The line of writes                                                      *)

LEMMA LineFacts ==
  ASSUME NEW s, NEW i, NEW q \in Seq(Writes), Line(q, s, i)
  PROVE  /\ Len(q) \in Nat /\ \A k \in 1..Len(q) : q[k] \in InFlight
         /\ \A k \in 1..Len(q) : write[q[k]].by = s /\ write[q[k]].snap.id = i
         /\ \A w \in InFlight : write[w].by = s /\ write[w].snap.id = i =>
              \E k \in 1..Len(q) : q[k] = w
<1>1. \A k \in 1..Len(q) : q[k] \in Writes
  OBVIOUS
<1>2. \A w \in InFlight : w \in Writes
  BY DEF InFlight
<1>3. QED BY <1>1, <1>2 DEF Line

LEMMA LinePersist ==
  ASSUME StoreTypeOK, InLine, RunStoreAssumption,
         NEW w \in Writes, NEW t \in SessionNumbers, NEW snap \in Snapshots,
         Persist(w, t, snap)
  PROVE  InLine'
<1>1. /\ w \notin InFlight /\ InFlight' = InFlight \cup {w}
      /\ write'[w] = [at |-> "queued", snap |-> snap, by |-> t, prev |-> tail[t][snap.id]]
      /\ \A v \in Writes : v # w => write'[v] = write[v]
      /\ tail'[t][snap.id] = w
      /\ \A z \in SessionNumbers, i \in Ids : z # t \/ i # snap.id => tail'[z][i] = tail[z][i]
  BY PersistFacts
<1>2. ASSUME NEW s \in SessionNumbers, NEW i \in Ids
      PROVE  \E q \in Seq(Writes) : Line(q, s, i)'
  <2>1. PICK q \in Seq(Writes) : Line(q, s, i)
    BY DEF InLine
  <2>2. \A k \in 1..Len(q) : q[k] \in InFlight /\ q[k] \in Writes /\ q[k] # w
    BY <1>1, <2>1, LineFacts
  <2>3. \A k \in 1..Len(q) : write'[q[k]] = write[q[k]]
    BY <1>1, <2>2
  <2>4. CASE s = t /\ i = snap.id
    <3> DEFINE p == Append(q, w)
    <3>1. /\ p \in Seq(Writes) /\ Len(p) = Len(q) + 1 /\ p[Len(q) + 1] = w
          /\ \A k \in 1..Len(q) : p[k] = q[k]
          /\ Len(q) \in Nat
      OBVIOUS
    <3> HIDE DEF p
    <3>2. ASSUME NEW v \in Writes
          PROVE  (v \in InFlight' /\ write'[v].by = s /\ write'[v].snap.id = i)
                   <=> \E k \in 1..Len(p) : p[k] = v
      <4>1. CASE v = w
        BY <1>1, <2>4, <3>1, <4>1
      <4>2. CASE v # w
        <5>1. (v \in InFlight' /\ write'[v].by = s /\ write'[v].snap.id = i)
                <=> \E k \in 1..Len(q) : q[k] = v
          BY <1>1, <2>1, <4>2 DEF Line
        <5>2. (\E k \in 1..Len(q) : q[k] = v) <=> (\E k \in 1..Len(p) : p[k] = v)
          BY <3>1, <4>2
        <5>3. QED BY <5>1, <5>2
      <4>3. QED BY <4>1, <4>2
    <3>3. ASSUME NEW j \in 1..Len(p), NEW k \in 1..Len(p), p[j] = p[k] PROVE j = k
      <4>1. \A m \in 1..Len(p) : m \in 1..Len(q) \/ m = Len(p)
        BY <3>1
      <4>2. CASE j \in 1..Len(q) /\ k \in 1..Len(q)
        <5>1. q[j] = q[k]
          BY <3>1, <3>3, <4>2
        <5>2. QED BY <2>1, <4>2, <5>1 DEF Line
      <4>3. \A m \in 1..Len(q) : p[m] # p[Len(p)]
        BY <2>2, <3>1
      <4>4. QED BY <3>3, <4>1, <4>2, <4>3
    <3>4. tail'[s][i] = IF Len(p) = 0 THEN None ELSE p[Len(p)]
      BY <1>1, <2>4, <3>1
    <3>5. \A k \in 1..Len(p) : write'[p[k]].prev = IF k = 1 THEN None ELSE p[k - 1]
      <4>1. ASSUME NEW k \in 1..Len(q)
            PROVE  write'[p[k]].prev = IF k = 1 THEN None ELSE p[k - 1]
        <5>1. write[q[k]].prev = IF k = 1 THEN None ELSE q[k - 1]
          BY <2>1 DEF Line
        <5>2. k \in Nat /\ p[k] = q[k] /\ (k # 1 => k - 1 \in 1..Len(q) /\ p[k - 1] = q[k - 1])
          BY <3>1
        <5>3. write'[p[k]] = write[q[k]]
          BY <2>3, <5>2
        <5>4. QED BY <5>1, <5>2, <5>3
      <4>2. write'[p[Len(p)]].prev = IF Len(p) = 1 THEN None ELSE p[Len(p) - 1]
        BY <1>1, <2>1, <2>4, <3>1 DEF Line
      <4>3. QED BY <3>1, <4>1, <4>2
    <3>6. Line(p, s, i)'
      BY <3>1, <3>2, <3>3, <3>4, <3>5 DEF Line
    <3>7. QED BY <3>1, <3>6
  <2>5. CASE ~(s = t /\ i = snap.id)
    <3>1. tail'[s][i] = tail[s][i]
      BY <1>1, <2>5
    <3>2. ASSUME NEW v \in Writes
          PROVE  (v \in InFlight' /\ write'[v].by = s /\ write'[v].snap.id = i)
                   <=> \E k \in 1..Len(q) : q[k] = v
      <4>1. CASE v = w
        BY <1>1, <2>2, <2>5, <4>1
      <4>2. CASE v # w
        BY <1>1, <2>1, <4>2 DEF Line
      <4>3. QED BY <4>1, <4>2
    <3>3. Line(q, s, i)'
      BY <2>1, <2>3, <3>1, <3>2 DEF Line
    <3>4. QED BY <3>3
  <2>6. QED BY <2>4, <2>5
<1>3. ASSUME NEW v \in InFlight', write'[v].at = "open" PROVE write'[v].prev = None
  <2>1. v # w
    BY <1>1, <1>3
  <2>2. v \in InFlight /\ write'[v] = write[v]
    BY <1>1, <2>1 DEF InFlight
  <2>3. QED BY <1>3, <2>2 DEF InLine
<1>4. QED BY <1>2, <1>3 DEF InLine

\* Who waits for nobody stands first.
LEMMA FirstInLine ==
  ASSUME StoreTypeOK, RunStoreAssumption, NEW w \in InFlight, write[w].prev = None,
         NEW s, NEW i, NEW q \in Seq(Writes), Line(q, s, i),
         write[w].by = s, write[w].snap.id = i
  PROVE  Len(q) >= 1 /\ q[1] = w
<1>1. PICK k \in 1..Len(q) : q[k] = w
  BY LineFacts
<1>2. k = 1
  <2>1. SUFFICES ASSUME k # 1 PROVE FALSE
    OBVIOUS
  <2>2. k - 1 \in 1..Len(q) /\ q[k - 1] \in Writes
    BY <2>1, LineFacts
  <2>3. write[w].prev = q[k - 1]
    BY <1>1, <2>1 DEF Line
  <2>4. QED BY <2>2, <2>3 DEF RunStoreAssumption
<1>3. QED BY <1>1, <1>2, LineFacts

LEMMA LineReturned ==
  ASSUME StoreTypeOK, InLine, RunStoreAssumption, NEW w \in InFlight,
         write[w].prev = None, Returned(w)
  PROVE  InLine'
<1>1. /\ InFlight' = InFlight \ {w}
      /\ \A v \in InFlight : v # w =>
           /\ write'[v].snap = write[v].snap /\ write'[v].by = write[v].by
           /\ write'[v].at = write[v].at
           /\ write'[v].prev = IF write[v].prev = w THEN None ELSE write[v].prev
      /\ \A z \in SessionNumbers, i \in Ids :
           tail'[z][i] = IF z = write[w].by /\ i = write[w].snap.id /\ tail[z][i] = w
                         THEN None ELSE tail[z][i]
  BY ReturnedFacts
<1>2. w \in Writes /\ None \notin Writes
  BY SlotFacts, RunStoreAssumption DEF RunStoreAssumption
<1>3. ASSUME NEW s \in SessionNumbers, NEW i \in Ids
      PROVE  \E q \in Seq(Writes) : Line(q, s, i)'
  <2>1. PICK q \in Seq(Writes) : Line(q, s, i)
    BY DEF InLine
  <2>2. /\ Len(q) \in Nat
        /\ \A k \in 1..Len(q) : /\ q[k] \in InFlight /\ q[k] \in Writes
                                /\ write[q[k]].by = s /\ write[q[k]].snap.id = i
    BY <2>1, LineFacts
  <2>3. CASE s = write[w].by /\ i = write[w].snap.id
    <3>1. Len(q) >= 1 /\ q[1] = w
      BY <2>1, <2>3, FirstInLine
    <3> DEFINE p == Tail(q)
    <3>2. /\ p \in Seq(Writes) /\ Len(p) = Len(q) - 1
          /\ \A k \in 1..Len(p) : p[k] = q[k + 1]
      BY <2>2, <3>1
    <3> HIDE DEF p
    <3>3. \A k \in 2..Len(q) : q[k] # w
      BY <2>1, <2>2, <3>1 DEF Line
    <3>4. ASSUME NEW v \in Writes
          PROVE  (v \in InFlight' /\ write'[v].by = s /\ write'[v].snap.id = i)
                   <=> \E k \in 1..Len(p) : p[k] = v
      <4>1. CASE v = w
        BY <1>1, <2>2, <3>2, <3>3, <4>1
      <4>2. CASE v # w
        <5>1. (v \in InFlight' /\ write'[v].by = s /\ write'[v].snap.id = i)
                <=> \E k \in 1..Len(q) : q[k] = v
          BY <1>1, <2>1, <4>2 DEF Line
        <5>2. (\E k \in 1..Len(q) : q[k] = v) => (\E k \in 1..Len(p) : p[k] = v)
          <6>1. SUFFICES ASSUME NEW k \in 1..Len(q), q[k] = v
                         PROVE  \E j \in 1..Len(p) : p[j] = v
            OBVIOUS
          <6>2. k # 1
            BY <3>1, <4>2, <6>1
          <6>3. k - 1 \in 1..Len(p) /\ p[k - 1] = q[k]
            BY <2>2, <3>2, <6>2
          <6>4. QED BY <6>1, <6>3
        <5>3. (\E k \in 1..Len(p) : p[k] = v) => (\E k \in 1..Len(q) : q[k] = v)
          BY <2>2, <3>2
        <5>4. QED BY <5>1, <5>2, <5>3
      <4>3. QED BY <4>1, <4>2
    <3>5. \A j, k \in 1..Len(p) : p[j] = p[k] => j = k
      BY <2>1, <2>2, <3>2 DEF Line
    <3>6. tail'[s][i] = IF Len(p) = 0 THEN None ELSE p[Len(p)]
      <4>1. tail[s][i] = q[Len(q)]
        BY <2>1, <2>2, <3>1 DEF Line
      <4>2. CASE Len(q) = 1
        BY <1>1, <2>3, <3>1, <3>2, <4>1, <4>2
      <4>3. CASE Len(q) # 1
        <5>1. Len(q) \in 2..Len(q) /\ Len(p) # 0 /\ p[Len(p)] = q[Len(q)]
          BY <2>2, <3>1, <3>2, <4>3
        <5>2. tail'[s][i] = tail[s][i]
          BY <1>1, <3>3, <4>1, <5>1
        <5>3. QED BY <4>1, <5>1, <5>2
      <4>4. QED BY <4>2, <4>3
    <3>7. ASSUME NEW k \in 1..Len(p)
          PROVE  write'[p[k]].prev = IF k = 1 THEN None ELSE p[k - 1]
      <4>1. /\ p[k] = q[k + 1] /\ k + 1 \in 2..Len(q) /\ k + 1 \in 1..Len(q)
            /\ p[k] # w /\ p[k] \in InFlight /\ k \in Nat /\ k + 1 # 1
        <5>1. k \in Nat /\ k + 1 \in 2..Len(q) /\ k + 1 \in 1..Len(q) /\ k + 1 # 1
          BY <2>2, <3>2
        <5>2. p[k] = q[k + 1] /\ q[k + 1] # w /\ q[k + 1] \in InFlight
          BY <2>2, <3>2, <3>3, <5>1
        <5>3. QED BY <5>1, <5>2
      <4>2. write[p[k]].prev = q[k]
        BY <2>1, <4>1 DEF Line
      <4>3. write'[p[k]].prev = IF q[k] = w THEN None ELSE q[k]
        BY <1>1, <4>1, <4>2
      <4>4. CASE k = 1
        BY <3>1, <4>3, <4>4
      <4>5. CASE k # 1
        <5>1. k \in 2..Len(q) /\ k - 1 \in 1..Len(p) /\ p[k - 1] = q[k]
          BY <2>2, <3>2, <4>1, <4>5
        <5>2. QED BY <3>3, <4>3, <4>5, <5>1
      <4>6. QED BY <4>4, <4>5
    <3>8. Line(p, s, i)'
      BY <3>2, <3>4, <3>5, <3>6, <3>7 DEF Line
    <3>9. QED BY <3>2, <3>8
  <2>4. CASE ~(s = write[w].by /\ i = write[w].snap.id)
    <3>1. tail'[s][i] = tail[s][i]
      BY <1>1, <2>4
    <3>2. \A k \in 1..Len(q) : q[k] # w
      BY <2>2, <2>4
    <3>3. ASSUME NEW v \in Writes
          PROVE  (v \in InFlight' /\ write'[v].by = s /\ write'[v].snap.id = i)
                   <=> \E k \in 1..Len(q) : q[k] = v
      <4>1. CASE v = w
        BY <1>1, <3>2, <4>1
      <4>2. CASE v # w
        BY <1>1, <2>1, <4>2 DEF Line
      <4>3. QED BY <4>1, <4>2
    <3>4. ASSUME NEW k \in 1..Len(q)
          PROVE  write'[q[k]].prev = IF k = 1 THEN None ELSE q[k - 1]
      <4>1. write[q[k]].prev = IF k = 1 THEN None ELSE q[k - 1]
        BY <2>1 DEF Line
      <4>2. k # 1 => k - 1 \in 1..Len(q)
        BY <2>2
      <4>3. write[q[k]].prev # w
        BY <1>2, <3>2, <4>1, <4>2
      <4>4. QED BY <1>1, <2>2, <3>2, <4>1, <4>3
    <3>5. Line(q, s, i)'
      BY <2>1, <3>1, <3>3, <3>4 DEF Line
    <3>6. QED BY <3>5
  <2>5. QED BY <2>3, <2>4
<1>4. ASSUME NEW v \in InFlight', write'[v].at = "open" PROVE write'[v].prev = None
  BY <1>1, <1>4 DEF InLine
<1>5. QED BY <1>3, <1>4 DEF InLine

-----------------------------------------------------------------------------
(* The invariant at the start, and its parts step by step                  *)

\* No write in flight: every line is empty.
LEMMA EmptyLines ==
  ASSUME write = [w \in Writes |-> Free],
         tail = [s \in SessionNumbers |-> [i \in Ids |-> None]]
  PROVE  InFlight = {} /\ InLine
<1>1. InFlight = {}
  BY DEF InFlight
<1>2. \A s \in SessionNumbers, i \in Ids : Line(<<>>, s, i)
  BY <1>1 DEF Line
<1>3. <<>> \in Seq(Writes)
  OBVIOUS
<1>4. QED BY <1>1, <1>2, <1>3 DEF InLine

LEMMA StoreInit == ASSUME RunStoreAssumption, Init PROVE StoreInv
<1>1. StoreTypeOK
  <2>1. /\ found.unread = {} /\ found.read = {} /\ flip = None
        /\ 0 \in 0 .. MaxSessions /\ 0 \in 0 .. MaxIndex /\ 0 \in 0 .. session
    BY DEF Init, NothingFound, RunStoreAssumption
  <2>2. write \in [Writes -> {Free}] /\ tail \in [SessionNumbers -> [Ids -> {None}]]
    BY DEF Init
  <2>3. write \in [Writes -> WriteCalls \cup {Free}]
    BY <2>2
  <2>4. tail \in [SessionNumbers -> [Ids -> Writes \cup {None}]]
    BY <2>2
  <2>5. /\ disk \in [Ids -> Snapshots \cup {Absent, Torn}]
        /\ archived \in [Ids -> Snapshots \cup {None}]
    BY DEF Init
  <2>6. /\ turn \in [Runs -> Writes \cup {None, "prompting"}]
        /\ status \in [Runs -> Statuses \cup {"none"}]
        /\ id \in [Runs -> 0 .. MaxIndex] /\ sessionOf \in [Runs -> 0 .. session]
    BY <2>1 DEF Init
  <2>7. \A r \in Runs : id[r] = 0 /\ sessionOf[r] = 0
    BY DEF Init
  <2>8. QED BY <2>1, <2>3, <2>4, <2>5, <2>6, <2>7 DEF Init, StoreTypeOK
<1>2. RunsFit
  <2>1. \A i \in Ids : disk[i] \notin Snapshots
    <3>1. \A x \in Snapshots : x.status \in Statuses
      BY DEF Snapshots
    <3>2. Absent.status = "absent" /\ "absent" \notin Statuses
      BY DEF Absent, Statuses, Settled, Outcomes
    <3>3. QED BY <3>1, <3>2 DEF Init
  <2>2. QED BY <2>1 DEF Init, RunsFit, NothingFound
<1>3. InFlight = {} /\ InLine
  BY EmptyLines DEF Init
<1>4. Started = {}
  BY DEF Init, Started
<1>5. Kept
  BY <1>3, <1>4 DEF Kept, Init, Unshared, Quiet
<1>6. QED BY <1>1, <1>2, <1>3, <1>5 DEF StoreInv

\* A snapshot is neither nothing nor half of one.
LEMMA SnapshotFacts ==
  /\ Absent \notin Snapshots /\ Torn \notin Snapshots
  /\ \A x \in Snapshots : x.run \in Runs /\ x.id \in Ids /\ x.status \in Statuses
  /\ \A r \in Runs, i \in Ids, t \in Statuses : [run |-> r, id |-> i, status |-> t] \in Snapshots
  /\ \A x \in Snapshots, t \in Statuses :
       /\ [x EXCEPT !.status = t] \in Snapshots
       /\ [x EXCEPT !.status = t] = [run |-> x.run, id |-> x.id, status |-> t]
<1>1. \A x \in Snapshots : x.run \in Runs /\ x.id \in Ids /\ x.status \in Statuses
  BY DEF Snapshots
<1>2. "absent" \notin Statuses /\ "torn" \notin Statuses
  BY DEF Statuses, Settled, Outcomes
<1>3. Absent.status = "absent" /\ Torn.status = "torn"
  BY DEF Absent, Torn
<1>4. Absent \notin Snapshots /\ Torn \notin Snapshots
  BY <1>1, <1>2, <1>3
<1>5. QED BY <1>1, <1>4 DEF Snapshots

\* What a run says of itself.
LEMMA SnapshotOf ==
  ASSUME StoreTypeOK, NEW r \in Runs, id[r] # 0
  PROVE  /\ id[r] \in Ids /\ status[r] \in Statuses /\ sessionOf[r] \in SessionNumbers
         /\ \A t \in Statuses : /\ [Snapshot(r) EXCEPT !.status = t] \in Snapshots
                                /\ [Snapshot(r) EXCEPT !.status = t]
                                     = [run |-> r, id |-> id[r], status |-> t]
         /\ Snapshot(r) \in Snapshots
         /\ Snapshot(r) = [run |-> r, id |-> id[r], status |-> status[r]]
<1>1. id[r] \in Ids /\ status[r] \in Statuses /\ sessionOf[r] \in SessionNumbers
  BY DEF StoreTypeOK, Ids
<1>2. QED BY <1>1 DEF Snapshot, Snapshots

\* What the steps of the store keep of the runs.
LEMMA StoreStepFits ==
  ASSUME StoreInv, RunStoreAssumption, NEW w \in Writes, StoreStep(w)
  PROVE  StoreTypeOK' /\ RunsFit'
<1>1. StoreTypeOK /\ RunsFit
  BY DEF StoreInv
<1>2. w \in InFlight
  BY DEF StoreStep, WriteOpens, WriteEnds, WriteFails, InFlight
<1>3. write[w].snap \in Snapshots /\ write[w].snap.id \in Ids /\ write[w] \in WriteCalls
  BY <1>1, <1>2, SlotFacts
<1>4. CASE WriteOpens(w)
  <2>1. [write[w] EXCEPT !.at = "open"] \in WriteCalls
    BY <1>3 DEF WriteCalls
  <2>2. write' \in [Writes -> WriteCalls \cup {Free}]
    BY <1>1, <1>4, <2>1 DEF WriteOpens, StoreTypeOK
  <2>3. disk' \in [Ids -> Snapshots \cup {Absent, Torn}]
    BY <1>1, <1>4 DEF WriteOpens, StoreTypeOK
  <2>4. StoreTypeOK'
    BY <1>1, <1>4, <2>2, <2>3 DEF WriteOpens, StoreTypeOK, sessionVars, runVars
  <2>5. \A i \in Ids : disk'[i] = disk[i] \/ disk'[i] = Torn
    BY <1>1, <1>4 DEF WriteOpens, StoreTypeOK
  <2>6. Torn # Absent
    BY DEF Torn, Absent
  <2>7. RunsFit'
    <3>1. \A i \in Ids : disk'[i] \in Snapshots => disk'[i].id = i
      BY <1>1, <2>5, SnapshotFacts DEF RunsFit
    <3>2. \A i \in found'.unread : disk'[i] # Absent
      BY <1>1, <1>4, <2>5, <2>6 DEF RunsFit, StoreTypeOK, WriteOpens, sessionVars
    <3>3. QED BY <1>1, <1>4, <3>1, <3>2 DEF RunsFit, WriteOpens, sessionVars, runVars
  <2>8. QED BY <2>4, <2>7
<1>5. CASE WriteEnds(w) \/ WriteFails(w)
  <2>1. /\ write' \in [Writes -> WriteCalls \cup {Free}]
        /\ tail' \in [SessionNumbers -> [Ids -> Writes \cup {None}]]
        /\ turn' \in [Runs -> Writes \cup {None, "prompting"}]
        /\ \A r \in Runs : turn'[r] = IF turn[r] = w THEN None ELSE turn[r]
        /\ flip' \in Writes \cup {None}
    BY <1>1, <1>2, <1>5, ReturnedFacts DEF WriteEnds, WriteFails
  <2>2. /\ disk' \in [Ids -> Snapshots \cup {Absent, Torn}]
        /\ \A i \in Ids : disk'[i] = disk[i] \/ (i = write[w].snap.id /\ disk'[i] = write[w].snap)
    BY <1>1, <1>3, <1>5 DEF WriteEnds, WriteFails, StoreTypeOK
  <2>3. spoilt' \in BOOLEAN
    BY <1>1, <1>5 DEF WriteEnds, WriteFails, Spoils, StoreTypeOK
  <2>4. UNCHANGED <<session, phase, index, archived, found, listed, id, sessionOf, status,
                    cancelling, closing>>
    BY <1>5 DEF WriteEnds, WriteFails
  <2>5. StoreTypeOK'
    BY <1>1, <2>1, <2>2, <2>3, <2>4 DEF StoreTypeOK
  <2>6. \A r \in Runs : turn'[r] # None => turn[r] # None
    BY <2>1
  <2>7. \A r \in Runs : turn[r] = "prompting" => turn'[r] = "prompting"
    BY <2>1, RunStoreAssumption DEF RunStoreAssumption
  <2>8. \A i \in Ids : disk'[i] \in Snapshots => disk'[i].id = i
    BY <1>1, <2>2 DEF RunsFit
  <2>9. \A i \in found'.unread : disk'[i] # Absent
    BY <1>1, <1>3, <2>2, <2>4, SnapshotFacts DEF RunsFit, StoreTypeOK
  <2>10. RunsFit'
    BY <1>1, <2>4, <2>6, <2>7, <2>8, <2>9 DEF RunsFit, StoreTypeOK
  <2>11. QED BY <2>5, <2>10
<1>6. QED BY <1>4, <1>5 DEF StoreStep

\* What the beginning and the end of a session keep of the runs.
LEMMA SessionStepFits ==
  ASSUME StoreInv, RunStoreAssumption, Boot \/ Crash \/ Reload \/ RestoreStep
  PROVE  StoreTypeOK' /\ RunsFit'
<1>1. StoreTypeOK /\ RunsFit
  BY DEF StoreInv
<1>2. CASE Boot
  <2>1. session' \in SessionNumbers /\ session' \in 0 .. MaxSessions /\ session \in Nat
    BY <1>1, <1>2 DEF Boot, StoreTypeOK, RunStoreAssumption, SessionNumbers
  <2>2. sessionOf' \in [Runs -> 0 .. session']
    BY <1>1, <1>2, <2>1 DEF Boot, StoreTypeOK, runVars
  <2>3. archived' \in [Ids -> Snapshots \cup {None}] /\ index' \in 0 .. MaxIndex
    BY <1>2, RunStoreAssumption DEF Boot, RunStoreAssumption
  <2>4. /\ phase' = "restoring" /\ found'.unread \subseteq Ids /\ found'.read \subseteq Snapshots
        /\ flip' \in Writes \cup {None} /\ \A i \in found'.unread : disk[i] # Absent
    BY <1>2 DEF Boot
  <2>5. StoreTypeOK'
    BY <1>1, <1>2, <2>1, <2>2, <2>3, <2>4 DEF Boot, StoreTypeOK, runVars, storeVars
  <2>6. listed' = {} /\ UNCHANGED <<turn, cancelling, id, status, disk>>
    BY <1>1, <1>2 DEF Boot, RunsFit, runVars, storeVars
  <2>7. RunsFit'
    BY <1>1, <2>4, <2>6 DEF RunsFit
  <2>8. QED BY <2>5, <2>7
<1>3. CASE Crash
  <2>1. /\ write' \in [Writes -> WriteCalls \cup {Free}]
        /\ tail' \in [SessionNumbers -> [Ids -> Writes \cup {None}]]
        /\ turn' \in [Runs -> Writes \cup {None, "prompting"}]
        /\ \A r \in Runs : turn'[r] = None
        /\ listed' = {} /\ cancelling' = {} /\ phase' = "down"
        /\ found'.unread = {} /\ found'.read = {} /\ flip' = None
        /\ UNCHANGED <<session, index, archived, id, sessionOf, status, disk>>
    BY <1>3 DEF Crash, NothingFound
  <2>2. spoilt' \in BOOLEAN
    BY <1>1, <1>3 DEF Crash, Spoils, StoreTypeOK
  <2>3. StoreTypeOK'
    BY <1>1, <2>1, <2>2 DEF StoreTypeOK
  <2>4. RunsFit'
    BY <1>1, <2>1 DEF RunsFit
  <2>5. QED BY <2>3, <2>4
<1>4. CASE Reload
  <2>1. /\ phase' = "down" /\ listed = {} /\ spoilt' \in BOOLEAN
        /\ UNCHANGED <<session, index, archived, found, flip, runVars, storeVars>>
    BY <1>1, <1>4 DEF Reload, Spoils, StoreTypeOK
  <2>2. StoreTypeOK'
    BY <1>1, <2>1 DEF StoreTypeOK, runVars, storeVars
  <2>3. RunsFit'
    BY <1>1, <2>1 DEF RunsFit, runVars, storeVars
  <2>4. QED BY <2>2, <2>3
<1>5. ASSUME NEW i \in Ids, ReadSnapshot(i) PROVE StoreTypeOK' /\ RunsFit'
  <2>1. disk[i] \in Snapshots \cup {Torn} /\ phase = "restoring"
    BY <1>1, <1>5 DEF ReadSnapshot, RunsFit, StoreTypeOK
  <2>2. /\ found'.unread = found.unread \ {i}
        /\ found'.read = found.read \cup (IF disk[i] = Torn THEN {} ELSE {disk[i]})
        /\ UNCHANGED <<session, phase, index, archived, flip, runVars, storeVars, spoilt>>
    BY <1>5 DEF ReadSnapshot
  <2>3. found'.unread \subseteq Ids /\ found'.read \subseteq Snapshots
    BY <1>1, <2>1, <2>2 DEF StoreTypeOK
  <2>4. StoreTypeOK'
    BY <1>1, <2>2, <2>3 DEF StoreTypeOK, runVars, storeVars
  <2>5. RunsFit'
    BY <1>1, <2>2 DEF RunsFit, runVars, storeVars
  <2>6. QED BY <2>4, <2>5
<1>6. ASSUME NEW snap \in found.read, Restore(snap) PROVE StoreTypeOK' /\ RunsFit'
  <2>1. snap \in Snapshots /\ snap.id \in Ids /\ phase = "restoring" /\ session \in SessionNumbers
    BY <1>1, <1>6, SnapshotFacts DEF Restore, StoreTypeOK
  <2>2. index' \in 0 .. MaxIndex
    BY <1>1, <1>6, <2>1, RunStoreAssumption DEF Restore, StoreTypeOK, Ids, RunStoreAssumption
  <2>3. found'.unread = found.unread /\ found'.read \subseteq found.read
    BY <1>1, <1>6 DEF Restore, StoreTypeOK
  <2>4. /\ archived' \in [Ids -> Snapshots \cup {None}]
        /\ write' \in [Writes -> WriteCalls \cup {Free}]
        /\ tail' \in [SessionNumbers -> [Ids -> Writes \cup {None}]]
        /\ flip' \in Writes \cup {None}
    <3>1. CASE snap.status # "running"
      BY <1>1, <1>6, <2>1, <3>1 DEF Restore, StoreTypeOK
    <3>2. CASE snap.status = "running"
      <4> DEFINE dead == [snap EXCEPT !.status = "interrupted"]
      <4>1. dead \in Snapshots
        BY <2>1, SnapshotFacts DEF Statuses, Settled
      <4> HIDE DEF dead
      <4>2. PICK w \in Writes : Persist(w, session, dead) /\ flip' = w
        BY <1>6, <3>2 DEF Restore, dead
      <4>3. archived' = [archived EXCEPT ![snap.id] = dead]
        BY <1>6, <3>2 DEF Restore, dead
      <4>4. QED BY <1>1, <2>1, <4>1, <4>2, <4>3, PersistFacts DEF StoreTypeOK
    <3>3. QED BY <3>1, <3>2
  <2>5. UNCHANGED <<session, phase, runVars, disk, spoilt>>
    BY <1>6 DEF Restore
  <2>6. StoreTypeOK'
    BY <1>1, <2>2, <2>3, <2>4, <2>5 DEF StoreTypeOK, runVars
  <2>7. RunsFit'
    BY <1>1, <2>3, <2>5 DEF RunsFit, runVars
  <2>8. QED BY <2>6, <2>7
<1>7. CASE Restored
  <2>1. phase = "restoring" /\ phase' = "up" /\ listed = {}
    BY <1>1, <1>7 DEF Restored, RunsFit
  <2>2. StoreTypeOK'
    BY <1>1, <1>7, <2>1 DEF Restored, StoreTypeOK, runVars, storeVars
  <2>3. RunsFit'
    BY <1>1, <1>7, <2>1 DEF Restored, RunsFit, runVars, storeVars
  <2>4. QED BY <2>2, <2>3
<1>8. QED BY <1>2, <1>3, <1>4, <1>5, <1>6, <1>7 DEF RestoreStep

\* What the steps of a run keep: types, and that what is under way is a run's.
LEMMA RunStepFits ==
  ASSUME StoreInv, RunStoreAssumption, NEW r \in Runs, RunStep(r)
  PROVE  StoreTypeOK' /\ RunsFit'
<1>1. StoreTypeOK /\ RunsFit /\ listed \subseteq Runs
  BY DEF StoreInv, StoreTypeOK
<1>2. CASE StartRun(r)
  <2>1. /\ session \in SessionNumbers /\ session \in 0 .. session /\ index + 1 \in Ids
        /\ index + 1 \in 0 .. MaxIndex /\ index + 1 # 0 /\ phase = "up"
    BY <1>1, <1>2, RunStoreAssumption
    DEF StartRun, StoreTypeOK, RunStoreAssumption, Ids, SessionNumbers
  <2>2. PICK w \in Writes :
          Persist(w, session, [run |-> r, id |-> index + 1, status |-> "running"])
    BY <1>2 DEF StartRun
  <2>3. [run |-> r, id |-> index + 1, status |-> "running"] \in Snapshots
    BY <2>1, SnapshotFacts DEF Statuses
  <2>4. /\ write' \in [Writes -> WriteCalls \cup {Free}]
        /\ tail' \in [SessionNumbers -> [Ids -> Writes \cup {None}]]
    BY <1>1, <2>1, <2>2, <2>3, PersistFacts
  <2>5. /\ index' = index + 1 /\ listed' = listed \cup {r}
        /\ id' = [id EXCEPT ![r] = index + 1] /\ sessionOf' = [sessionOf EXCEPT ![r] = session]
        /\ status' = [status EXCEPT ![r] = "running"]
        /\ turn' = [turn EXCEPT ![r] = "prompting"]
        /\ UNCHANGED <<session, phase, archived, found, flip, cancelling, closing, disk, spoilt>>
    BY <1>2 DEF StartRun
  <2>6. /\ id' \in [Runs -> 0 .. MaxIndex] /\ sessionOf' \in [Runs -> 0 .. session]
        /\ status' \in [Runs -> Statuses \cup {"none"}]
        /\ turn' \in [Runs -> Writes \cup {None, "prompting"}]
        /\ id'[r] # 0 /\ sessionOf'[r] = session /\ status'[r] = "running"
        /\ turn'[r] = "prompting"
        /\ \A q \in Runs : q # r => /\ id'[q] = id[q] /\ sessionOf'[q] = sessionOf[q]
                                    /\ status'[q] = status[q] /\ turn'[q] = turn[q]
    BY <1>1, <2>1, <2>5 DEF StoreTypeOK, Statuses
  <2>7. StoreTypeOK'
    <3>1. \A q \in Runs : id'[q] # 0 => status'[q] \in Statuses /\ sessionOf'[q] \in SessionNumbers
      BY <1>1, <2>1, <2>6 DEF StoreTypeOK, Statuses
    <3>2. \A q \in Runs : id'[q] = 0 => sessionOf'[q] = 0
      BY <1>1, <2>6 DEF StoreTypeOK
    <3>3. QED BY <1>1, <2>1, <2>4, <2>5, <2>6, <3>1, <3>2 DEF StoreTypeOK
  <2>8. RunsFit'
    BY <1>1, <2>1, <2>5, <2>6 DEF RunsFit, StoreTypeOK
  <2>9. QED BY <2>7, <2>8
<1>3. CASE FollowUp(r)
  <2>1. id[r] # 0
    BY <1>1, <1>3 DEF FollowUp, Current, RunsFit
  <2>2. PICK w \in Writes : Persist(w, session, [Snapshot(r) EXCEPT !.status = "running"])
    BY <1>3 DEF FollowUp
  <2>3. [Snapshot(r) EXCEPT !.status = "running"] \in Snapshots
    BY <1>1, <2>1, SnapshotOf DEF Statuses
  <2>4. session \in SessionNumbers
    BY <1>1, <1>3 DEF FollowUp, Current, StoreTypeOK
  <2>5. /\ write' \in [Writes -> WriteCalls \cup {Free}]
        /\ tail' \in [SessionNumbers -> [Ids -> Writes \cup {None}]]
    BY <1>1, <2>2, <2>3, <2>4, PersistFacts
  <2>6. /\ status' \in [Runs -> Statuses \cup {"none"}]
        /\ turn' \in [Runs -> Writes \cup {None, "prompting"}]
        /\ status'[r] = "running" /\ turn'[r] = "prompting"
        /\ \A q \in Runs : q # r => status'[q] = status[q] /\ turn'[q] = turn[q]
    BY <1>1, <1>3 DEF FollowUp, StoreTypeOK, Statuses
  <2>7. UNCHANGED <<sessionVars, listed, id, sessionOf, cancelling, closing, disk, spoilt>>
    BY <1>3 DEF FollowUp
  <2>8. StoreTypeOK'
    <3>1. \A q \in Runs : id[q] # 0 => status'[q] \in Statuses
      BY <1>1, <2>6 DEF StoreTypeOK, Statuses
    <3>2. QED BY <1>1, <2>5, <2>6, <2>7, <3>1 DEF StoreTypeOK, sessionVars
  <2>9. RunsFit'
    BY <1>1, <2>1, <2>6, <2>7 DEF RunsFit, sessionVars
  <2>10. QED BY <2>8, <2>9
<1>4. CASE Settle(r)
  <2>1. id[r] # 0 /\ turn[r] = "prompting"
    BY <1>1, <1>4, RunStoreAssumption DEF Settle, RunsFit, RunStoreAssumption
  <2>2. PICK outcome \in IF status[r] = "running" THEN Outcomes ELSE {status[r]}, w \in Writes :
          /\ status' = [status EXCEPT ![r] = outcome]
          /\ Persist(w, sessionOf[r], [Snapshot(r) EXCEPT !.status = outcome])
          /\ turn' = [turn EXCEPT ![r] = w]
    BY <1>4 DEF Settle
  <2>3. outcome \in Statuses /\ outcome # "running" /\ sessionOf[r] \in SessionNumbers
    BY <1>1, <2>1, <2>2, SnapshotOf DEF Statuses, Settled, Outcomes
  <2>4. [Snapshot(r) EXCEPT !.status = outcome] \in Snapshots
    BY <1>1, <2>1, <2>3, SnapshotOf
  <2>5. /\ write' \in [Writes -> WriteCalls \cup {Free}]
        /\ tail' \in [SessionNumbers -> [Ids -> Writes \cup {None}]]
    BY <1>1, <2>2, <2>3, <2>4, PersistFacts
  <2>6. /\ status' \in [Runs -> Statuses \cup {"none"}]
        /\ turn' \in [Runs -> Writes \cup {None, "prompting"}]
        /\ status'[r] = outcome
        /\ \A q \in Runs : q # r => status'[q] = status[q] /\ turn'[q] = turn[q]
    BY <1>1, <2>2, <2>3 DEF StoreTypeOK
  <2>7. UNCHANGED <<sessionVars, listed, id, sessionOf, cancelling, closing, disk, spoilt>>
    BY <1>4 DEF Settle
  <2>8. StoreTypeOK'
    <3>1. \A q \in Runs : id[q] # 0 => status'[q] \in Statuses
      BY <1>1, <2>3, <2>6 DEF StoreTypeOK
    <3>2. QED BY <1>1, <2>5, <2>6, <2>7, <3>1 DEF StoreTypeOK, sessionVars
  <2>9. RunsFit'
    BY <1>1, <2>1, <2>3, <2>6, <2>7 DEF RunsFit, sessionVars
  <2>10. QED BY <2>8, <2>9
<1>5. CASE Interrupt(r)
  <2>1. id[r] # 0
    BY <1>1, <1>5 DEF Interrupt, Current, RunsFit
  <2>2. /\ status' \in [Runs -> Statuses \cup {"none"}]
        /\ status'[r] = "interrupted"
        /\ \A q \in Runs : q # r => status'[q] = status[q]
    BY <1>1, <1>5 DEF Interrupt, StoreTypeOK, Statuses, Settled
  <2>3. /\ cancelling' = cancelling \cup {r}
        /\ UNCHANGED <<sessionVars, listed, id, sessionOf, turn, closing, storeVars, spoilt>>
    BY <1>5 DEF Interrupt
  <2>4. StoreTypeOK'
    <3>1. \A q \in Runs : id[q] # 0 => status'[q] \in Statuses
      BY <1>1, <2>2 DEF StoreTypeOK, Statuses, Settled
    <3>2. QED BY <1>1, <2>2, <2>3, <3>1 DEF StoreTypeOK, sessionVars, storeVars
  <2>5. RunsFit'
    BY <1>1, <2>1, <2>2, <2>3 DEF RunsFit, sessionVars, storeVars
  <2>6. QED BY <2>4, <2>5
<1>6. CASE InterruptReturns(r)
  <2>1. id[r] # 0
    BY <1>1, <1>6 DEF InterruptReturns, RunsFit
  <2>2. Snapshot(r) \in Snapshots /\ sessionOf[r] \in SessionNumbers
    BY <1>1, <2>1, SnapshotOf
  <2>3. /\ write' \in [Writes -> WriteCalls \cup {Free}]
        /\ tail' \in [SessionNumbers -> [Ids -> Writes \cup {None}]]
    <3>1. CASE \E w \in Writes : Persist(w, sessionOf[r], Snapshot(r))
      BY <1>1, <2>2, <3>1, PersistFacts
    <3>2. CASE UNCHANGED <<write, tail>>
      BY <1>1, <3>2 DEF StoreTypeOK
    <3>3. QED BY <1>6, <3>1, <3>2 DEF InterruptReturns
  <2>4. /\ cancelling' = cancelling \ {r}
        /\ UNCHANGED <<sessionVars, listed, id, sessionOf, status, turn, closing, disk, spoilt>>
    BY <1>6 DEF InterruptReturns
  <2>5. StoreTypeOK'
    BY <1>1, <2>3, <2>4 DEF StoreTypeOK, sessionVars
  <2>6. RunsFit'
    BY <1>1, <2>4 DEF RunsFit, sessionVars
  <2>7. QED BY <2>5, <2>6
<1>7. CASE Close(r)
  <2>1. id[r] # 0
    BY <1>1, <1>7 DEF Close, Current, RunsFit
  <2>2. /\ status' \in [Runs -> Statuses \cup {"none"}]
        /\ status'[r] = status[r] \/ status'[r] = "interrupted"
        /\ \A q \in Runs : q # r => status'[q] = status[q]
    BY <1>1, <1>7 DEF Close, StoreTypeOK, Statuses, Settled
  <2>3. UNCHANGED <<sessionVars, listed, id, sessionOf, turn, cancelling, storeVars, spoilt>>
    BY <1>7 DEF Close
  <2>4. StoreTypeOK'
    <3>1. \A q \in Runs : id[q] # 0 => status'[q] \in Statuses
      BY <1>1, <2>2 DEF StoreTypeOK, Statuses, Settled
    <3>2. QED BY <1>1, <2>2, <2>3, <3>1 DEF StoreTypeOK, sessionVars, storeVars
  <2>5. RunsFit'
    BY <1>1, <2>1, <2>2, <2>3 DEF RunsFit, sessionVars, storeVars
  <2>6. QED BY <2>4, <2>5
<1>8. CASE CloseReturns(r)
  <2>1. /\ listed' = listed \ {r}
        /\ UNCHANGED <<sessionVars, id, sessionOf, status, turn, cancelling, storeVars, spoilt>>
    BY <1>8 DEF CloseReturns
  <2>2. StoreTypeOK'
    BY <1>1, <2>1 DEF StoreTypeOK, sessionVars, storeVars
  <2>3. RunsFit'
    BY <1>1, <2>1 DEF RunsFit, sessionVars, storeVars
  <2>4. QED BY <2>2, <2>3
<1>9. QED BY <1>2, <1>3, <1>4, <1>5, <1>6, <1>7, <1>8 DEF RunStep

\* Every step leaves the writes in line.
LEMMA StepInLine ==
  ASSUME StoreInv, RunStoreAssumption, [Next]_vars PROVE InLine'
<1>1. StoreTypeOK /\ RunsFit /\ InLine
  BY DEF StoreInv
<1>2. CASE UNCHANGED <<write, tail>>
  <2>1. InFlight' = InFlight
    BY <1>2 DEF InFlight
  <2>2. ASSUME NEW s \in SessionNumbers, NEW i \in Ids, NEW q \in Seq(Writes), Line(q, s, i)
        PROVE  Line(q, s, i)'
    BY <1>2, <2>1, <2>2 DEF Line
  <2>3. \A s \in SessionNumbers, i \in Ids : \E q \in Seq(Writes) : Line(q, s, i)'
    BY <1>1, <2>2 DEF InLine
  <2>4. \A w \in InFlight' : write'[w].at = "open" => write'[w].prev = None
    BY <1>1, <1>2, <2>1 DEF InLine
  <2>5. QED BY <2>3, <2>4 DEF InLine
<1>3. ASSUME NEW w \in Writes, StoreStep(w) PROVE InLine'
  <2>1. w \in InFlight /\ write[w].prev = None
    BY <1>1, <1>3 DEF StoreStep, WriteOpens, WriteEnds, WriteFails, InFlight, InLine
  <2>2. CASE WriteEnds(w) \/ WriteFails(w)
    BY <1>1, <2>1, <2>2, LineReturned DEF WriteEnds, WriteFails
  <2>3. CASE WriteOpens(w)
    <3>1. write[w] \in WriteCalls
      BY <1>1, <2>1, SlotFacts
    <3>2. /\ \A v \in Writes : v # w => write'[v] = write[v]
          /\ write'[w].snap = write[w].snap /\ write'[w].by = write[w].by
          /\ write'[w].prev = write[w].prev /\ write'[w].at = "open"
          /\ tail' = tail
      BY <1>1, <2>3, <3>1 DEF WriteOpens, StoreTypeOK, WriteCalls
    <3>3. InFlight' = InFlight
      BY <2>1, <3>2 DEF InFlight, Free
    <3>4. ASSUME NEW s \in SessionNumbers, NEW i \in Ids
          PROVE  \E q \in Seq(Writes) : Line(q, s, i)'
      <4>1. PICK q \in Seq(Writes) : Line(q, s, i)
        BY <1>1 DEF InLine
      <4>2. \A k \in 1..Len(q) : q[k] \in Writes
        BY <1>1, <4>1
      <4>3. Line(q, s, i)'
        BY <3>2, <3>3, <4>1, <4>2 DEF Line
      <4>4. QED BY <4>3
    <3>5. \A v \in InFlight' : write'[v].at = "open" => write'[v].prev = None
      BY <1>1, <2>1, <3>2, <3>3 DEF InLine, InFlight
    <3>6. QED BY <3>4, <3>5 DEF InLine
  <2>4. QED BY <1>3, <2>2, <2>3 DEF StoreStep
<1>4. CASE Boot \/ Reload \/ Restored \/ \E i \in Ids : ReadSnapshot(i)
  BY <1>2, <1>4 DEF Boot, Reload, Restored, ReadSnapshot, storeVars
<1>5. CASE Crash
  <2>1. /\ (write = [w \in Writes |-> Free])'
        /\ (tail = [s \in SessionNumbers |-> [i \in Ids |-> None]])'
    BY <1>5 DEF Crash
  <2>2. QED BY <2>1, EmptyLines, PTL
<1>6. ASSUME NEW snap \in found.read, Restore(snap) PROVE InLine'
  <2>1. snap \in Snapshots /\ session \in SessionNumbers
    BY <1>1, <1>6 DEF Restore, StoreTypeOK
  <2>2. CASE snap.status # "running"
    BY <1>2, <1>6, <2>2 DEF Restore
  <2>3. CASE snap.status = "running"
    <3>1. [snap EXCEPT !.status = "interrupted"] \in Snapshots
      BY <2>1, SnapshotFacts DEF Statuses, Settled
    <3>2. \E w \in Writes : Persist(w, session, [snap EXCEPT !.status = "interrupted"])
      BY <1>6, <2>3 DEF Restore
    <3>3. QED BY <1>1, <2>1, <3>1, <3>2, LinePersist
  <2>4. QED BY <2>2, <2>3
<1>7. ASSUME NEW r \in Runs, RunStep(r) PROVE InLine'
  <2>1. ASSUME NEW t \in SessionNumbers, NEW snap \in Snapshots,
               \E w \in Writes : Persist(w, t, snap)
        PROVE  InLine'
    BY <1>1, <2>1, LinePersist
  <2>2. CASE StartRun(r)
    <3>1. index + 1 \in Ids /\ session \in SessionNumbers
      BY <1>1, <2>2, RunStoreAssumption DEF StartRun, StoreTypeOK, Ids, RunStoreAssumption
    <3>2. [run |-> r, id |-> index + 1, status |-> "running"] \in Snapshots
      BY <3>1, SnapshotFacts DEF Statuses
    <3>3. QED BY <2>1, <2>2, <3>1, <3>2 DEF StartRun
  <2>3. CASE FollowUp(r)
    <3>1. id[r] # 0 /\ session \in SessionNumbers
      BY <1>1, <2>3 DEF FollowUp, Current, RunsFit, StoreTypeOK
    <3>2. [Snapshot(r) EXCEPT !.status = "running"] \in Snapshots
      BY <1>1, <3>1, SnapshotOf DEF Statuses
    <3>3. QED BY <2>1, <2>3, <3>1, <3>2 DEF FollowUp
  <2>4. CASE Settle(r)
    <3>1. id[r] # 0
      BY <1>1, <2>4, RunStoreAssumption DEF Settle, RunsFit, RunStoreAssumption
    <3>2. PICK outcome \in IF status[r] = "running" THEN Outcomes ELSE {status[r]}, w \in Writes :
            Persist(w, sessionOf[r], [Snapshot(r) EXCEPT !.status = outcome])
      BY <2>4 DEF Settle
    <3>3. outcome \in Statuses /\ sessionOf[r] \in SessionNumbers
      BY <1>1, <3>1, <3>2, SnapshotOf DEF Statuses, Settled, Outcomes
    <3>4. [Snapshot(r) EXCEPT !.status = outcome] \in Snapshots
      BY <1>1, <3>1, <3>3, SnapshotOf
    <3>5. QED BY <2>1, <3>2, <3>3, <3>4
  <2>5. CASE InterruptReturns(r)
    <3>1. Snapshot(r) \in Snapshots /\ sessionOf[r] \in SessionNumbers
      BY <1>1, <2>5, SnapshotOf DEF InterruptReturns, RunsFit
    <3>2. QED BY <1>2, <2>1, <2>5, <3>1 DEF InterruptReturns
  <2>6. CASE Interrupt(r) \/ Close(r) \/ CloseReturns(r)
    BY <1>2, <2>6 DEF Interrupt, Close, CloseReturns, storeVars
  <2>7. QED BY <1>7, <2>2, <2>3, <2>4, <2>5, <2>6 DEF RunStep
<1>8. CASE UNCHANGED vars
  BY <1>2, <1>8 DEF vars, storeVars
<1>9. QED BY <1>3, <1>4, <1>5, <1>6, <1>7, <1>8 DEF Next, RestoreStep

-----------------------------------------------------------------------------
(* Until something is lost: what the files will say                        *)

\* The last write of a run is in flight; without one no write of it is.
LEMMA TailFacts ==
  ASSUME StoreTypeOK, InLine, RunStoreAssumption, NEW s \in SessionNumbers, NEW i \in Ids
  PROVE  /\ tail[s][i] # None => /\ tail[s][i] \in InFlight /\ write[tail[s][i]].by = s
                                 /\ write[tail[s][i]].snap.id = i
         /\ tail[s][i] = None =>
              \A w \in InFlight : ~(write[w].by = s /\ write[w].snap.id = i)
<1>1. PICK q \in Seq(Writes) : Line(q, s, i)
  BY DEF InLine
<1>2. /\ Len(q) \in Nat /\ \A k \in 1..Len(q) : q[k] \in InFlight /\ q[k] \in Writes
      /\ \A k \in 1..Len(q) : write[q[k]].by = s /\ write[q[k]].snap.id = i
      /\ \A w \in InFlight : write[w].by = s /\ write[w].snap.id = i =>
           \E k \in 1..Len(q) : q[k] = w
  BY <1>1, LineFacts
<1>3. tail[s][i] = IF Len(q) = 0 THEN None ELSE q[Len(q)]
  BY <1>1 DEF Line
<1>4. CASE Len(q) = 0
  BY <1>2, <1>3, <1>4
<1>5. CASE Len(q) # 0
  <2>1. Len(q) \in 1..Len(q)
    BY <1>2, <1>5
  <2>2. tail[s][i] # None
    BY <1>2, <1>3, <1>5, <2>1, RunStoreAssumption DEF RunStoreAssumption
  <2>3. QED BY <1>2, <1>3, <1>5, <2>1, <2>2
<1>6. QED BY <1>4, <1>5

LEMMA SaidPersist ==
  ASSUME StoreTypeOK, InLine, RunStoreAssumption, session \in SessionNumbers,
         NEW w \in Writes, NEW snap \in Snapshots, Persist(w, session, snap),
         UNCHANGED <<session, disk>>
  PROVE  /\ LastSaid(snap.id)' = snap
         /\ \A i \in Ids : i # snap.id => LastSaid(i)' = LastSaid(i)
         /\ \A v \in InFlight : write[v].by = session => write'[v].by = session
         /\ write'[w].by = session
<1>1. /\ w \notin InFlight /\ snap.id \in Ids /\ w # None
      /\ write'[w] = [at |-> "queued", snap |-> snap, by |-> session, prev |-> tail[session][snap.id]]
      /\ \A v \in Writes : v # w => write'[v] = write[v]
      /\ tail'[session][snap.id] = w
      /\ \A z \in SessionNumbers, i \in Ids :
           z # session \/ i # snap.id => tail'[z][i] = tail[z][i]
  BY PersistFacts, SnapshotFacts, RunStoreAssumption DEF RunStoreAssumption
<1>2. LastSaid(snap.id)' = snap
  BY <1>1 DEF LastSaid
<1>3. ASSUME NEW i \in Ids, i # snap.id PROVE LastSaid(i)' = LastSaid(i)
  <2>1. tail'[session][i] = tail[session][i]
    BY <1>1, <1>3
  <2>2. tail[session][i] # None => tail[session][i] \in Writes /\ tail[session][i] # w
    BY <1>1, TailFacts DEF InFlight
  <2>3. QED BY <1>1, <2>1, <2>2 DEF LastSaid
<1>4. QED BY <1>1, <1>2, <1>3 DEF InFlight

\* A write that ends says what its run said, unless others come after it.
LEMMA SaidWritten ==
  ASSUME StoreTypeOK, InLine, RunStoreAssumption, NEW w \in InFlight,
         WriteEnds(w), write[w].by = session, session \in SessionNumbers
  PROVE  \A i \in Ids : LastSaid(i)' = LastSaid(i)
<1>1. /\ \A v \in InFlight : v # w => write'[v].snap = write[v].snap
      /\ \A z \in SessionNumbers, i \in Ids :
           tail'[z][i] = IF z = write[w].by /\ i = write[w].snap.id /\ tail[z][i] = w
                         THEN None ELSE tail[z][i]
  BY ReturnedFacts DEF WriteEnds
<1>2. /\ write[w].snap.id \in Ids /\ session' = session
      /\ disk'[write[w].snap.id] = write[w].snap
      /\ \A i \in Ids : i # write[w].snap.id => disk'[i] = disk[i]
  BY SlotFacts DEF WriteEnds, StoreTypeOK
<1>3. ASSUME NEW i \in Ids PROVE LastSaid(i)' = LastSaid(i)
  <2> DEFINE t == tail[session][i]
  <2>1. /\ t # None => t \in InFlight /\ write[t].snap.id = i
        /\ t = None => i # write[w].snap.id
    BY TailFacts
  <2>2. w # None
    BY SlotFacts, RunStoreAssumption DEF RunStoreAssumption
  <2>3. tail'[session][i] = IF t = w THEN None ELSE t
    <3>1. t = w => i = write[w].snap.id
      BY <2>1, <2>2
    <3>2. QED BY <1>1, <3>1
  <2> HIDE DEF t
  <2>4. LastSaid(i) = IF t = None THEN disk[i] ELSE write[t].snap
    BY DEF LastSaid, t
  <2>5. LastSaid(i)' = IF tail'[session][i] = None THEN disk'[i] ELSE write'[tail'[session][i]].snap
    BY <1>2 DEF LastSaid
  <2>6. CASE t = None
    BY <1>2, <2>1, <2>2, <2>3, <2>4, <2>5, <2>6
  <2>7. CASE t = w
    BY <1>2, <2>1, <2>2, <2>3, <2>4, <2>5, <2>7
  <2>8. CASE t # None /\ t # w
    <3>1. write'[t].snap = write[t].snap
      BY <1>1, <2>1, <2>8
    <3>2. QED BY <2>3, <2>4, <2>5, <2>8, <3>1
  <2>9. QED BY <2>6, <2>7, <2>8
<1>4. QED BY <1>3

\* A run that a step leaves as it was, and of which the files will say the
\* same, is still kept.
LEMMA RunStaysKept ==
  ASSUME StoreTypeOK, index' \in Nat, NEW r \in Runs, RunKept(r),
         UNCHANGED <<session, phase, archived, found>>, index <= index',
         id'[r] = id[r], sessionOf'[r] = sessionOf[r], status'[r] = status[r],
         turn'[r] = "prompting" <=> turn[r] = "prompting",
         r \in cancelling => r \in cancelling' \/ LastSaid(id[r])' = Snapshot(r),
         LastSaid(id[r])' = LastSaid(id[r])
  PROVE  RunKept(r)'
<1>1. index \in Nat /\ id[r] \in Nat
  BY DEF StoreTypeOK
<1>2. id[r] <= index => id'[r] <= index'
  BY <1>1
<1>3. Snapshot(r)' = Snapshot(r)
  BY DEF Snapshot
<1>4. Archived(r) => Archived(r)'
  BY <1>2 DEF Archived
<1>5. Tells(LastSaid(id[r]), r)'
  <2>1. Tells(LastSaid(id[r]), r)
    BY DEF RunKept
  <2>2. QED BY <2>1 DEF Tells
<1>6. \A snap \in found.read : Tells(snap, r) => Tells(snap, r)'
  BY DEF Tells
<1>7. phase = "restoring" =>
        \/ id[r] \in found.unread
        \/ \E snap \in found.read : Tells(snap, r)
        \/ Archived(r) /\ \A snap \in found.read : snap.id # id[r]
  BY DEF RunKept
<1>8. phase' = "restoring" =>
        \/ id'[r] \in found'.unread
        \/ \E snap \in found'.read : Tells(snap, r)'
        \/ Archived(r)' /\ \A snap \in found'.read : snap.id # id'[r]
  BY <1>4, <1>6, <1>7
<1>9. /\ session \in SessionNumbers
      /\ sessionOf[r] = session => phase # "restoring"
      /\ phase = "up" /\ sessionOf[r] # session => Archived(r)
      /\ phase = "up" => id[r] <= index
      /\ phase = "up" /\ sessionOf[r] = session /\ turn[r] # "prompting" /\ r \notin cancelling =>
           LastSaid(id[r]) = Snapshot(r)
  BY DEF RunKept
<1>10. phase' = "up" /\ sessionOf'[r] = session' /\ turn'[r] # "prompting" /\ r \notin cancelling' =>
            LastSaid(id[r])' = Snapshot(r)'
  BY <1>3, <1>9
<1>11. /\ session' \in SessionNumbers
       /\ sessionOf'[r] = session' => phase' # "restoring"
       /\ phase' = "up" /\ sessionOf'[r] # session' => Archived(r)'
       /\ phase' = "up" => id'[r] <= index'
  BY <1>2, <1>4, <1>9
<1>12. QED BY <1>5, <1>8, <1>10, <1>11 DEF RunKept

\* Writes go on while every run stays kept.
LEMMA StoreStepKeeps ==
  ASSUME StoreInv, RunStoreAssumption, Kept, ~spoilt', NEW w \in Writes, StoreStep(w)
  PROVE  Kept'
<1>1. StoreTypeOK /\ RunsFit /\ InLine /\ w \in InFlight /\ ~WriteFails(w)
  BY DEF StoreInv, StoreStep, WriteOpens, WriteEnds, WriteFails, InFlight, Spoils
<1>2. /\ UNCHANGED <<session, phase, index, archived, found, id, sessionOf, status, cancelling>>
      /\ write[w].by = session /\ session \in SessionNumbers /\ index' \in Nat /\ index <= index'
      /\ index \in Nat
  BY <1>1, SlotFacts
  DEF StoreStep, WriteOpens, WriteEnds, sessionVars, runVars, Kept, Quiet, StoreTypeOK
<1>3. /\ \A i \in Ids : LastSaid(i)' = LastSaid(i)
      /\ \A r \in Runs : turn'[r] = turn[r] \/ (turn[r] = w /\ turn'[r] = None)
      /\ \/ InFlight' = InFlight /\ flip' = flip
         \/ InFlight' = InFlight \ {w} /\ flip' = IF flip = w THEN None ELSE flip
      /\ \A v \in InFlight' : v \in InFlight /\ write'[v].by = write[v].by
  <2>1. CASE WriteEnds(w)
    <3>1. \A i \in Ids : LastSaid(i)' = LastSaid(i)
      BY <1>1, <1>2, <2>1, SaidWritten
    <3>2. QED BY <1>1, <2>1, <3>1, ReturnedFacts DEF WriteEnds
  <2>2. CASE WriteOpens(w)
    <3>1. write[w] \in WriteCalls
      BY <1>1, SlotFacts
    <3>2. /\ \A v \in Writes : v # w => write'[v] = write[v]
          /\ write'[w].snap = write[w].snap /\ write'[w].by = write[w].by
          /\ write'[w].at = "open"
          /\ \A i \in Ids : i # write[w].snap.id => disk'[i] = disk[i]
          /\ UNCHANGED <<tail, turn, flip>>
      BY <1>1, <2>2, <3>1 DEF WriteOpens, StoreTypeOK, WriteCalls, sessionVars, runVars
    <3>3. InFlight' = InFlight
      BY <1>1, <3>2 DEF InFlight, Free
    <3>4. ASSUME NEW i \in Ids PROVE LastSaid(i)' = LastSaid(i)
      <4>1. /\ tail[session][i] # None => tail[session][i] \in Writes
            /\ tail[session][i] = None => i # write[w].snap.id
        BY <1>1, <1>2, TailFacts DEF InFlight
      <4>2. CASE tail[session][i] = None
        BY <1>2, <3>2, <4>1, <4>2 DEF LastSaid
      <4>3. CASE tail[session][i] # None
        <5>1. write'[tail[session][i]].snap = write[tail[session][i]].snap
          BY <3>2, <4>1, <4>3
        <5>2. QED BY <1>2, <3>2, <4>3, <5>1 DEF LastSaid
      <4>4. QED BY <4>2, <4>3
    <3>5. \A v \in InFlight' : v \in InFlight /\ write'[v].by = write[v].by
      BY <3>2, <3>3 DEF InFlight
    <3>6. QED BY <3>2, <3>3, <3>4, <3>5
  <2>3. QED BY <1>1, <2>1, <2>2 DEF StoreStep
<1>4. "prompting" # w /\ "prompting" # None
  BY RunStoreAssumption DEF RunStoreAssumption
<1>5. Unshared'
  BY <1>2 DEF Kept, Unshared
<1>6. Quiet'
  <2>1. phase' # "up" => \A r \in Runs : turn'[r] = None /\ r \notin cancelling'
    BY <1>2, <1>3 DEF Kept, Quiet
  <2>2. phase' # "down"
    BY <1>1, <1>2 DEF Kept, Quiet
  <2>3. phase' = "restoring" =>
          /\ InFlight' = IF flip' = None THEN {} ELSE {flip'}
          /\ flip' # None => found'.unread = {}
    BY <1>1, <1>2, <1>3 DEF Kept, Quiet
  <2>4. phase' = "restoring" =>
          /\ \A x, y \in found'.read : x.id = y.id => x = y
          /\ \A x \in found'.read : x.id \notin found'.unread
    BY <1>2 DEF Kept, Quiet
  <2>5. \A v \in InFlight' : write'[v].by = session'
    BY <1>2, <1>3 DEF Kept, Quiet
  <2>6. \A r \in Runs : turn'[r] # None \/ r \in cancelling' => sessionOf'[r] = session'
    BY <1>2, <1>3 DEF Kept, Quiet
  <2>7. QED BY <2>1, <2>2, <2>3, <2>4, <2>5, <2>6 DEF Quiet
<1>7. ASSUME NEW r \in Started' PROVE RunKept(r)'
  <2>1. r \in Runs /\ r \in Started /\ RunKept(r) /\ id[r] \in Ids
    BY <1>1, <1>2, <1>7, SnapshotOf DEF Started, Kept
  <2>2. LastSaid(id[r])' = LastSaid(id[r])
    BY <1>2, <1>3, <2>1 DEF LastSaid
  <2>3. turn'[r] = "prompting" <=> turn[r] = "prompting"
    BY <1>3, <1>4, <2>1
  <2>4. QED BY <1>1, <1>2, <2>1, <2>2, <2>3, RunStaysKept
<1>8. QED BY <1>5, <1>6, <1>7 DEF Kept

\* Nothing in flight: the files say it already.
LEMMA SaidOnDisk ==
  ASSUME StoreTypeOK, InLine, RunStoreAssumption, NEW s \in SessionNumbers, InFlight = {}
  PROVE  \A i \in Ids : tail[s][i] = None
BY TailFacts

\* A session ends or begins.
LEMMA SessionStepKeeps ==
  ASSUME StoreInv, RunStoreAssumption, Kept, ~spoilt', Boot \/ Crash \/ Reload
  PROVE  Kept'
<1>1. StoreTypeOK /\ RunsFit /\ InLine
  BY DEF StoreInv
<1>2. \A r \in Started : r \in Runs /\ id[r] \in Ids /\ session \in SessionNumbers
                           /\ RunKept(r) /\ sessionOf[r] \in 0 .. session
  BY <1>1, SnapshotOf DEF Started, Kept, RunKept, StoreTypeOK
<1>3. InFlight = {}
  BY DEF Boot, Crash, Reload, Spoils, Kept, Quiet
<1>4. \A r \in Started : Tells(disk[id[r]], r)
  BY <1>1, <1>2, <1>3, SaidOnDisk DEF LastSaid, RunKept
<1>5. Started' = Started /\ UNCHANGED <<id, sessionOf, status, disk>>
  BY DEF Boot, Crash, Reload, Started, runVars, storeVars
<1>6. \A r \in Started : Tells(disk[id[r]], r)'
  BY <1>4, <1>5 DEF Tells
<1>7. Unshared'
  BY <1>5 DEF Kept, Unshared
<1>8. \A r \in Runs : turn'[r] = None /\ r \notin cancelling'
  BY DEF Boot, Crash, Reload, Spoils, Kept, Quiet, runVars
<1>9. InFlight' = {} /\ (Started # {} => \A i \in Ids : tail'[session'][i] = None)
  <2>1. CASE Crash
    BY <1>2, <2>1 DEF Crash, InFlight
  <2>2. CASE Boot \/ Reload
    <3>1. UNCHANGED <<write, tail>>
      BY <2>2 DEF Boot, Reload, storeVars
    <3>2. Started # {} => session' \in SessionNumbers
      BY <1>1, <1>2, <2>2, RunStoreAssumption
      DEF Boot, Reload, StoreTypeOK, SessionNumbers, RunStoreAssumption
    <3>3. QED BY <1>1, <1>3, <3>1, <3>2, SaidOnDisk DEF InFlight
  <2>3. QED BY <2>1, <2>2
<1>10. \A r \in Started : Tells(LastSaid(id[r]), r)'
  <2>1. ASSUME NEW r \in Started PROVE LastSaid(id[r])' = disk[id[r]]
    BY <1>2, <1>5, <1>9 DEF LastSaid
  <2>2. QED BY <1>4, <1>5, <2>1 DEF Tells
<1>11. CASE Boot
  <2>1. /\ phase' = "restoring" /\ session' = session + 1 /\ flip' = None
        /\ found'.unread = {i \in Ids : disk[i] # Absent} /\ found'.read = {}
    BY <1>11 DEF Boot
  <2>2. Started # {} => session' \in SessionNumbers
    BY <1>1, <1>2, <1>11, RunStoreAssumption
    DEF Boot, StoreTypeOK, SessionNumbers, RunStoreAssumption
  <2>3. Quiet'
    BY <1>8, <1>9, <2>1 DEF Quiet
  <2>4. ASSUME NEW r \in Started PROVE RunKept(r)'
    <3>1. id[r] \in found'.unread
      BY <1>2, <1>4, <2>1, SnapshotFacts DEF Tells
    <3>2. sessionOf[r] # session'
      BY <1>2, <2>1 DEF SessionNumbers
    <3>3. QED BY <1>5, <1>10, <2>1, <2>2, <3>1, <3>2 DEF RunKept
  <2>5. QED BY <1>5, <1>7, <2>3, <2>4 DEF Kept
<1>12. CASE Crash \/ Reload
  <2>1. phase' = "down" /\ session' = session
    BY <1>12 DEF Crash, Reload
  <2>2. Quiet'
    BY <1>8, <1>9, <2>1 DEF Quiet
  <2>3. ASSUME NEW r \in Started PROVE RunKept(r)'
    BY <1>2, <1>10, <2>1 DEF RunKept
  <2>4. QED BY <1>5, <1>7, <2>2, <2>3 DEF Kept
<1>13. QED BY <1>11, <1>12

\* A restart reads what the files say.
LEMMA ReadKeeps ==
  ASSUME StoreInv, RunStoreAssumption, Kept, NEW i \in Ids, ReadSnapshot(i)
  PROVE  Kept'
<1>1. StoreTypeOK /\ RunsFit /\ InLine
  BY DEF StoreInv
<1>2. /\ phase = "restoring" /\ i \in found.unread /\ phase' = phase /\ session' = session
      /\ found'.unread = found.unread \ {i}
      /\ found'.read = found.read \cup (IF disk[i] = Torn THEN {} ELSE {disk[i]})
      /\ UNCHANGED <<session, phase, index, archived, flip, runVars, storeVars, spoilt>>
  BY DEF ReadSnapshot
<1>3. UNCHANGED <<id, sessionOf, status, turn, cancelling, write, tail, disk, InFlight, Started>>
  BY <1>2 DEF runVars, storeVars, InFlight, Started
<1>4. InFlight = {} /\ flip = None /\ session \in SessionNumbers
  BY <1>1, <1>2 DEF Kept, Quiet, StoreTypeOK
<1>5. disk[i] # Torn => disk[i] \in Snapshots /\ disk[i].id = i
  BY <1>1, <1>2 DEF RunsFit, StoreTypeOK
<1>6. Unshared'
  BY <1>3 DEF Kept, Unshared
<1>7. Quiet'
  <2>1. \A x \in found.read : x.id # i
    BY <1>2 DEF Kept, Quiet
  <2>2. \A x, y \in found'.read : x.id = y.id => x = y
    BY <1>2, <1>5, <2>1 DEF Kept, Quiet
  <2>3. \A x \in found'.read : x.id \notin found'.unread
    BY <1>2, <1>5 DEF Kept, Quiet
  <2>4. QED BY <1>2, <1>3, <1>4, <2>2, <2>3 DEF Kept, Quiet
<1>8. ASSUME NEW r \in Started PROVE RunKept(r)'
  <2>1. r \in Runs /\ id[r] \in Ids /\ RunKept(r)
    BY <1>1, SnapshotOf DEF Started, Kept
  <2>2. Tells(disk[id[r]], r)
    BY <1>1, <1>4, <2>1, SaidOnDisk DEF LastSaid, RunKept
  <2>3. Tells(LastSaid(id[r]), r)'
    <3>1. LastSaid(id[r])' = LastSaid(id[r])
      BY <1>2, <1>3 DEF LastSaid
    <3>2. QED BY <1>3, <2>1, <3>1 DEF RunKept, Tells
  <2>4. \/ id[r] \in found'.unread
        \/ \E snap \in found'.read : Tells(snap, r)'
        \/ Archived(r)' /\ \A snap \in found'.read : snap.id # id[r]
    <3>1. CASE id[r] = i
      <4>1. disk[i] # Torn
        BY <2>2, <3>1, SnapshotFacts DEF Tells
      <4>2. PICK snap \in found'.read : snap = disk[i]
        BY <1>2, <4>1
      <4>3. Tells(snap, r)
        BY <2>2, <3>1, <4>2
      <4>4. Tells(snap, r)'
        BY <1>3, <4>3 DEF Tells
      <4>5. QED BY <4>4
    <3>2. CASE id[r] # i
      <4>1. \/ id[r] \in found.unread
            \/ \E snap \in found.read : Tells(snap, r)
            \/ Archived(r) /\ \A snap \in found.read : snap.id # id[r]
        BY <1>2, <2>1 DEF RunKept
      <4>2. \A snap : Tells(snap, r) => Tells(snap, r)'
        BY <1>3 DEF Tells
      <4>3. Archived(r) => Archived(r)'
        BY <1>2, <1>3 DEF Archived
      <4>4. QED BY <1>2, <1>5, <3>2, <4>1, <4>2, <4>3
    <3>3. QED BY <3>1, <3>2
  <2>5. sessionOf[r] # session
    BY <1>2, <2>1 DEF RunKept
  <2>6. QED BY <1>2, <1>3, <1>4, <2>3, <2>4, <2>5 DEF RunKept
<1>9. QED BY <1>3, <1>6, <1>7, <1>8 DEF Kept

\* A snapshot that has been read is archived, and its number set aside.
LEMMA RestoreKeeps ==
  ASSUME StoreInv, RunStoreAssumption, Kept, NEW snap \in found.read, Restore(snap)
  PROVE  Kept'
<1>1. StoreTypeOK /\ RunsFit /\ InLine
  BY DEF StoreInv
<1>2. /\ phase = "restoring" /\ phase' = phase /\ found.unread = {} /\ flip = None
      /\ found'.unread = {} /\ found'.read = found.read \ {snap}
      /\ index' = (IF snap.id > index THEN snap.id ELSE index)
      /\ UNCHANGED <<session, id, sessionOf, status, turn, cancelling, disk, Started>>
  BY <1>1 DEF Restore, runVars, StoreTypeOK, Started
<1>3. InFlight = {} /\ session \in SessionNumbers /\ snap \in Snapshots
  BY <1>1, <1>2 DEF Kept, Quiet, StoreTypeOK
<1>4. snap.id \in Ids /\ snap.run \in Runs /\ snap.status \in Statuses
  BY <1>3, SnapshotFacts
<1> DEFINE last == [run |-> snap.run, id |-> snap.id, status |-> Stopped(snap.status)]
<1>5. /\ archived' = [archived EXCEPT ![snap.id] = last]
      /\ \A i \in Ids : i # snap.id => LastSaid(i)' = disk[i]
      /\ LastSaid(snap.id)' \in {last, disk[snap.id]}
      /\ InFlight' = (IF flip' = None THEN {} ELSE {flip'})
      /\ \A w \in InFlight' : write'[w].by = session'
  <2>1. CASE snap.status # "running"
    <3>1. snap = [run |-> snap.run, id |-> snap.id, status |-> snap.status]
      BY <1>3 DEF Snapshots
    <3>2. snap = last
      BY <2>1, <3>1 DEF Stopped
    <3>3. archived' = [archived EXCEPT ![snap.id] = last] /\ UNCHANGED <<flip, write, tail>>
      BY <2>1, <3>2 DEF Restore
    <3>4. \A i \in Ids : LastSaid(i)' = disk[i]
      BY <1>1, <1>2, <1>3, <3>3, SaidOnDisk DEF LastSaid
    <3>5. InFlight' = {}
      BY <1>3, <3>3 DEF InFlight
    <3>6. QED BY <1>2, <1>4, <3>3, <3>4, <3>5
  <2>2. CASE snap.status = "running"
    <3>1. /\ [snap EXCEPT !.status = "interrupted"] = last /\ last \in Snapshots /\ last.id = snap.id
      BY <1>3, <2>2, SnapshotFacts DEF Statuses, Settled, Stopped
    <3>2. PICK w \in Writes : Persist(w, session, [snap EXCEPT !.status = "interrupted"]) /\ flip' = w
      BY <2>2 DEF Restore
    <3>3. archived' = [archived EXCEPT ![snap.id] = last] /\ Persist(w, session, last)
      BY <2>2, <3>1, <3>2 DEF Restore
    <3> HIDE DEF last
    <3>4. /\ LastSaid(last.id)' = last
          /\ \A i \in Ids : i # last.id => LastSaid(i)' = LastSaid(i)
          /\ write'[w].by = session
      BY <1>1, <1>2, <1>3, <3>1, <3>3, SaidPersist
    <3>5. \A i \in Ids : LastSaid(i) = disk[i]
      BY <1>1, <1>3, SaidOnDisk DEF LastSaid
    <3>6. InFlight' = {w} /\ w # None
      BY <1>1, <1>3, <3>1, <3>3, PersistFacts, RunStoreAssumption DEF RunStoreAssumption
    <3>7. QED BY <1>2, <3>1, <3>2, <3>3, <3>4, <3>5, <3>6
  <2>3. QED BY <2>1, <2>2
<1>6. index \in Nat /\ index' \in Nat /\ index <= index' /\ snap.id <= index'
  BY <1>1, <1>2, <1>4 DEF StoreTypeOK, Ids
<1>7. Unshared'
  BY <1>2 DEF Kept, Unshared
<1>8. Quiet'
  BY <1>2, <1>5 DEF Kept, Quiet
<1>9. ASSUME NEW r \in Started PROVE RunKept(r)'
  <2>1. r \in Runs /\ id[r] \in Ids /\ RunKept(r) /\ id[r] \in Nat
    BY <1>1, SnapshotOf DEF Started, Kept, Ids
  <2>2. Tells(disk[id[r]], r)
    BY <1>1, <1>3, <2>1, SaidOnDisk DEF LastSaid, RunKept
  <2>3. \A x : Tells(x, r) => Tells(x, r)'
    BY <1>2 DEF Tells
  <2>4. \/ \E x \in found.read : Tells(x, r)
        \/ Archived(r) /\ \A x \in found.read : x.id # id[r]
    BY <1>2, <2>1 DEF RunKept
  <2>5. \A x \in found.read : x.id = snap.id => x = snap
    BY <1>2 DEF Kept, Quiet
  <2>6. sessionOf[r] # session
    BY <1>2, <2>1 DEF RunKept
  <2>7. CASE snap.id = id[r]
    <3>1. Tells(snap, r)
      BY <2>4, <2>5, <2>7 DEF Tells
    <3>2. snap.run = r /\ Stopped(snap.status) = Stopped(status[r])
      BY <3>1 DEF Tells
    <3>3. last = [run |-> r, id |-> id[r], status |-> Stopped(status[r])]
      BY <2>7, <3>2
    <3>4. archived'[id[r]] = last
      BY <1>1, <1>5, <2>1, <2>7 DEF StoreTypeOK
    <3>5. Archived(r)'
      BY <1>2, <1>6, <2>7, <3>3, <3>4 DEF Archived
    <3>6. \A x \in found'.read : x.id # id[r]
      BY <1>2, <2>5, <2>7
    <3>7. Tells(last, r)
      <4>1. last \in Snapshots
        BY <1>4, SnapshotFacts DEF Stopped, Statuses, Settled
      <4>2. Stopped(last.status) = last.status /\ last.status = Stopped(status[r])
        BY <3>2, <3>3 DEF Stopped
      <4>3. QED BY <3>3, <4>1, <4>2 DEF Tells
    <3> HIDE DEF last
    <3>8. PICK said \in {last, disk[id[r]]} : LastSaid(id[r])' = said
      BY <1>2, <1>5, <2>7
    <3>9. Tells(said, r)
      BY <2>2, <3>7
    <3>10. Tells(LastSaid(id[r]), r)'
      BY <1>2, <3>8, <3>9 DEF Tells
    <3>11. QED BY <1>2, <1>3, <2>6, <3>5, <3>6, <3>10 DEF RunKept
  <2>8. CASE snap.id # id[r]
    <3>1. LastSaid(id[r])' = disk[id[r]]
      BY <1>2, <1>5, <2>1, <2>8
    <3>2. Tells(LastSaid(id[r]), r)'
      BY <1>2, <2>2, <3>1 DEF Tells
    <3>3. archived'[id[r]] = archived[id[r]]
      BY <1>1, <1>5, <2>1, <2>8 DEF StoreTypeOK
    <3>4. Archived(r) => Archived(r)'
      BY <1>2, <1>6, <2>1, <3>3 DEF Archived
    <3>5. \A x \in found.read : Tells(x, r) => x \in found'.read
      BY <1>2, <2>8 DEF Tells
    <3>6. \/ \E x \in found'.read : Tells(x, r)'
          \/ Archived(r)' /\ \A x \in found'.read : x.id # id[r]
      BY <1>2, <2>3, <2>4, <3>4, <3>5
    <3>7. QED BY <1>2, <1>3, <2>6, <3>2, <3>6 DEF RunKept
  <2>9. QED BY <2>7, <2>8
<1>10. QED BY <1>2, <1>7, <1>8, <1>9 DEF Kept

\* Once all is archived the session is up.
LEMMA RestoredKeeps ==
  ASSUME StoreInv, RunStoreAssumption, Kept, Restored PROVE Kept'
<1>1. StoreTypeOK
  BY DEF StoreInv
<1>2. /\ phase = "restoring" /\ phase' = "up" /\ flip = None
      /\ found.unread = {} /\ found.read = {}
      /\ UNCHANGED <<session, index, archived, found, flip, runVars, storeVars, spoilt>>
  BY DEF Restored, NothingFound
<1>3. /\ InFlight = {}
      /\ UNCHANGED <<id, sessionOf, status, turn, cancelling, write, tail, disk, InFlight, Started>>
  BY <1>2 DEF runVars, storeVars, InFlight, Started, Kept, Quiet
<1>4. Unshared'
  BY <1>3 DEF Kept, Unshared
<1>5. Quiet'
  BY <1>2, <1>3 DEF Kept, Quiet
<1>6. ASSUME NEW r \in Started PROVE RunKept(r)'
  <2>1. RunKept(r) /\ sessionOf[r] # session /\ Archived(r) /\ session \in SessionNumbers
    BY <1>2 DEF Kept, RunKept
  <2>2. Archived(r)' /\ id[r] <= index
    BY <1>2, <1>3, <2>1 DEF Archived
  <2>3. LastSaid(id[r])' = LastSaid(id[r])
    BY <1>2, <1>3 DEF LastSaid
  <2>4. Tells(LastSaid(id[r]), r)'
    BY <1>3, <2>1, <2>3 DEF RunKept, Tells
  <2>5. QED BY <1>2, <1>3, <2>1, <2>2, <2>4 DEF RunKept
<1>7. QED BY <1>3, <1>4, <1>5, <1>6 DEF Kept

\* What one run of a session that is up has to show for a step of its own.
LEMMA OwnStepKeeps ==
  ASSUME StoreTypeOK, StoreTypeOK', Kept, NEW r \in Runs, phase = "up",
         UNCHANGED <<session, phase, archived, found>>, index <= index',
         \A q \in Runs \ {r} :
           /\ id'[q] = id[q] /\ sessionOf'[q] = sessionOf[q] /\ status'[q] = status[q]
           /\ turn'[q] = turn[q] /\ (q \in cancelling <=> q \in cancelling'),
         \A q \in Started \ {r} : LastSaid(id[q])' = LastSaid(id[q]),
         \A w \in InFlight' : write'[w].by = session,
         Unshared', id'[r] # 0, sessionOf'[r] = session, id'[r] <= index',
         Tells(LastSaid(id[r]), r)',
         turn'[r] # "prompting" /\ r \notin cancelling' => LastSaid(id[r])' = Snapshot(r)'
  PROVE  Kept'
<1>1. session \in SessionNumbers /\ index' \in Nat
  BY DEF StoreTypeOK
<1>2. Quiet'
  <2>1. \A q \in Runs \ {r} : turn'[q] # None \/ q \in cancelling' => sessionOf'[q] = session'
    BY DEF Kept, Quiet
  <2>2. QED BY <2>1 DEF Quiet
<1>3. ASSUME NEW q \in Started', q # r PROVE RunKept(q)'
  <2>1. q \in Runs \ {r} /\ q \in Started /\ RunKept(q)
    BY <1>3 DEF Started, Kept
  <2>2. q \in Runs /\ LastSaid(id[q])' = LastSaid(id[q])
    BY <2>1
  <2>3. QED BY <1>1, <2>1, <2>2, RunStaysKept
<1>4. RunKept(r)'
  BY <1>1 DEF RunKept
<1>5. QED BY <1>2, <1>3, <1>4 DEF Kept

\* A run starts, goes on, settles, is stopped or closed.
LEMMA RunStepKeeps ==
  ASSUME StoreInv, StoreTypeOK', RunStoreAssumption, Kept, NEW r \in Runs, RunStep(r)
  PROVE  Kept'
<1>1. /\ StoreTypeOK /\ RunsFit /\ InLine /\ "prompting" # None /\ index \in Nat
      /\ \A w \in InFlight : write[w].by = session
  BY RunStoreAssumption DEF StoreInv, RunStoreAssumption, Kept, Quiet, StoreTypeOK
<1>2. ASSUME id[r] # 0, sessionOf[r] = session, phase = "up"
      PROVE  /\ r \in Started /\ RunKept(r) /\ id[r] \in Ids /\ session \in SessionNumbers
             /\ id[r] <= index /\ Tells(LastSaid(id[r]), r) /\ status[r] \in Statuses
             /\ Snapshot(r) \in Snapshots
             /\ \A q \in Started \ {r} : id[q] # id[r] /\ id[q] \in Ids
  <2>1. r \in Started /\ RunKept(r)
    BY <1>2 DEF Started, Kept
  <2>2. \A q \in Started : q \in Runs /\ id[q] # 0
    BY DEF Started
  <2>3. \A q \in Started \ {r} : id[q] # id[r] /\ id[q] \in Ids
    BY <1>1, <2>2, SnapshotOf DEF Kept, Unshared
  <2>4. QED BY <1>1, <1>2, <2>1, <2>3, SnapshotOf DEF RunKept
\* A snapshot of the run with a status of its own goes behind the others.
<1>3. ASSUME id[r] # 0, sessionOf[r] = session, phase = "up", NEW t \in Statuses,
             UNCHANGED <<session, disk, id>>, NEW w \in Writes,
             Persist(w, session, [Snapshot(r) EXCEPT !.status = t])
      PROVE  /\ LastSaid(id[r])' = [run |-> r, id |-> id[r], status |-> t]
             /\ [run |-> r, id |-> id[r], status |-> t] \in Snapshots
             /\ \A q \in Started \ {r} : LastSaid(id[q])' = LastSaid(id[q])
             /\ \A v \in InFlight' : write'[v].by = session
  <2>1. PICK snap \in Snapshots :
          /\ snap = [Snapshot(r) EXCEPT !.status = t]
          /\ snap = [run |-> r, id |-> id[r], status |-> t] /\ snap.id = id[r]
    BY <1>1, <1>3, SnapshotOf
  <2>2. Persist(w, session, snap) /\ session \in SessionNumbers
    BY <1>2, <1>3, <2>1
  <2>3. /\ LastSaid(snap.id)' = snap
        /\ \A i \in Ids : i # snap.id => LastSaid(i)' = LastSaid(i)
        /\ \A v \in InFlight : write[v].by = session => write'[v].by = session
        /\ write'[w].by = session /\ InFlight' = InFlight \cup {w}
    <3>1. InFlight' = InFlight \cup {w}
      BY <1>1, <1>3, <2>1, <2>2, PersistFacts
    <3>2. /\ LastSaid(snap.id)' = snap
          /\ \A i \in Ids : i # snap.id => LastSaid(i)' = LastSaid(i)
          /\ \A v \in InFlight : write[v].by = session => write'[v].by = session
          /\ write'[w].by = session
      BY <1>1, <1>3, <2>1, <2>2, SaidPersist
    <3>3. QED BY <3>1, <3>2
  <2>4. LastSaid(id[r])' = snap
    BY <1>3, <2>1, <2>3 DEF LastSaid
  <2>5. ASSUME NEW q \in Started \ {r} PROVE LastSaid(id[q])' = LastSaid(id[q])
    <3>1. id[q] \in Ids /\ id[q] # snap.id
      BY <1>2, <1>3, <2>1
    <3>2. QED BY <1>3, <2>3, <3>1 DEF LastSaid
  <2>6. QED BY <1>1, <2>1, <2>3, <2>4, <2>5
<1>4. CASE StartRun(r)
  <2>1. PICK w \in Writes :
          Persist(w, session, [run |-> r, id |-> index + 1, status |-> "running"])
    BY <1>4 DEF StartRun
  <2>2. /\ phase = "up" /\ id[r] = 0 /\ index + 1 \in Ids /\ session \in SessionNumbers
        /\ index <= index' /\ index' = index + 1 /\ index + 1 <= index' /\ ~(index + 1 <= index)
    BY <1>1, <1>4, RunStoreAssumption DEF StartRun, StoreTypeOK, Ids, RunStoreAssumption
  <2>3. /\ UNCHANGED <<session, phase, archived, found, disk, cancelling>>
        /\ id'[r] = index + 1 /\ sessionOf'[r] = session /\ status'[r] = "running"
        /\ turn'[r] = "prompting"
        /\ \A q \in Runs \ {r} :
             /\ id'[q] = id[q] /\ sessionOf'[q] = sessionOf[q] /\ status'[q] = status[q]
             /\ turn'[q] = turn[q] /\ (q \in cancelling <=> q \in cancelling')
    BY <1>1, <1>4 DEF StartRun, StoreTypeOK
  <2>4. PICK snap \in Snapshots :
          snap = [run |-> r, id |-> index + 1, status |-> "running"] /\ snap.id = index + 1
    <3>1. [run |-> r, id |-> index + 1, status |-> "running"] \in Snapshots
      BY <2>2, SnapshotFacts DEF Statuses
    <3>2. QED BY <3>1
  <2>5. Persist(w, session, snap)
    BY <2>1, <2>4
  <2>6. /\ LastSaid(snap.id)' = snap
        /\ \A i \in Ids : i # snap.id => LastSaid(i)' = LastSaid(i)
        /\ \A v \in InFlight : write[v].by = session => write'[v].by = session
        /\ write'[w].by = session /\ InFlight' = InFlight \cup {w}
    <3>1. InFlight' = InFlight \cup {w}
      BY <1>1, <2>2, <2>3, <2>4, <2>5, PersistFacts
    <3>2. /\ LastSaid(snap.id)' = snap
          /\ \A i \in Ids : i # snap.id => LastSaid(i)' = LastSaid(i)
          /\ \A v \in InFlight : write[v].by = session => write'[v].by = session
          /\ write'[w].by = session
      BY <1>1, <2>2, <2>3, <2>4, <2>5, SaidPersist
    <3>3. QED BY <3>1, <3>2
  <2>7. ASSUME NEW q \in Started
        PROVE  q # r /\ id[q] <= index /\ id[q] \in Ids /\ id[q] # index + 1
    <3>1. q \in Runs /\ q # r /\ RunKept(q) /\ id[q] \in Ids
      BY <1>1, <2>2, SnapshotOf DEF Started, Kept
    <3>2. QED BY <2>2, <3>1 DEF RunKept
  <2>8. Unshared'
    <3>1. ASSUME NEW q \in Runs, NEW p \in Runs, id'[q] # 0, id'[q] = id'[p] PROVE q = p
      <4>1. CASE q = r
        BY <2>2, <2>3, <2>7, <3>1, <4>1 DEF Started
      <4>2. CASE q # r
        BY <2>2, <2>3, <2>7, <3>1, <4>2 DEF Started, Kept, Unshared
      <4>3. QED BY <4>1, <4>2
    <3>2. QED BY <3>1 DEF Unshared
  <2>9. \A q \in Started \ {r} : LastSaid(id[q])' = LastSaid(id[q])
    <3>1. ASSUME NEW q \in Started, q # r PROVE LastSaid(id[q])' = LastSaid(id[q])
      <4>1. id'[q] = id[q]
        BY <2>3, <3>1 DEF Started
      <4>2. QED BY <2>3, <2>4, <2>6, <2>7, <4>1 DEF LastSaid
    <3>2. QED BY <3>1
  <2>10. Tells(LastSaid(id[r]), r)'
    <3>1. LastSaid(id[r])' = snap
      BY <2>3, <2>4, <2>6 DEF LastSaid
    <3>2. QED BY <2>3, <2>4, <3>1 DEF Tells
  <2>11. \A v \in InFlight' : write'[v].by = session
    BY <1>1, <2>6
  <2>12. QED
    BY <1>1, <2>2, <2>3, <2>8, <2>9, <2>10, <2>11, OwnStepKeeps
<1>5. CASE FollowUp(r)
  <2>1. id[r] # 0 /\ sessionOf[r] = session /\ phase = "up"
    BY <1>1, <1>5 DEF FollowUp, Current, RunsFit
  <2>2. PICK w \in Writes : Persist(w, session, [Snapshot(r) EXCEPT !.status = "running"])
    BY <1>5 DEF FollowUp
  <2>3. /\ UNCHANGED <<session, phase, index, archived, found, disk, cancelling, id, sessionOf>>
        /\ status'[r] = "running" /\ turn'[r] = "prompting"
        /\ \A q \in Runs \ {r} : status'[q] = status[q] /\ turn'[q] = turn[q]
    BY <1>1, <1>5 DEF FollowUp, StoreTypeOK, sessionVars
  <2>4. /\ LastSaid(id[r])' = [run |-> r, id |-> id[r], status |-> "running"]
        /\ [run |-> r, id |-> id[r], status |-> "running"] \in Snapshots
        /\ \A q \in Started \ {r} : LastSaid(id[q])' = LastSaid(id[q])
        /\ \A v \in InFlight' : write'[v].by = session
    BY <1>3, <2>1, <2>2, <2>3 DEF Statuses
  <2>5. Tells(LastSaid(id[r]), r)'
    BY <2>3, <2>4 DEF Tells
  <2>6. Unshared' /\ index <= index' /\ id'[r] <= index'
    BY <1>1, <1>2, <2>1, <2>3 DEF Kept, Unshared
  <2>7. QED BY <1>1, <2>1, <2>3, <2>4, <2>5, <2>6, OwnStepKeeps
<1>6. CASE Settle(r)
  <2>1. id[r] # 0 /\ sessionOf[r] = session /\ phase = "up"
    BY <1>1, <1>6 DEF Settle, RunsFit, Kept, Quiet, StoreTypeOK
  <2>2. PICK outcome \in IF status[r] = "running" THEN Outcomes ELSE {status[r]}, w \in Writes :
          /\ status' = [status EXCEPT ![r] = outcome]
          /\ Persist(w, sessionOf[r], [Snapshot(r) EXCEPT !.status = outcome])
          /\ turn' = [turn EXCEPT ![r] = w]
    BY <1>6 DEF Settle
  <2>3. outcome \in Statuses
    BY <1>2, <2>1, <2>2 DEF Statuses, Settled, Outcomes
  <2>4. /\ UNCHANGED <<session, phase, index, archived, found, disk, cancelling, id, sessionOf>>
        /\ status'[r] = outcome
        /\ \A q \in Runs \ {r} : status'[q] = status[q] /\ turn'[q] = turn[q]
    BY <1>1, <1>6, <2>2 DEF Settle, StoreTypeOK, sessionVars
  <2>5. /\ LastSaid(id[r])' = [run |-> r, id |-> id[r], status |-> outcome]
        /\ [run |-> r, id |-> id[r], status |-> outcome] \in Snapshots
        /\ \A q \in Started \ {r} : LastSaid(id[q])' = LastSaid(id[q])
        /\ \A v \in InFlight' : write'[v].by = session
    BY <1>3, <2>1, <2>2, <2>3, <2>4
  <2>6. Tells(LastSaid(id[r]), r)' /\ LastSaid(id[r])' = Snapshot(r)'
    BY <2>4, <2>5 DEF Tells, Snapshot
  <2>7. Unshared' /\ index <= index' /\ id'[r] <= index'
    BY <1>1, <1>2, <2>1, <2>4 DEF Kept, Unshared
  <2>8. QED BY <1>1, <2>1, <2>4, <2>5, <2>6, <2>7, OwnStepKeeps
<1>7. CASE InterruptReturns(r)
  <2>1. id[r] # 0 /\ sessionOf[r] = session /\ phase = "up"
    BY <1>1, <1>7 DEF InterruptReturns, RunsFit, Kept, Quiet, StoreTypeOK
  <2>2. PICK w \in Writes : Persist(w, sessionOf[r], Snapshot(r))
    BY <1>7, <2>1 DEF InterruptReturns
  <2>3. status[r] \in Statuses /\ Snapshot(r) = [Snapshot(r) EXCEPT !.status = status[r]]
    BY <1>1, <2>1, SnapshotOf
  <2>4. /\ UNCHANGED <<session, phase, index, archived, found, disk, id, sessionOf, status, turn>>
        /\ \A q \in Runs \ {r} : q \in cancelling <=> q \in cancelling'
    BY <1>7 DEF InterruptReturns, sessionVars
  <2>5. Persist(w, session, [Snapshot(r) EXCEPT !.status = status[r]])
    BY <2>1, <2>2, <2>3
  <2>6. /\ LastSaid(id[r])' = [run |-> r, id |-> id[r], status |-> status[r]]
        /\ [run |-> r, id |-> id[r], status |-> status[r]] \in Snapshots
        /\ \A q \in Started \ {r} : LastSaid(id[q])' = LastSaid(id[q])
        /\ \A v \in InFlight' : write'[v].by = session
    BY <1>3, <2>1, <2>3, <2>4, <2>5
  <2>7. Tells(LastSaid(id[r]), r)' /\ LastSaid(id[r])' = Snapshot(r)'
    BY <2>4, <2>6 DEF Tells, Snapshot
  <2>8. Unshared' /\ index <= index' /\ id'[r] <= index'
    BY <1>1, <1>2, <2>1, <2>4 DEF Kept, Unshared
  <2>9. QED BY <1>1, <2>1, <2>4, <2>6, <2>7, <2>8, OwnStepKeeps
<1>8. CASE Interrupt(r) \/ Close(r)
  <2>1. id[r] # 0 /\ sessionOf[r] = session /\ phase = "up"
    BY <1>1, <1>8 DEF Interrupt, Close, Current, RunsFit
  <2>2. /\ UNCHANGED <<session, phase, index, archived, found, disk, id, sessionOf, turn>>
        /\ UNCHANGED <<write, tail>>
        /\ \/ status[r] = "running" /\ status'[r] = "interrupted" /\ turn[r] = "prompting"
           \/ status'[r] = status[r] /\ cancelling' = cancelling
        /\ \A q \in Runs \ {r} : status'[q] = status[q] /\ (q \in cancelling <=> q \in cancelling')
    BY <1>1, <1>8
    DEF Interrupt, Close, Current, RunsFit, StoreTypeOK, sessionVars, storeVars
  <2>3. \A i : LastSaid(i)' = LastSaid(i)
    BY <2>2 DEF LastSaid
  <2>4. /\ LastSaid(id[r])' = LastSaid(id[r])
        /\ \A q \in Started \ {r} : LastSaid(id[q])' = LastSaid(id[q])
    BY <2>2 DEF LastSaid
  <2>5. Stopped(status'[r]) = Stopped(status[r])
    BY <2>2 DEF Stopped
  <2>6. Tells(LastSaid(id[r]), r)'
    BY <1>2, <2>1, <2>2, <2>4, <2>5 DEF Tells
  <2>7. turn'[r] # "prompting" /\ r \notin cancelling' => LastSaid(id[r])' = Snapshot(r)'
    <3>1. turn[r] # "prompting" /\ r \notin cancelling => LastSaid(id[r]) = Snapshot(r)
      BY <1>2, <2>1 DEF RunKept
    <3>2. CASE turn[r] = "prompting"
      BY <2>2, <3>2
    <3>3. CASE turn[r] # "prompting"
      BY <2>2, <2>4, <3>1, <3>3 DEF Snapshot
    <3>4. QED BY <3>2, <3>3
  <2>8. /\ \A w \in InFlight' : write'[w].by = session
        /\ Unshared' /\ index <= index' /\ id'[r] <= index'
    BY <1>1, <1>2, <2>1, <2>2 DEF Kept, Unshared, InFlight
  <2>9. QED BY <1>1, <2>1, <2>2, <2>4, <2>6, <2>7, <2>8, OwnStepKeeps
<1>9. CASE CloseReturns(r)
  <2>1. UNCHANGED <<sessionVars, id, sessionOf, status, turn, cancelling, storeVars>>
    BY <1>9 DEF CloseReturns
  <2>2. QED
    BY <2>1 DEF Kept, Unshared, Quiet, RunKept, Tells, Archived, LastSaid, Snapshot, Started,
                InFlight, sessionVars, storeVars
<1>10. QED BY <1>4, <1>5, <1>6, <1>7, <1>8, <1>9 DEF RunStep

-----------------------------------------------------------------------------
(* The invariant, and what follows from it                                 *)

LEMMA StoreNext == ASSUME RunStoreAssumption, StoreInv, [Next]_vars PROVE StoreInv'
<1>1. StoreTypeOK' /\ RunsFit'
  <2>1. CASE UNCHANGED vars
    BY <2>1 DEF StoreInv, StoreTypeOK, RunsFit, vars, sessionVars, runVars, storeVars
  <2>2. QED BY <2>1, StoreStepFits, SessionStepFits, RunStepFits DEF Next
<1>2. InLine'
  BY StepInLine
<1>3. ASSUME ~spoilt' PROVE Kept'
  <2>1. ~spoilt
    <3>1. CASE Crash \/ Reload
      BY <1>3, <3>1 DEF Crash, Reload, Spoils
    <3>2. CASE Boot \/ RestoreStep
      BY <1>3, <3>2 DEF Boot, RestoreStep, ReadSnapshot, Restore, Restored
    <3>3. ASSUME NEW w \in Writes, StoreStep(w) PROVE ~spoilt
      BY <1>3, <3>3 DEF StoreStep, WriteOpens, WriteEnds, WriteFails, Spoils
    <3>4. ASSUME NEW r \in Runs, RunStep(r) PROVE ~spoilt
      BY <1>3, <3>4 DEF RunStep, StartRun, FollowUp, Settle, Interrupt, InterruptReturns,
                        Close, CloseReturns
    <3>5. CASE UNCHANGED vars
      BY <1>3, <3>5 DEF vars
    <3>6. QED BY <3>1, <3>2, <3>3, <3>4, <3>5 DEF Next
  <2>2. Kept
    BY <2>1 DEF StoreInv
  <2>3. CASE UNCHANGED vars
    BY <2>2, <2>3 DEF Kept, Unshared, Quiet, RunKept, Tells, Archived, LastSaid, Snapshot,
                      Started, InFlight, vars, sessionVars, runVars, storeVars
  <2>4. CASE Boot \/ Crash \/ Reload
    BY <1>3, <2>2, <2>4, SessionStepKeeps
  <2>5. CASE RestoreStep
    BY <2>2, <2>5, ReadKeeps, RestoreKeeps, RestoredKeeps DEF RestoreStep
  <2>6. ASSUME NEW w \in Writes, StoreStep(w) PROVE Kept'
    BY <1>3, <2>2, <2>6, StoreStepKeeps
  <2>7. ASSUME NEW r \in Runs, RunStep(r) PROVE Kept'
    BY <1>1, <2>2, <2>7, RunStepKeeps
  <2>8. QED BY <2>3, <2>4, <2>5, <2>6, <2>7 DEF Next
<1>4. QED BY <1>1, <1>2, <1>3 DEF StoreInv

LEMMA StoreKept == Spec => []StoreInv
BY StoreInit, StoreNext, RunStoreAssumption, PTL DEF Spec

\* Of all the writeStatus() calls of a store one at most has a file open, so
\* that none truncates what another is writing.
THEOREM WritersTakeTurns == Spec => []OneWriterPerFile
<1>1. StoreInv => OneWriterPerFile
  <2>1. SUFFICES ASSUME StoreInv, NEW v \in InFlight, NEW w \in InFlight,
                        write[v].at = "open", write[w].at = "open",
                        write[v].by = write[w].by, write[v].snap.id = write[w].snap.id
                 PROVE  v = w
    BY DEF OneWriterPerFile
  <2>2. /\ write[v].prev = None /\ write[w].prev = None /\ StoreTypeOK
        /\ write[v].by \in SessionNumbers /\ write[v].snap.id \in Ids
    BY <2>1, SlotFacts DEF StoreInv, InLine
  <2>3. PICK q \in Seq(Writes) : Line(q, write[v].by, write[v].snap.id)
    BY <2>1, <2>2 DEF StoreInv, InLine
  <2>4. q[1] = v
    BY <2>2, <2>3, FirstInLine, RunStoreAssumption
  <2>5. q[1] = w
    BY <2>1, <2>2, <2>3, FirstInLine, RunStoreAssumption
  <2>6. QED BY <2>4, <2>5
<1>2. QED BY <1>1, StoreKept, PTL

\* When the writes of a run are done its file says what the run last said,
\* unless a write failed or a session was cut off.
THEOREM FilesAreTrue == Spec => []DiskCatchesUp
<1>1. StoreInv => DiskCatchesUp
  <2>1. SUFFICES ASSUME StoreInv, NEW r \in Runs, ~spoilt, phase = "up", sessionOf[r] = session,
                        WritesOf(id[r]) = {}, turn[r] = None, r \notin cancelling
                 PROVE  disk[id[r]] = Snapshot(r)
    BY DEF DiskCatchesUp
  <2>2. StoreTypeOK /\ InLine /\ Kept /\ session \in SessionNumbers
    BY <2>1 DEF StoreInv, StoreTypeOK
  <2>3. id[r] # 0 /\ id[r] \in Ids
    BY <2>1, <2>2, SnapshotOf DEF StoreTypeOK, SessionNumbers
  <2>4. LastSaid(id[r]) = Snapshot(r)
    BY <2>1, <2>2, <2>3, RunStoreAssumption DEF Kept, RunKept, Started, RunStoreAssumption
  <2>5. tail[session][id[r]] = None
    BY <2>1, <2>2, <2>3, TailFacts, RunStoreAssumption DEF WritesOf
  <2>6. QED BY <2>4, <2>5 DEF LastSaid
<1>2. QED BY <1>1, StoreKept, PTL

\* However many sessions a workspace has had, no id is given twice, and each
\* run of an earlier session is found as it was left, unless a crash or a
\* failed write lost something.
THEOREM RunsSurviveRestarts == Spec => []RestartKeepsRuns
<1>1. StoreInv => RestartKeepsRuns
  <2>1. SUFFICES ASSUME StoreInv, ~spoilt PROVE RestartKeepsRuns
    BY DEF RestartKeepsRuns, IdsNeverReused, RunsStayResolvable
  <2>2. StoreTypeOK /\ Kept
    BY <2>1 DEF StoreInv
  <2>3. IdsNeverReused
    BY <2>2 DEF Kept, Unshared, IdsNeverReused
  <2>4. ASSUME phase = "up", NEW r \in Runs, sessionOf[r] \in 1 .. session - 1
        PROVE  archived[id[r]] = [Snapshot(r) EXCEPT !.status =
                                    IF @ = "running" THEN "interrupted" ELSE @]
    <3>1. id[r] # 0 /\ sessionOf[r] # session
      BY <2>2, <2>4 DEF StoreTypeOK
    <3>2. archived[id[r]] = [run |-> r, id |-> id[r], status |-> Stopped(status[r])]
      BY <2>2, <2>4, <3>1 DEF Kept, RunKept, Started, Archived
    <3>3. QED BY <3>2 DEF Snapshot, Stopped
  <2>5. QED BY <2>3, <2>4 DEF RestartKeepsRuns, RunsStayResolvable
<1>2. QED BY <1>1, StoreKept, PTL
=============================================================================
