--------------------------- MODULE CatalogPreload ---------------------------
(***************************************************************************)
(* How the MCP daemon comes by its tool catalogs: preloadCatalogs(),       *)
(* joinCatalogPreload() and the catalog and call requests of handle() in   *)
(* src/src/mcp-daemon.ts.  A loop discovers all servers and tries again    *)
(* with growing delays until all of them answer; requests wait for it,     *)
(* wake it or discover beside it.                                          *)
(*                                                                         *)
(* A catalog is the set of servers that answered.  An action is what       *)
(* happens when a request arrives, a discovery ends or a delay is over.    *)
(***************************************************************************)
EXTENDS Integers

CONSTANTS
  Servers,   \* the configured MCP servers
  Requests,  \* requests to the daemon
  Loops,     \* runs of the loop in preloadCatalogs()
  Backoffs,  \* the number of delays: the loop tries once more than that
  None       \* no loop

ASSUME CatalogPreloadAssumption ==
  /\ Servers # {}
  /\ Backoffs \in Nat
  /\ None \notin Loops

VARIABLES
  result,    \* catalogPreloadResult; before the first, no server answered
  preload,   \* the loop of catalogPreloadPromise
  demanded,  \* catalogDemanded
  loop,      \* what each loop is doing
  attempt,   \* its attempt
  request,   \* what each request is doing
  waits,     \* the loop that it waits for
  joined,    \* loops that a command waited for
  kept       \* discoveries each loop has ended since one did

preloadVars == <<result, preload, demanded, loop, attempt, request, waits, joined, kept>>

PreloadInit ==
  /\ result = {} /\ preload = None
  /\ demanded = FALSE
  /\ loop = [l \in Loops |-> "unused"]
  /\ attempt = [l \in Loops |-> 0]
  /\ request = [r \in Requests |-> "idle"]
  /\ waits = [r \in Requests |-> None]
  /\ joined = {}
  /\ kept = [l \in Loops |-> 0]

-----------------------------------------------------------------------------
\* preloadCatalogs() finds no loop to share and starts one.
StartLoop(l) ==
  /\ loop[l] = "unused"
  /\ loop' = [loop EXCEPT ![l] = "discovering"]
  /\ preload' = l
  /\ demanded' = FALSE

\* FAULT: the demand for an earlier loop counts for the next one.
StrictUnreset(r) ==
  /\ request[r] = "idle" /\ result # Servers /\ preload = None
  /\ \E l \in Loops :
       /\ loop[l] = "unused"
       /\ loop' = [loop EXCEPT ![l] = "discovering"]
       /\ preload' = l
       /\ request' = [request EXCEPT ![r] = "waiting"]
       /\ waits' = [waits EXCEPT ![r] = l]
  /\ UNCHANGED <<result, demanded, attempt, joined, kept>>

\* A strict catalog request, or a call of a tool that is not in the cache.
Strict(r) ==
  /\ request[r] = "idle" /\ result # Servers
  /\ \E l \in Loops :
       /\ \/ preload = l /\ UNCHANGED <<loop, preload, demanded>>
          \/ preload = None /\ StartLoop(l)
       /\ request' = [request EXCEPT ![r] = "waiting"]
       /\ waits' = [waits EXCEPT ![r] = l]
  /\ UNCHANGED <<result, attempt, joined, kept>>

\* joinCatalogPreload(): a command demands the catalog, which ends a delay.
Join(r) ==
  /\ request[r] = "idle" /\ preload # None
  /\ demanded' = TRUE
  /\ joined' = joined \cup {preload}
  /\ loop' = [loop EXCEPT ![preload] = "discovering"]
  /\ attempt' = [attempt EXCEPT ![preload] = IF loop[preload] = "delayed" THEN @ + 1 ELSE @]
  /\ request' = [request EXCEPT ![r] = "waiting"]
  /\ waits' = [waits EXCEPT ![r] = preload]
  /\ UNCHANGED <<result, preload, kept>>

\* The loop a request waits for has settled, either way.
WaitEnds(r) ==
  /\ request[r] = "waiting" /\ loop[waits[r]] = "ended"
  /\ request' = [request EXCEPT ![r] = "done"]
  /\ UNCHANGED <<result, preload, demanded, loop, attempt, waits, joined, kept>>

\* A request with allowPartial discovers on its own.
Partial(r) ==
  /\ request[r] = "idle"
  /\ request' = [request EXCEPT ![r] = "discovering"]
  /\ UNCHANGED <<result, preload, demanded, loop, attempt, waits, joined, kept>>

\* It replaces the cache, however long it took, and sees to the rest.
PartialEnds(r) ==
  /\ request[r] = "discovering"
  /\ request' = [request EXCEPT ![r] = "done"]
  /\ \E found \in SUBSET Servers :
       /\ result' = found
       /\ IF found # Servers /\ preload = None
          THEN \E l \in Loops : StartLoop(l)
          ELSE UNCHANGED <<loop, preload, demanded>>
  /\ UNCHANGED <<attempt, waits, joined, kept>>

\* runtime() or the discovery rejects.
PartialFails(r) ==
  /\ request[r] = "discovering"
  /\ request' = [request EXCEPT ![r] = "done"]
  /\ UNCHANGED <<result, preload, demanded, loop, attempt, waits, joined, kept>>

-----------------------------------------------------------------------------
(* The loop                                                                *)

\* FAULT: a command that waits is not thought of.
LastPatiently(l) == attempt[l] = Backoffs

\* No attempt comes after this one: a command waits and this was not the
\* first, or there is no delay left.
Last(l) == (demanded /\ attempt[l] > 0) \/ attempt[l] = Backoffs

EndLoop(l) ==
  /\ loop' = [loop EXCEPT ![l] = "ended"]
  /\ preload' = IF preload = l THEN None ELSE preload

Delay(l) ==
  /\ loop' = [loop EXCEPT ![l] = "delayed"]
  /\ UNCHANGED preload

\* A discovery of the loop ends, or rejects and leaves the cache alone.
Discovered(l) ==
  /\ loop[l] = "discovering"
  /\ \/ result' = Servers /\ EndLoop(l)
     \/ /\ result' \in (SUBSET Servers \ {Servers}) \cup {result}
        /\ IF Last(l) THEN EndLoop(l) ELSE Delay(l)
  /\ kept' = [kept EXCEPT ![l] = IF l \in joined THEN @ + 1 ELSE @]
  /\ UNCHANGED <<demanded, attempt, request, waits, joined>>

\* FAULT: only a command ends a delay.
DelayEndsWoken(l) ==
  /\ loop[l] = "delayed" /\ demanded
  /\ loop' = [loop EXCEPT ![l] = "discovering"]
  /\ attempt' = [attempt EXCEPT ![l] = @ + 1]
  /\ UNCHANGED <<result, preload, demanded, request, waits, joined, kept>>

DelayEnds(l) ==
  /\ loop[l] = "delayed"
  /\ loop' = [loop EXCEPT ![l] = "discovering"]
  /\ attempt' = [attempt EXCEPT ![l] = @ + 1]
  /\ UNCHANGED <<result, preload, demanded, request, waits, joined, kept>>

LoopStep(l) == Discovered(l) \/ DelayEnds(l)

PreloadNext ==
  \/ \E r \in Requests :
       Strict(r) \/ Join(r) \/ WaitEnds(r) \/ Partial(r) \/ PartialEnds(r) \/ PartialFails(r)
  \/ \E l \in Loops : LoopStep(l)

PreloadSpec == PreloadInit /\ [][PreloadNext]_preloadVars

\* Discoveries have a timeout and timers fire.
FairPreloadSpec ==
  /\ PreloadSpec
  /\ \A r \in Requests : WF_preloadVars(WaitEnds(r))
  /\ \A l \in Loops : WF_preloadVars(LoopStep(l))

-----------------------------------------------------------------------------
PreloadTypeOK ==
  /\ result \in SUBSET Servers
  /\ preload \in {None} \cup Loops
  /\ demanded \in BOOLEAN
  /\ loop \in [Loops -> {"unused", "discovering", "delayed", "ended"}]
  /\ attempt \in [Loops -> 0 .. Backoffs]
  /\ request \in [Requests -> {"idle", "waiting", "discovering", "done"}]
  /\ waits \in [Requests -> Loops \cup {None}]
  /\ joined \in SUBSET Loops
  /\ kept \in [Loops -> Nat]

\* Servers are not asked by two loops at once: a loop that is not over is the
\* one that others find.
OneLoop == \A l \in Loops : loop[l] \in {"discovering", "delayed"} <=> preload = l

\* A command waits for the end of at most two discoveries.
DemandIsBounded == \A l \in Loops : kept[l] <= 2

\* A loop that no command waits for uses all its attempts before it gives up.
BackgroundKeepsTrying ==
  [][\A l \in Loops :
       loop[l] = "discovering" /\ loop'[l] = "ended" /\ l \notin joined /\ result' # Servers
       => attempt[l] = Backoffs]_preloadVars

\* Every request that waits for a loop goes on.
WaitsEnd == \A r \in Requests : request[r] = "waiting" ~> request[r] = "done"
=============================================================================
