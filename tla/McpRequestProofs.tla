-------------------------- MODULE McpRequestProofs --------------------------
(***************************************************************************)
(* What an MCP request rests on, for any number of commands, servers,      *)
(* delays and calls: the catalog that a command looks up on disk, the one  *)
(* that the daemon preloads, and the call of a tool through the daemon.    *)
(***************************************************************************)
EXTENDS CatalogCache, CatalogPreload, McpCall, FiniteSetTheorems, TLAPS

-----------------------------------------------------------------------------
(* The catalog cache: its lock                                             *)

\* A lock file belongs to a call that will remove it, or to one that died.
OwnerIsThere ==
  /\ lock.owner = NoOne => lock = NoLock
  /\ lock.owner # NoOne => at[lock.owner] \in Holding \cup {"dead"}

\* Nobody breaks a lock, and who is past its creation is its owner.
OwnerIsAlone ==
  /\ ~lock.old
  /\ \A c \in Clients :
       /\ at[c] \notin {"breaking", "dead"}
       /\ at[c] \in Holding => lock.owner = c

\* Who lists has seen that there was no cache, and only the owner writes one.
ListsUncached == \A c \in Clients : at[c] \in {"listing", "writing"} => cache = NoOne

\* OwnerIsThere is inductive by itself; the rest needs it, and calm.
LockInv ==
  /\ CacheTypeOK
  /\ OwnerIsThere
  /\ ~crashes /\ ~stalls => OwnerIsAlone /\ ListsUncached

\* At first there is no lock, and nobody is at work.
LEMMA InitLock == CacheInit => LockInv
  BY NoOneAssumption
  DEF CacheInit, LockInv, CacheTypeOK, OwnerIsThere, OwnerIsAlone, ListsUncached, NoLock, Holding

\* The locks a step leaves have the type of a lock.
LEMMA LockTypes ==
  ASSUME NEW c \in Clients, CacheTypeOK
  PROVE  LET Locks == [owner : Clients \cup {NoOne}, written : BOOLEAN, old : BOOLEAN]
         IN  /\ NoLock \in Locks
             /\ [NoLock EXCEPT !.owner = c] \in Locks
             /\ [lock EXCEPT !.written = TRUE] \in Locks
             /\ [lock EXCEPT !.old = TRUE] \in Locks
<1>1. \A o \in Clients \cup {NoOne}, w \in BOOLEAN, l \in BOOLEAN :
        [owner |-> o, written |-> w, old |-> l]
          \in [owner : Clients \cup {NoOne}, written : BOOLEAN, old : BOOLEAN]
  OBVIOUS
<1>2. NoLock \in [owner : Clients \cup {NoOne}, written : BOOLEAN, old : BOOLEAN]
  BY <1>1 DEF NoLock
<1> QED
  BY <1>2 DEF CacheTypeOK

\* Every step keeps the types.
LEMMA TypeStep == CacheTypeOK /\ [CacheNext]_cacheVars => CacheTypeOK'
<1> SUFFICES ASSUME CacheTypeOK, [CacheNext]_cacheVars PROVE CacheTypeOK'
  OBVIOUS
<1> USE NoOneAssumption, LockTypes DEF CacheTypeOK, Go, settings
<1>1. ASSUME NEW c \in Clients, FirstRead(c) \/ Poll(c) \/ LastRead(c) \/ Recheck(c)
      PROVE  CacheTypeOK'
  BY <1>1 DEF FirstRead, Poll, LastRead, Recheck, ReadCache
<1>2. ASSUME NEW c \in Clients, Open(c) PROVE CacheTypeOK'
  BY <1>2 DEF Open
<1>3. ASSUME NEW c \in Clients, Stamp(c) PROVE CacheTypeOK'
  BY <1>3 DEF Stamp
<1>4. ASSUME NEW c \in Clients, Judge(c) \/ JudgeByDate(c) PROVE CacheTypeOK'
  BY <1>4 DEF Judge, JudgeByDate
<1>5. ASSUME NEW c \in Clients, BreakLock(c) \/ Release(c) PROVE CacheTypeOK'
  BY <1>5 DEF BreakLock, Release
<1>6. ASSUME NEW c \in Clients, Delayed(c) \/ List(c) \/ Write(c) PROVE CacheTypeOK'
  BY <1>6 DEF Delayed, List, Write
<1>7. ASSUME NEW c \in Clients, DeadlinePasses(c) \/ Crash(c) PROVE CacheTypeOK'
  BY <1>7 DEF DeadlinePasses, Crash
<1>8. CASE Age
  BY <1>8 DEF Age
<1>9. CASE UNCHANGED cacheVars
  BY <1>9 DEF cacheVars
<1> QED
  BY <1>1, <1>2, <1>3, <1>4, <1>5, <1>6, <1>7, <1>8, <1>9 DEF CacheNext, Await

\* No step lets go of a lock without removing it.
LEMMA OwnerStep == LockInv /\ [CacheNext]_cacheVars => OwnerIsThere'
<1> SUFFICES ASSUME LockInv, [CacheNext]_cacheVars PROVE OwnerIsThere'
  OBVIOUS
<1> USE NoOneAssumption DEF LockInv, OwnerIsThere, CacheTypeOK, Go, settings, Holding
<1>1. ASSUME NEW c \in Clients, FirstRead(c) \/ Poll(c) \/ LastRead(c) \/ Recheck(c)
      PROVE OwnerIsThere'
  BY <1>1 DEF FirstRead, Poll, LastRead, Recheck, ReadCache
<1>2. ASSUME NEW c \in Clients, Open(c) PROVE OwnerIsThere'
  BY <1>2 DEF Open, NoLock
<1>3. ASSUME NEW c \in Clients, Stamp(c) PROVE OwnerIsThere'
  BY <1>3 DEF Stamp, NoLock
<1>4. ASSUME NEW c \in Clients, Judge(c) \/ JudgeByDate(c) PROVE OwnerIsThere'
  BY <1>4 DEF Judge, JudgeByDate
<1>5. ASSUME NEW c \in Clients, BreakLock(c) \/ Release(c) PROVE OwnerIsThere'
  BY <1>5 DEF BreakLock, Release, NoLock
<1>6. ASSUME NEW c \in Clients, Delayed(c) \/ List(c) \/ Write(c) PROVE OwnerIsThere'
  BY <1>6 DEF Delayed, List, Write
<1>7. ASSUME NEW c \in Clients, DeadlinePasses(c) \/ Crash(c) PROVE OwnerIsThere'
  BY <1>7 DEF DeadlinePasses, Crash
<1>8. CASE Age
  BY <1>8 DEF Age, NoLock
<1>9. CASE UNCHANGED cacheVars
  BY <1>9 DEF cacheVars
<1> QED
  BY <1>1, <1>2, <1>3, <1>4, <1>5, <1>6, <1>7, <1>8, <1>9 DEF CacheNext, Await

\* While all is calm no step makes a second owner, or a listing beside a cache.
LEMMA CalmStep ==
  LockInv /\ ~crashes /\ ~stalls /\ [CacheNext]_cacheVars => OwnerIsAlone' /\ ListsUncached'
<1> SUFFICES ASSUME LockInv, ~crashes, ~stalls, [CacheNext]_cacheVars
             PROVE  OwnerIsAlone' /\ ListsUncached'
  OBVIOUS
<1> DEFINE Kept == OwnerIsAlone' /\ ListsUncached'
<1> USE NoOneAssumption DEF LockInv, OwnerIsAlone, ListsUncached, CacheTypeOK, Go, settings, Holding
<1>1. ASSUME NEW c \in Clients, FirstRead(c) \/ Poll(c) \/ LastRead(c) PROVE Kept
  BY <1>1 DEF FirstRead, Poll, LastRead, ReadCache
<1>2. ASSUME NEW c \in Clients, Recheck(c) PROVE Kept
  BY <1>2 DEF Recheck, ReadCache
<1>3. ASSUME NEW c \in Clients, Open(c) PROVE Kept
  <2>1. \A d \in Clients : lock = NoLock => at[d] \notin Holding
    BY DEF NoLock
  <2> QED
    BY <1>3, <2>1 DEF Open, NoLock
<1>4. ASSUME NEW c \in Clients, Stamp(c) PROVE Kept
  BY <1>4 DEF Stamp
<1>5. ASSUME NEW c \in Clients, Judge(c) PROVE Kept
  <2>1. lock.written => lock.owner \in Clients
    BY DEF OwnerIsThere, NoLock
  <2> QED
    BY <1>5, <2>1 DEF Judge, Dead
<1>6. ASSUME NEW c \in Clients, JudgeByDate(c) PROVE Kept
  BY <1>6 DEF JudgeByDate
<1>7. ASSUME NEW c \in Clients, BreakLock(c) PROVE Kept
  BY <1>7 DEF BreakLock
<1>8. ASSUME NEW c \in Clients, Release(c) PROVE Kept
  BY <1>8 DEF Release, NoLock
<1>9. ASSUME NEW c \in Clients, Delayed(c) \/ List(c) PROVE Kept
  BY <1>9 DEF Delayed, List
<1>10. ASSUME NEW c \in Clients, Write(c) PROVE Kept
  BY <1>10 DEF Write
<1>11. ASSUME NEW c \in Clients, DeadlinePasses(c) \/ Crash(c) PROVE Kept
  BY <1>11 DEF DeadlinePasses, Crash
<1>12. CASE Age
  <2>1. lock.owner \in Clients
    BY <1>12 DEF Age, OwnerIsThere
  <2> QED
    BY <1>12, <2>1 DEF Age, Dead
<1>13. CASE UNCHANGED cacheVars
  BY <1>13 DEF cacheVars
<1> QED
  BY <1>1, <1>2, <1>3, <1>4, <1>5, <1>6, <1>7, <1>8, <1>9, <1>10, <1>11, <1>12, <1>13
  DEF CacheNext, Await

\* What may go wrong is settled in the initial state.
LEMMA SettingsStay == [CacheNext]_cacheVars => UNCHANGED settings
  BY DEF CacheNext, Await, cacheVars, settings, FirstRead, Poll, LastRead, Recheck, ReadCache,
     Open, Stamp,
         Judge, JudgeByDate, BreakLock, Delayed, List, Write, Release, DeadlinePasses, Crash, Age

\* Each step of a command, of time or of a crash keeps the lock's invariant.
THEOREM LockInvariant == CacheSpec => []LockInv
<1>1. LockInv /\ [CacheNext]_cacheVars => LockInv'
  <2>1. LockInv => CacheTypeOK
    BY DEF LockInv
  <2>2. [CacheNext]_cacheVars => crashes' = crashes /\ stalls' = stalls
    BY SettingsStay DEF settings
  <2> QED
    BY <2>1, <2>2, TypeStep, OwnerStep, CalmStep DEF LockInv
<1> QED
  BY InitLock, <1>1, PTL DEF CacheSpec

\* While nobody dies or stalls one command asks the server at a time, and none
\* once the cache is there: discoverServerCatalog() looks again under its lock.
THEOREM OneDiscovery == CacheSpec => []DiscoveryIsExclusive
<1>1. LockInv => DiscoveryIsExclusive
  <2> SUFFICES ASSUME LockInv, ~crashes, ~stalls
               PROVE  /\ Cardinality(Discovering) <= 1
                      /\ cache # NoOne => Discovering = {}
    BY DEF DiscoveryIsExclusive
  <2>1. Discovering \in SUBSET {lock.owner}
    BY DEF LockInv, OwnerIsAlone, Discovering, Holding
  <2>2. IsFiniteSet({lock.owner}) /\ Cardinality({lock.owner}) = 1
    BY FS_Singleton
  <2>3. Cardinality(Discovering) <= 1
    BY <2>1, <2>2, FS_Subset
  <2>4. cache # NoOne => Discovering = {}
    BY DEF LockInv, ListsUncached, Discovering
  <2> QED
    BY <2>3, <2>4
<1> QED
  BY LockInvariant, <1>1, PTL

\* Whoever dies or stalls, a lock file is its owner's on the way to the finally
\* of discoverServerCatalog() that removes it, or a dead owner's: no call that
\* returned leaves its lock to be waited for, whatever locks were removed.
THEOREM NoLockIsLeft == CacheSpec => []LockIsGivenUp
<1>1. LockInv => LockIsGivenUp
  BY DEF LockInv, OwnerIsThere, CacheTypeOK, LockIsGivenUp, Holding
<1> QED
  BY LockInvariant, <1>1, PTL

-----------------------------------------------------------------------------
(* The preloaded catalog: its loop                                         *)

Active(l) == loop[l] \in {"discovering", "delayed"}

(* A command that waits is remembered, and the discovery that ends after   *)
(* it came is the last one unless it was the loop's first.                 *)
SoonOver(l) ==
  /\ l \notin joined => kept[l] = 0
  /\ loop[l] = "unused" => kept[l] = 0 /\ l \notin joined /\ attempt[l] = 0
  /\ Active(l) /\ l \in joined =>
       /\ demanded
       /\ kept[l] <= 1
       /\ kept[l] = 1 => loop[l] = "delayed" \/ attempt[l] > 0
  /\ Active(l) /\ l \notin joined => ~demanded
  /\ loop[l] = "delayed" => attempt[l] < Backoffs

LoopInv == PreloadTypeOK /\ OneLoop /\ DemandIsBounded /\ \A l \in Loops : SoonOver(l)

LEMMA LoopInvStep == LoopInv /\ [PreloadNext]_preloadVars => LoopInv'
<1> SUFFICES ASSUME LoopInv, [PreloadNext]_preloadVars PROVE LoopInv'
  OBVIOUS
<1> USE CatalogPreloadAssumption
        DEF LoopInv, PreloadTypeOK, OneLoop, DemandIsBounded, SoonOver, Active, StartLoop
<1>1. ASSUME NEW r \in Requests, Strict(r) PROVE LoopInv'
  <2>1. PICK l \in Loops :
          /\ \/ preload = l /\ UNCHANGED <<loop, preload, demanded>>
             \/ preload = None /\ StartLoop(l)
          /\ request' = [request EXCEPT ![r] = "waiting"]
          /\ waits' = [waits EXCEPT ![r] = l]
    BY <1>1 DEF Strict
  <2>2. UNCHANGED <<result, attempt, joined, kept>>
    BY <1>1 DEF Strict
  <2>3. CASE preload = l /\ UNCHANGED <<loop, preload, demanded>>
    BY <2>1, <2>2, <2>3
  <2>4. CASE preload = None /\ StartLoop(l)
    BY <2>1, <2>2, <2>4
  <2> QED
    BY <2>1, <2>3, <2>4
<1>2. ASSUME NEW r \in Requests, Join(r) PROVE LoopInv'
  <2>1. preload \in Loops /\ Active(preload)
    BY <1>2 DEF Join
  <2>2. PreloadTypeOK'
    BY <1>2, <2>1 DEF Join
  <2>3. OneLoop' /\ DemandIsBounded'
    BY <1>2, <2>1 DEF Join
  <2>4. ASSUME NEW l \in Loops PROVE SoonOver(l)'
    <3>1. CASE l = preload
      BY <1>2, <2>1, <3>1 DEF Join
    <3>2. CASE l # preload
      BY <1>2, <2>1, <3>2 DEF Join
    <3> QED
      BY <3>1, <3>2
  <2> QED
    BY <2>2, <2>3, <2>4
<1>3. ASSUME NEW r \in Requests, WaitEnds(r) \/ Partial(r) \/ PartialFails(r) PROVE LoopInv'
  BY <1>3 DEF WaitEnds, Partial, PartialFails
<1>4. ASSUME NEW r \in Requests, PartialEnds(r) PROVE LoopInv'
  <2>1. PICK found \in SUBSET Servers :
          /\ result' = found
          /\ IF found # Servers /\ preload = None
             THEN \E l \in Loops : StartLoop(l)
             ELSE UNCHANGED <<loop, preload, demanded>>
    BY <1>4 DEF PartialEnds
  <2>2. UNCHANGED <<attempt, waits, joined, kept>> /\ request' = [request EXCEPT ![r] = "done"]
    BY <1>4 DEF PartialEnds
  <2>3. CASE found # Servers /\ preload = None
    <3>1. PICK l \in Loops : StartLoop(l)
      BY <2>1, <2>3
    <3> QED
      BY <2>1, <2>2, <2>3, <3>1
  <2>4. CASE ~(found # Servers /\ preload = None)
    BY <2>1, <2>2, <2>4
  <2> QED
    BY <2>3, <2>4
<1>5. ASSUME NEW l \in Loops, Discovered(l) PROVE LoopInv'
  <2>1. /\ result' \in SUBSET Servers
        /\ EndLoop(l) \/ (~Last(l) /\ Delay(l))
        /\ kept' = [kept EXCEPT ![l] = IF l \in joined THEN @ + 1 ELSE @]
        /\ UNCHANGED <<demanded, attempt, request, waits, joined>>
        /\ loop[l] = "discovering" /\ preload = l
    BY <1>5 DEF Discovered
  <2>2. CASE EndLoop(l)
    <3>1. PreloadTypeOK' /\ OneLoop'
      BY <2>1, <2>2 DEF EndLoop
    <3>2. DemandIsBounded' /\ \A m \in Loops : SoonOver(m)'
      BY <2>1, <2>2 DEF EndLoop
    <3> QED
      BY <3>1, <3>2
  <2>3. CASE ~Last(l) /\ Delay(l)
    <3>1. PreloadTypeOK' /\ OneLoop'
      BY <2>1, <2>3 DEF Delay
    <3>2. attempt[l] < Backoffs /\ (demanded => attempt[l] = 0)
      BY <2>3 DEF Last
    <3>3. DemandIsBounded' /\ \A m \in Loops : SoonOver(m)'
      BY <2>1, <2>3, <3>2 DEF Delay
    <3> QED
      BY <3>1, <3>3
  <2> QED
    BY <2>1, <2>2, <2>3
<1>6. ASSUME NEW l \in Loops, DelayEnds(l) PROVE LoopInv'
  BY <1>6 DEF DelayEnds
<1>7. CASE UNCHANGED preloadVars
  BY <1>7 DEF preloadVars
<1> QED
  BY <1>1, <1>2, <1>3, <1>4, <1>5, <1>6, <1>7 DEF PreloadNext, LoopStep

LEMMA LoopInvKept == PreloadSpec => []LoopInv
<1>1. PreloadInit => LoopInv
  <2> SUFFICES ASSUME PreloadInit PROVE LoopInv
    OBVIOUS
  <2>1. PreloadTypeOK
    <3>1. 0 \in 0 .. Backoffs
      BY CatalogPreloadAssumption
    <3> QED
      BY <3>1 DEF PreloadInit, PreloadTypeOK
  <2>2. OneLoop
    BY CatalogPreloadAssumption DEF PreloadInit, OneLoop
  <2>3. DemandIsBounded /\ \A l \in Loops : SoonOver(l)
    BY DEF PreloadInit, DemandIsBounded, SoonOver, Active
  <2> QED
    BY <2>1, <2>2, <2>3 DEF LoopInv
<1> QED
  BY <1>1, LoopInvStep, PTL DEF PreloadSpec

(* The types hold; the attempts of a loop never outnumber its delays by    *)
(* more than the first one.                                                *)
THEOREM PreloadTypeCorrect == PreloadSpec => []PreloadTypeOK
<1>1. LoopInv => PreloadTypeOK
  BY DEF LoopInv
<1> QED
  BY <1>1, LoopInvKept, PTL

(* However requests and partial discoveries come in, the loop that is not  *)
(* over is the one catalogPreloadPromise holds: servers are not asked by   *)
(* two loops at once.                                                      *)
THEOREM LoopIsAlone == PreloadSpec => []OneLoop
<1>1. LoopInv => OneLoop
  BY DEF LoopInv
<1> QED
  BY <1>1, LoopInvKept, PTL

(* A command that calls joinCatalogPreload() waits for the end of at most  *)
(* two discoveries, however many delays are configured.                    *)
THEOREM DemandIsServed == PreloadSpec => []DemandIsBounded
<1>1. LoopInv => DemandIsBounded
  BY DEF LoopInv
<1> QED
  BY <1>1, LoopInvKept, PTL

(* A loop that no command waits for goes through every delay it has: the  *)
(* demand for an earlier loop does not end it.                             *)
THEOREM TriedInTheBackground == PreloadSpec => BackgroundKeepsTrying
<1> DEFINE Step ==
      \A l \in Loops :
        loop[l] = "discovering" /\ loop'[l] = "ended" /\ l \notin joined /\ result' # Servers
        => attempt[l] = Backoffs
<1>1. LoopInv /\ [PreloadNext]_preloadVars => [Step]_preloadVars
  <2> SUFFICES ASSUME LoopInv, PreloadNext, NEW l \in Loops, loop[l] = "discovering",
                      loop'[l] = "ended", l \notin joined, result' # Servers
               PROVE  attempt[l] = Backoffs
    OBVIOUS
  <2> USE DEF LoopInv, PreloadTypeOK, OneLoop, Active
  <2>1. ~demanded
    BY DEF SoonOver
  <2>2. ASSUME NEW r \in Requests,
               \/ Strict(r) \/ Join(r) \/ WaitEnds(r)
               \/ Partial(r) \/ PartialEnds(r) \/ PartialFails(r)
        PROVE  FALSE
    BY <2>2 DEF Strict, Join, WaitEnds, Partial, PartialEnds, PartialFails, StartLoop
  <2>3. ASSUME NEW m \in Loops, LoopStep(m) PROVE attempt[l] = Backoffs
    <3>1. CASE m # l
      BY <2>3, <3>1 DEF LoopStep, Discovered, EndLoop, Delay, DelayEnds
    <3>2. CASE m = l
      BY <2>1, <2>3, <3>2 DEF LoopStep, Discovered, EndLoop, Delay, DelayEnds, Last
    <3> QED
      BY <3>1, <3>2
  <2> QED
    BY <2>2, <2>3 DEF PreloadNext
<1> QED
  BY <1>1, LoopInvKept, PTL DEF PreloadSpec, BackgroundKeepsTrying

-----------------------------------------------------------------------------
(* A call through the daemon                                               *)

(* The types hold whatever callers, connections and the daemon do: every   *)
(* action of callMcpDaemonTool(), callToolRequest() and shutdown()         *)
(* preserves them.                                                         *)
THEOREM CallTypeCorrect == Spec => []TypeOK
<1>1. Init => TypeOK
  BY DEF Init, TypeOK, Told, Replies, Working
<1>2. TypeOK /\ [Next]_vars => TypeOK'
  <2> SUFFICES ASSUME TypeOK, [Next]_vars PROVE TypeOK'
    OBVIOUS
  <2> USE DEF TypeOK, Told, Replies, Working, callerVars, daemonVars, Tell, OnWire
  <2>1. ASSUME NEW c \in Calls, CallFails(c) \/ Call(c) \/ GiveUp(c) PROVE TypeOK'
    BY <2>1 DEF CallFails, Call, GiveUp
  <2>2. ASSUME NEW c \in Calls, HangUp(c) PROVE TypeOK'
    BY <2>2 DEF HangUp
  <2>3. ASSUME NEW c \in Calls, Connect(c) \/ ConnectFails(c) \/ Lose(c) PROVE TypeOK'
    BY <2>3 DEF Connect, ConnectFails, Lose
  <2>4. ASSUME NEW c \in Calls, Reply(c) PROVE TypeOK'
    <3>1. CASE wire[c] = "error"
      BY <2>4, <3>1 DEF Reply
    <3>2. CASE wire[c] = "warning"
      BY <2>4, <3>2 DEF Reply
    <3>3. CASE wire[c] = "result"
      BY <2>4, <3>3 DEF Reply
    <3> QED
      BY <2>4, <3>1, <3>2, <3>3 DEF Reply
  <2>5. ASSUME NEW c \in Calls, Accept(c) \/ Refuse(c) \/ Authorize(c) \/ Dispatch(c) PROVE TypeOK'
    BY <2>5 DEF Accept, Refuse, Authorize, Dispatch
  <2>6. ASSUME NEW c \in Calls, Deny(c) \/ RuntimeFails(c) \/ Reject(c) \/ Answer(c) PROVE TypeOK'
    BY <2>6 DEF Deny, RuntimeFails, Reject, Answer, Finish
  <2>7. ASSUME NEW c \in Calls, CancelArrives(c) \/ SeeClose(c) PROVE TypeOK'
    BY <2>7 DEF CancelArrives, SeeClose
  <2>8. CASE Shutdown \/ Exit \/ Killed
    BY <2>8 DEF Shutdown, Exit, Killed, Gone
  <2>9. CASE UNCHANGED vars
    BY <2>9 DEF vars
  <2> QED
    BY <2>1, <2>2, <2>3, <2>4, <2>5, <2>6, <2>7, <2>8, <2>9 DEF Next, Transport, Handle
<1> QED
  BY <1>1, <1>2, PTL DEF Spec

(* A request that is in the daemon's map while it stops had its controller *)
(* aborted by shutdown(), whenever it was taken up.                        *)
THEOREM ShutdownIsComplete == Spec => []ShutdownReachesAll
<1>1. Init => ShutdownReachesAll
  BY DEF Init, ShutdownReachesAll
<1>2. TypeOK /\ ShutdownReachesAll /\ [Next]_vars => ShutdownReachesAll'
  <2> SUFFICES ASSUME TypeOK, ShutdownReachesAll, [Next]_vars PROVE ShutdownReachesAll'
    OBVIOUS
  <2> USE DEF TypeOK, ShutdownReachesAll, callerVars, daemonVars
  <2>1. ASSUME NEW c \in Calls, CallFails(c) \/ Call(c) \/ GiveUp(c) \/ HangUp(c)
        PROVE  ShutdownReachesAll'
    BY <2>1 DEF CallFails, Call, GiveUp, HangUp
  <2>2. ASSUME NEW c \in Calls, Transport(c) PROVE ShutdownReachesAll'
    BY <2>2 DEF Transport, Connect, ConnectFails, Lose, Reply
  <2>3. ASSUME NEW c \in Calls, Accept(c) PROVE ShutdownReachesAll'
    BY <2>3 DEF Accept
  <2>4. ASSUME NEW c \in Calls, Refuse(c) \/ Authorize(c) \/ Dispatch(c) PROVE ShutdownReachesAll'
    BY <2>4 DEF Refuse, Authorize, Dispatch
  <2>5. ASSUME NEW c \in Calls, Deny(c) \/ RuntimeFails(c) \/ Reject(c) \/ Answer(c)
        PROVE  ShutdownReachesAll'
    BY <2>5 DEF Deny, RuntimeFails, Reject, Answer, Finish
  <2>6. ASSUME NEW c \in Calls, CancelArrives(c) \/ SeeClose(c) PROVE ShutdownReachesAll'
    BY <2>6 DEF CancelArrives, SeeClose
  <2>7. CASE Shutdown \/ Exit \/ Killed
    BY <2>7 DEF Shutdown, Exit, Killed, Gone
  <2>8. CASE UNCHANGED vars
    BY <2>8 DEF vars
  <2> QED
    BY <2>1, <2>2, <2>3, <2>4, <2>5, <2>6, <2>7, <2>8 DEF Next, Handle
<1> QED
  BY <1>1, <1>2, CallTypeCorrect, PTL DEF Spec

-----------------------------------------------------------------------------
(* Why an error is the truth.  A request is handled once, what is on the   *)
(* wire agrees with what the handler did, and a caller that was told of a  *)
(* failure has no request left that anybody could take up.                 *)
Unhandled(c) == wire[c] \in {"none", "connecting", "request"} => handler[c] = "none"

RanWhenCalled(c) ==
  /\ handler[c] \in {"none", "authorizing", "starting"} => c \notin ran
  /\ handler[c] = "calling" => c \in ran

WireIsTrue(c) ==
  /\ caller[c] = "idle" => wire[c] = "none"
  /\ wire[c] = "error" => c \notin ran /\ handler[c] \in {"none", "done"}
  /\ wire[c] = "result" => c \in ran

FailedIsOver(c) ==
  caller[c] = "failed" =>
    c \notin ran /\ handler[c] \in {"none", "done"} /\ wire[c] \in {"none", "closed"}

CallInv ==
  \A c \in Calls : Unhandled(c) /\ RanWhenCalled(c) /\ WireIsTrue(c) /\ FailedIsOver(c)

LEMMA CallInvStep == TypeOK /\ CallInv /\ [Next]_vars => CallInv'
<1> SUFFICES ASSUME TypeOK, CallInv, [Next]_vars PROVE CallInv'
  OBVIOUS
<1> USE DEF TypeOK, CallInv, Unhandled, RanWhenCalled, WireIsTrue, FailedIsOver,
            callerVars, daemonVars, Tell, OnWire
<1>1. ASSUME NEW c \in Calls, CallFails(c) PROVE CallInv'
  BY <1>1 DEF CallFails
<1>2. ASSUME NEW c \in Calls, Call(c) PROVE CallInv'
  BY <1>2 DEF Call
<1>3. ASSUME NEW c \in Calls, GiveUp(c) PROVE CallInv'
  BY <1>3 DEF GiveUp
<1>4. ASSUME NEW c \in Calls, HangUp(c) PROVE CallInv'
  BY <1>4 DEF HangUp
<1>5. ASSUME NEW c \in Calls, Connect(c) PROVE CallInv'
  BY <1>5 DEF Connect
<1>6. ASSUME NEW c \in Calls, ConnectFails(c) PROVE CallInv'
  BY <1>6 DEF ConnectFails
<1>7. ASSUME NEW c \in Calls, Lose(c) PROVE CallInv'
  BY <1>7 DEF Lose, Replies
<1>8. ASSUME NEW c \in Calls, Reply(c) PROVE CallInv'
  <2>1. CASE wire[c] = "error"
    BY <1>8, <2>1 DEF Reply
  <2>2. CASE wire[c] = "warning"
    BY <1>8, <2>2 DEF Reply
  <2>3. CASE wire[c] = "result"
    BY <1>8, <2>3 DEF Reply
  <2> QED
    BY <1>8, <2>1, <2>2, <2>3 DEF Reply, Replies
<1>9. ASSUME NEW c \in Calls, Accept(c) PROVE CallInv'
  BY <1>9 DEF Accept
<1>10. ASSUME NEW c \in Calls, Refuse(c) PROVE CallInv'
  BY <1>10 DEF Refuse
<1>11. ASSUME NEW c \in Calls, Authorize(c) PROVE CallInv'
  BY <1>11 DEF Authorize
<1>12. ASSUME NEW c \in Calls, Deny(c) \/ RuntimeFails(c) PROVE CallInv'
  BY <1>12 DEF Deny, RuntimeFails, Finish
<1>13. ASSUME NEW c \in Calls, Dispatch(c) PROVE CallInv'
  BY <1>13 DEF Dispatch
<1>14. ASSUME NEW c \in Calls, Reject(c) \/ Answer(c) PROVE CallInv'
  BY <1>14 DEF Reject, Answer, Finish
<1>15. ASSUME NEW c \in Calls, CancelArrives(c) \/ SeeClose(c) PROVE CallInv'
  BY <1>15 DEF CancelArrives, SeeClose
<1>16. CASE Shutdown \/ Exit \/ Killed
  BY <1>16 DEF Shutdown, Exit, Killed, Gone, Working
<1>17. CASE UNCHANGED vars
  BY <1>17 DEF vars
<1> QED
  BY <1>1, <1>2, <1>3, <1>4, <1>5, <1>6, <1>7, <1>8, <1>9, <1>10, <1>11,
     <1>12, <1>13, <1>14, <1>15, <1>16, <1>17 DEF Next, Transport, Handle

LEMMA CallInvKept == Spec => []CallInv
<1>1. Init => CallInv
  BY DEF Init, CallInv, Unhandled, RanWhenCalled, WireIsTrue, FailedIsOver
<1>2. TypeOK /\ CallInv /\ [Next]_vars => CallInv'
  BY CallInvStep
<1> QED
  BY <1>1, <1>2, CallTypeCorrect, PTL DEF Spec

(* A step that leaves alone which tools ran and tells c, who knew nothing, *)
(* something true, or leaves what everybody knows as it is, is a step of   *)
(* the contract.                                                           *)
LEMMA Telling ==
  ASSUME TypeOK, NEW c \in Calls, NEW what \in Told, UNCHANGED ran,
         caller' = [caller EXCEPT ![c] = what], caller[c] \notin Told,
         what = "failed" => c \notin ran,
         what = "result" => c \in ran
  PROVE  KnowsOutcome!Next
<1>1. knows[c] = "nothing" /\ knows' = [knows EXCEPT ![c] = what]
  BY DEF TypeOK, knows, Told
<1>2. KnowsOutcome!Tell(c)
  BY <1>1 DEF KnowsOutcome!Tell, Told
<1> QED
  BY <1>2 DEF KnowsOutcome!Next

(* The daemon implements the contract of CallContract: a caller that gets  *)
(* an error without "remote outcome is unknown" may make the call again,   *)
(* for its tool did not run and will not, whatever is cancelled, stopped,  *)
(* killed or delayed, and a result is that of a tool that ran.             *)
THEOREM ErrorsAreTrue == Spec => KeepsContract
<1>1. Init => KnowsOutcome!Init
  BY DEF Init, KnowsOutcome!Init, knows, Told
<1>2. TypeOK /\ CallInv /\ [Next]_vars => [KnowsOutcome!Next]_(KnowsOutcome!vars)
  <2> SUFFICES ASSUME TypeOK, CallInv, [Next]_vars
               PROVE KnowsOutcome!Next \/ UNCHANGED <<ran, knows>>
    BY DEF KnowsOutcome!vars
  <2>1. ASSUME NEW c \in Calls, CallFails(c) PROVE KnowsOutcome!Next
    <3>1. c \notin ran
      BY <2>1 DEF CallFails, CallInv, Unhandled, RanWhenCalled, WireIsTrue
    <3> QED
      BY <2>1, <3>1, Telling DEF CallFails, daemonVars, Told
  <2>2. ASSUME NEW c \in Calls, Call(c) PROVE UNCHANGED <<ran, knows>>
    BY <2>2 DEF Call, knows, Told, daemonVars, TypeOK
  <2>3. ASSUME NEW c \in Calls, GiveUp(c) PROVE KnowsOutcome!Next
    BY <2>3, Telling DEF GiveUp, daemonVars, Told
  <2>4. ASSUME NEW c \in Calls, HangUp(c) PROVE UNCHANGED <<ran, knows>>
    BY <2>4 DEF HangUp, Tell, knows, Told, daemonVars, TypeOK
  <2>5. ASSUME NEW c \in Calls, NEW what \in Told, UNCHANGED ran, Tell(c, what),
               what = "failed" => c \notin ran, what = "result" => c \in ran
        PROVE KnowsOutcome!Next \/ UNCHANGED <<ran, knows>>
    <3>1. CASE caller[c] = "exchanging"
      BY <2>5, <3>1, Telling DEF Tell, Told
    <3>2. CASE caller[c] # "exchanging"
      BY <2>5, <3>2 DEF Tell, knows, TypeOK
    <3> QED
      BY <3>1, <3>2
  <2>6. ASSUME NEW c \in Calls, Connect(c) PROVE UNCHANGED <<ran, knows>>
    BY <2>6 DEF Connect, knows, callerVars, daemonVars
  <2>7. ASSUME NEW c \in Calls, ConnectFails(c)
        PROVE KnowsOutcome!Next \/ UNCHANGED <<ran, knows>>
    <3>1. c \notin ran
      BY <2>7 DEF ConnectFails, CallInv, Unhandled, RanWhenCalled
    <3> QED
      BY <2>5, <2>7, <3>1 DEF ConnectFails, daemonVars, Told
  <2>8. ASSUME NEW c \in Calls, Lose(c)
        PROVE KnowsOutcome!Next \/ UNCHANGED <<ran, knows>>
    BY <2>5, <2>8 DEF Lose, daemonVars, Told
  <2>9. ASSUME NEW c \in Calls, Reply(c)
        PROVE KnowsOutcome!Next \/ UNCHANGED <<ran, knows>>
    <3>1. CASE wire[c] = "error"
      <4>1. c \notin ran /\ Tell(c, "failed")
        BY <2>9, <3>1 DEF Reply, CallInv, WireIsTrue
      <4> QED
        BY <2>5, <2>9, <4>1 DEF Reply, daemonVars, Told
    <3>2. CASE wire[c] = "warning"
      BY <2>5, <2>9, <3>2 DEF Reply, daemonVars, Told
    <3>3. CASE wire[c] = "result"
      <4>1. c \in ran /\ Tell(c, "result")
        BY <2>9, <3>3 DEF Reply, CallInv, WireIsTrue
      <4> QED
        BY <2>5, <2>9, <4>1 DEF Reply, daemonVars, Told
    <3> QED
      BY <2>9, <3>1, <3>2, <3>3 DEF Reply, Replies
  <2>10. ASSUME NEW c \in Calls, Accept(c) \/ Refuse(c) \/ Authorize(c) \/ Deny(c)
                                 \/ RuntimeFails(c) \/ Reject(c) \/ Answer(c)
         PROVE UNCHANGED <<ran, knows>>
    BY <2>10 DEF Accept, Refuse, Authorize, Deny, RuntimeFails, Reject, Answer, Finish,
                 knows, callerVars, daemonVars
  <2>11. ASSUME NEW c \in Calls, Dispatch(c) PROVE KnowsOutcome!Next
    <3>1. c \notin ran /\ knows[c] # "failed"
      BY <2>11 DEF Dispatch, CallInv, RanWhenCalled, FailedIsOver, knows
    <3>2. ran' = ran \cup {c} /\ UNCHANGED knows
      BY <2>11 DEF Dispatch, knows, callerVars
    <3>3. KnowsOutcome!Run(c)
      BY <3>1, <3>2 DEF KnowsOutcome!Run
    <3> QED
      BY <3>3 DEF KnowsOutcome!Next
  <2>12. ASSUME NEW c \in Calls, CancelArrives(c) \/ SeeClose(c) PROVE UNCHANGED <<ran, knows>>
    BY <2>12 DEF CancelArrives, SeeClose, knows, callerVars
  <2>13. CASE Shutdown \/ Exit \/ Killed \/ UNCHANGED vars
    BY <2>13 DEF Shutdown, Exit, Killed, Gone, knows, callerVars, daemonVars, vars
  <2> QED
    BY <2>1, <2>2, <2>3, <2>4, <2>6, <2>7, <2>8, <2>9, <2>10, <2>11, <2>12, <2>13
       DEF Next, Transport, Handle
<1> QED
  BY <1>1, <1>2, CallTypeCorrect, CallInvKept, PTL DEF Spec, KeepsContract, KnowsOutcome!Spec
=============================================================================
