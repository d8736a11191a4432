-------------------------- MODULE McpClientProofs --------------------------
(***************************************************************************)
(* What a client of the MCP daemon relies on.  For any number of clients   *)
(* and daemons: the startup keeps its types and, as long as no client      *)
(* dies, its lock.  For any number of tool calls and any limit on          *)
(* concurrent ones, what one `mcp run` keeps: its slots, what it says of   *)
(* calls it did not start, and what it says when it ends well.             *)
(***************************************************************************)
EXTENDS McpClient, McpDaemonStart, FiniteSetTheorems, SequenceTheorems, TLAPS

-----------------------------------------------------------------------------
(* The startup of the daemon                                               *)

(* A lock file that c creates is one, and with its pid in it still is.     *)
LEMMA NewLock ==
  ASSUME NEW c \in Clients
  PROVE  /\ [by |-> c, text |-> "empty"] \in [by : Clients, text : {"empty", "pid"}]
         /\ [by |-> c, text |-> "empty"] # Nothing
<1>1. [by |-> c, text |-> "empty"] \in [by : Clients, text : {"empty", "pid"}]
  OBVIOUS
<1> QED
  BY <1>1, McpDaemonStartAssumption

(* The types hold whatever the clients and the daemons do: every action of *)
(* ensureMcpDaemon(), shutdown() and stopMcpDaemon() preserves them.       *)
THEOREM StartTypeCorrect == StartSpec => []StartTypeOK
<1>1. StartInit => StartTypeOK
  BY DEF StartInit, StartTypeOK
<1>2. StartTypeOK /\ [StartNext]_startVars => StartTypeOK'
  <2> SUFFICES ASSUME StartTypeOK, [StartNext]_startVars PROVE StartTypeOK'
    OBVIOUS
  <2> USE McpDaemonStartAssumption DEF StartTypeOK, Goto, Starting
  <2>1. ASSUME NEW c \in Clients, FirstPing(c) PROVE StartTypeOK'
    BY <2>1 DEF FirstPing
  <2>2. ASSUME NEW c \in Clients, OpenLock(c) PROVE StartTypeOK'
    <3>1. CASE lock = Nothing
      <4>1. pc' = [pc EXCEPT ![c] = "opened"] /\ holds' = holds \cup {c}
        BY <2>2, <3>1 DEF OpenLock
      <4>2. lock' \in [by : Clients, text : {"empty", "pid"}]
        BY <2>2, <3>1, NewLock DEF OpenLock
      <4> QED
        BY <2>2, <4>1, <4>2 DEF OpenLock
    <3>2. CASE lock # Nothing
      BY <2>2, <3>2 DEF OpenLock
    <3> QED
      BY <3>1, <3>2
  <2>3. ASSUME NEW c \in Clients, ReadLock(c) PROVE StartTypeOK'
    BY <2>3 DEF ReadLock
  <2>4. ASSUME NEW c \in Clients, BreakLock(c) PROVE StartTypeOK'
    BY <2>4 DEF BreakLock
  <2>5. ASSUME NEW c \in Clients, WritePid(c) PROVE StartTypeOK'
    BY <2>5 DEF WritePid
  <2>6. ASSUME NEW c \in Clients, ClearSocket(c) PROVE StartTypeOK'
    BY <2>6 DEF ClearSocket
  <2>7. ASSUME NEW c \in Clients, Spawn(c) PROVE StartTypeOK'
    BY <2>7 DEF Spawn
  <2>8. ASSUME NEW c \in Clients, SpawnFails(c) PROVE StartTypeOK'
    BY <2>8 DEF SpawnFails
  <2>9. ASSUME NEW c \in Clients, Poll(c) \/ PollExpires(c) PROVE StartTypeOK'
    BY <2>9 DEF Poll, PollExpires
  <2>10. ASSUME NEW c \in Clients, Leave(c) PROVE StartTypeOK'
    BY <2>10 DEF Leave
  <2>11. ASSUME NEW c \in Clients, Crash(c) PROVE StartTypeOK'
    BY <2>11 DEF Crash
  <2>12. ASSUME NEW d \in Daemons, DaemonStep(d) \/ Killed(d) PROVE StartTypeOK'
    BY <2>12 DEF DaemonStep, Clears, Listens, DaemonExits, Killed
  <2>13. CASE Stop
    BY <2>13 DEF Stop, Closes
  <2>14. CASE UNCHANGED startVars
    BY <2>14 DEF startVars
  <2> QED
    BY <2>1, <2>2, <2>3, <2>4, <2>5, <2>6, <2>7, <2>8, <2>9, <2>10, <2>11,
       <2>12, <2>13, <2>14 DEF StartNext, ClientStep
<1> QED
  BY <1>1, <1>2, PTL DEF StartSpec

-----------------------------------------------------------------------------
(* While nobody dies a lock is never taken for stale, so the lock file is  *)
(* there from its creation until its creator removes it.                   *)
NobodyBreaks == \A c \in Clients : pc[c] \notin {"dead", "breaking"}

OpenersHold == \A c \in Clients : pc[c] \in {"opened", "named", "cleared"} => c \in holds

LockHasHolder == lock # Nothing => lock.by \in holds

HoldersOwn == \A c \in holds : lock # Nothing /\ lock.by = c

Locked == NobodyBreaks /\ OpenersHold /\ HoldersOwn /\ LockHasHolder

LockInv == StartTypeOK /\ ("crash" \notin faults => Locked)

(* What goes wrong in an execution is settled when it begins. *)
LEMMA FaultsStay == ASSUME [StartNext]_startVars PROVE faults' = faults
  BY DEF StartNext, startVars, ClientStep, DaemonStep, FirstPing, OpenLock, ReadLock, BreakLock,
     WritePid, ClearSocket, Spawn, SpawnFails, Poll, PollExpires, Leave, Crash, Clears, Listens,
     DaemonExits, Killed, Stop, Closes

(* Locked is inductive if no client process dies. *)
LEMMA LockedStep ==
  ASSUME "crash" \notin faults, StartTypeOK, Locked, StartTypeOK', [StartNext]_startVars
  PROVE  Locked'
<1> USE McpDaemonStartAssumption
    DEF Locked, StartTypeOK, Goto, NobodyBreaks, OpenersHold, HoldersOwn, LockHasHolder
<1>1. ASSUME NEW c \in Clients, FirstPing(c) PROVE Locked'
  BY <1>1 DEF FirstPing
<1>2. ASSUME NEW c \in Clients, OpenLock(c) PROVE Locked'
  <2>1. CASE lock = Nothing
    <3>1. holds = {}
      BY <2>1
    <3>2. holds' = {c} /\ lock' = [by |-> c, text |-> "empty"]
      BY <1>2, <2>1, <3>1 DEF OpenLock
    <3> QED
      <4>1. pc' = [pc EXCEPT ![c] = "opened"]
        BY <1>2, <2>1 DEF OpenLock
      <4>2. lock'.by = c
        BY <3>2
      <4>3. lock' # Nothing /\ HoldersOwn' /\ LockHasHolder'
        BY <3>2, <4>2, NewLock
      <4>4. NobodyBreaks'
        BY <4>1
      <4>5. OpenersHold'
        BY <3>1, <3>2, <4>1
      <4> QED
        BY <4>3, <4>4, <4>5
  <2>2. CASE lock # Nothing
    BY <1>2, <2>2 DEF OpenLock
  <2> QED
    BY <2>1, <2>2
<1>3. ASSUME NEW c \in Clients, ReadLock(c) PROVE Locked'
  <2>1. lock # Nothing => Alive(lock.by)
    BY DEF Alive
  <2>2. pc' = [pc EXCEPT ![c] = "polling"]
    BY <1>3, <2>1 DEF ReadLock
  <2> QED
    BY <1>3, <2>2 DEF ReadLock
<1>4. ASSUME NEW c \in Clients, BreakLock(c) PROVE Locked'
  <2>1. FALSE
    BY <1>4 DEF BreakLock
  <2> QED
    BY <2>1
<1>5. ASSUME NEW c \in Clients, WritePid(c) PROVE Locked'
  <2>1. c \in holds /\ lock # Nothing /\ lock.by = c
    BY <1>5 DEF WritePid
  <2>2. lock' = [lock EXCEPT !.text = "pid"] /\ pc' = [pc EXCEPT ![c] = "named"] /\ holds' = holds
    BY <1>5, <2>1 DEF WritePid
  <2>3. lock \in [by : Clients, text : {"empty", "pid"}]
    BY <2>1
  <2>4. lock'.by = c
    BY <2>1, <2>2, <2>3
  <2>5. lock' # Nothing
    BY <2>2, <2>3
  <2> QED
    BY <2>1, <2>2, <2>4, <2>5
<1>6. ASSUME NEW c \in Clients, ClearSocket(c) \/ Spawn(c) PROVE Locked'
  BY <1>6 DEF ClearSocket, Spawn
<1>7. ASSUME NEW c \in Clients, SpawnFails(c) PROVE Locked'
  <2>1. holds = {c} /\ holds' = {} /\ lock' = Nothing
    BY <1>7 DEF SpawnFails
  <2> QED
    BY <1>7, <2>1 DEF SpawnFails
<1>8. ASSUME NEW c \in Clients, Poll(c) \/ PollExpires(c) PROVE Locked'
  <2>1. pc' \in {[pc EXCEPT ![c] = "ready"], [pc EXCEPT ![c] = "expired"]}
    BY <1>8 DEF Poll, PollExpires
  <2>2. holds' = holds /\ lock' = lock
    BY <1>8 DEF Poll, PollExpires
  <2> QED
    BY <2>1, <2>2
<1>9. ASSUME NEW c \in Clients, Leave(c) PROVE Locked'
  <2>1. CASE c \in holds
    <3>1. holds = {c}
      BY <2>1
    <3>2. holds' = {} /\ lock' = Nothing
      BY <1>9, <3>1 DEF Leave
    <3> QED
      BY <1>9, <3>2 DEF Leave
  <2>2. CASE c \notin holds
    BY <1>9, <2>2 DEF Leave
  <2> QED
    BY <2>1, <2>2
<1>10. ASSUME NEW c \in Clients, Crash(c) PROVE Locked'
  BY <1>10 DEF Crash
<1>11. ASSUME NEW d \in Daemons, DaemonStep(d) \/ Killed(d) PROVE Locked'
  BY <1>11 DEF DaemonStep, Clears, Listens, DaemonExits, Killed
<1>12. CASE Stop
  BY <1>12 DEF Stop, Closes
<1>13. CASE UNCHANGED startVars
  BY <1>13 DEF startVars
<1> QED
  BY <1>1, <1>2, <1>3, <1>4, <1>5, <1>6, <1>7, <1>8, <1>9, <1>10, <1>11,
     <1>12, <1>13 DEF StartNext, ClientStep

(* LockInv is inductive, whatever goes wrong. *)
LEMMA LockKept == StartSpec => []LockInv
<1>1. StartInit => LockInv
  BY DEF StartInit, LockInv, StartTypeOK, Locked, NobodyBreaks, OpenersHold, HoldersOwn, LockHasHolder
<1>2. LockInv /\ StartTypeOK' /\ [StartNext]_startVars => LockInv'
  BY LockedStep, FaultsStay DEF LockInv
<1> QED
  BY <1>1, <1>2, StartTypeCorrect, PTL DEF StartSpec

(* Unless clients die while they start the daemon, whoever created a lock  *)
(* file finds it there and its own until it removes it, so that no two     *)
(* clients spawn at the same time; for any number of clients.              *)
THEOREM LockExclusive == StartSpec => []LockIsExclusive
<1>1. LockInv => LockIsExclusive
  BY DEF LockInv, Locked, HoldersOwn, LockIsExclusive
<1> QED
  BY <1>1, LockKept, PTL

(* Unless clients die, no lock file outlives the calls that create one,    *)
(* be it that the daemon comes up, that the deadline passes or that it     *)
(* cannot be spawned.                                                      *)
THEOREM LockReleased == StartSpec => []LockIsReleased
<1>1. LockInv => LockIsReleased
  BY DEF LockInv, Locked, LockHasHolder, LockIsReleased
<1> QED
  BY <1>1, LockKept, PTL

\* The lock file is there exactly while one client is starting the daemon.
THEOREM LockStandsForStarting == StartSpec => []LockIsKept
BY LockExclusive, LockReleased, PTL DEF LockIsKept

-----------------------------------------------------------------------------
(* While nothing goes wrong, whoever holds the lock starts one daemon and  *)
(* keeps the lock until that daemon answers.                               *)
Coming(d) == daemon[d] \in {"spawned", "binding"}

HoldersStart == \A c \in Clients : pc[c] # "expired" /\ (c \in holds => pc[c] \in Starting)

PathAnswers == path # Nothing => daemon[path] = "up"

NobodyCloses == \A d \in Daemons : daemon[d] # "closing"

OnePending ==
  \A d \in Daemons : Coming(d) =>
    /\ path = Nothing
    /\ \A e \in Daemons : Coming(e) => e = d
    /\ \E c \in holds : pc[c] = "polling"

HoldersExpect ==
  \A c \in holds :
    /\ pc[c] = "cleared" => path = Nothing
    /\ pc[c] = "polling" => path # Nothing \/ \E d \in Daemons : Coming(d)

UnreachedIsReplaced ==
  path = Nothing /\ (\E d \in Daemons : daemon[d] = "up") =>
    \E c \in holds : pc[c] \in {"cleared", "polling"}

Undisturbed == HoldersStart /\ PathAnswers /\ NobodyCloses /\ OnePending /\ HoldersExpect
               /\ UnreachedIsReplaced

ReachInv == faults = {} => Undisturbed

(* Only one client holds the lock, and nothing is pending while it does    *)
(* not poll.                                                               *)
LEMMA HolderIsAlone ==
  ASSUME Locked, Undisturbed, NEW c \in holds
  PROVE  /\ holds = {c}
         /\ pc[c] # "polling" => \A d \in Daemons : ~Coming(d)
BY DEF Locked, HoldersOwn, Undisturbed, OnePending

(* A step of a client that leaves daemons, path and lock alone.            *)
LEMMA BystanderStep ==
  ASSUME StartTypeOK, Undisturbed, NEW c \in Clients, NEW next,
         pc' = [pc EXCEPT ![c] = next], next # "expired",
         c \in holds => /\ next \in Starting
                        /\ next \notin {"cleared", "polling"}
                        /\ pc[c] \notin {"cleared", "polling"},
         UNCHANGED <<holds, path, daemon>>
  PROVE  Undisturbed'
<1>1. /\ pc'[c] = next /\ \A b \in Clients \ {c} : pc'[b] = pc[b]
      /\ \A b \in holds : pc'[b] \in {"cleared", "polling"} \/ pc[b] \in {"cleared", "polling"}
                            => pc'[b] = pc[b]
  BY DEF StartTypeOK
<1>2. HoldersStart'
  BY <1>1 DEF Undisturbed, HoldersStart
<1>3. PathAnswers' /\ NobodyCloses'
  BY DEF Undisturbed, PathAnswers, NobodyCloses
<1>4. OnePending'
  BY <1>1 DEF Undisturbed, OnePending, Coming
<1>5. HoldersExpect'
  BY <1>1 DEF Undisturbed, HoldersExpect, Coming
<1>6. UnreachedIsReplaced'
  BY <1>1 DEF Undisturbed, UnreachedIsReplaced
<1> QED
  BY <1>2, <1>3, <1>4, <1>5, <1>6 DEF Undisturbed

(* Undisturbed is inductive if nothing goes wrong. *)
LEMMA UndisturbedStep ==
  ASSUME faults = {}, StartTypeOK, Locked, Undisturbed, [StartNext]_startVars
  PROVE  Undisturbed'
<1> USE DEF Goto, Starting
<1>1. ASSUME NEW c \in Clients, FirstPing(c) PROVE Undisturbed'
  <2>1. c \notin holds
    BY <1>1 DEF FirstPing, Undisturbed, HoldersStart
  <2> QED
    BY <1>1, <2>1, BystanderStep DEF FirstPing
<1>2. ASSUME NEW c \in Clients, OpenLock(c) PROVE Undisturbed'
  <2>1. c \notin holds
    BY <1>2 DEF OpenLock, Undisturbed, HoldersStart
  <2>2. CASE lock # Nothing
    BY <1>2, <2>1, <2>2, BystanderStep DEF OpenLock
  <2>3. CASE lock = Nothing
    <3>1. /\ holds = {} /\ holds' = {c} /\ UNCHANGED <<path, daemon>>
          /\ pc'[c] = "opened" /\ \A b \in Clients \ {c} : pc'[b] = pc[b]
      BY <1>2, <2>3 DEF OpenLock, Locked, HoldersOwn, StartTypeOK
    <3>2. /\ \A d \in Daemons : ~Coming(d) /\ ~Coming(d)'
          /\ path = Nothing => \A d \in Daemons : daemon[d] # "up"
      BY <3>1 DEF Undisturbed, OnePending, UnreachedIsReplaced, Coming
    <3>3. HoldersStart' /\ HoldersExpect'
      BY <3>1 DEF Undisturbed, HoldersStart, HoldersExpect
    <3>4. PathAnswers' /\ NobodyCloses' /\ OnePending' /\ UnreachedIsReplaced'
      BY <3>1, <3>2
      DEF Undisturbed, PathAnswers, NobodyCloses, OnePending, UnreachedIsReplaced
    <3> QED
      BY <3>3, <3>4 DEF Undisturbed
  <2> QED
    BY <2>2, <2>3
<1>3. ASSUME NEW c \in Clients, ReadLock(c) \/ BreakLock(c) PROVE Undisturbed'
  <2>1. c \notin holds
    BY <1>3 DEF ReadLock, BreakLock, Undisturbed, HoldersStart
  <2> QED
    BY <1>3, <2>1, BystanderStep DEF ReadLock, BreakLock
<1>4. ASSUME NEW c \in Clients, WritePid(c) PROVE Undisturbed'
  BY <1>4, BystanderStep DEF WritePid
<1>5. ASSUME NEW c \in Clients, ClearSocket(c) PROVE Undisturbed'
  <2>1. /\ pc[c] = "named" /\ c \in holds /\ path' = Nothing /\ UNCHANGED <<holds, daemon>>
        /\ pc'[c] = "cleared" /\ \A b \in Clients \ {c} : pc'[b] = pc[b]
    BY <1>5 DEF ClearSocket, Locked, OpenersHold, StartTypeOK
  <2>2. holds = {c} /\ \A d \in Daemons : ~Coming(d) /\ ~Coming(d)'
    BY <2>1, HolderIsAlone DEF Coming
  <2>3. HoldersStart' /\ HoldersExpect'
    BY <2>1, <2>2 DEF Undisturbed, HoldersStart, HoldersExpect
  <2>4. PathAnswers' /\ NobodyCloses' /\ OnePending' /\ UnreachedIsReplaced'
    BY <2>1, <2>2
    DEF Undisturbed, PathAnswers, NobodyCloses, OnePending, UnreachedIsReplaced
  <2> QED
    BY <2>3, <2>4 DEF Undisturbed
<1>6. ASSUME NEW c \in Clients, Spawn(c) PROVE Undisturbed'
  <2>1. PICK d \in Daemons : daemon[d] = "unused" /\ daemon' = [daemon EXCEPT ![d] = "spawned"]
    BY <1>6 DEF Spawn
  <2>2. /\ pc[c] = "cleared" /\ c \in holds /\ UNCHANGED <<holds, path>>
        /\ pc'[c] = "polling" /\ \A b \in Clients \ {c} : pc'[b] = pc[b]
    BY <1>6 DEF Spawn, Locked, OpenersHold, StartTypeOK
  <2>3. holds = {c} /\ path = Nothing /\ \A e \in Daemons : ~Coming(e)
    BY <2>2, HolderIsAlone DEF Undisturbed, HoldersExpect
  <2>4. Coming(d)' /\ \A e \in Daemons \ {d} : daemon'[e] = daemon[e] /\ ~Coming(e)'
    BY <2>1, <2>3 DEF Coming, StartTypeOK
  <2>5. daemon'[d] = "spawned"
    BY <2>1 DEF StartTypeOK
  <2>6. HoldersStart' /\ HoldersExpect'
    BY <2>2, <2>3, <2>4 DEF Undisturbed, HoldersStart, HoldersExpect
  <2>7. PathAnswers' /\ NobodyCloses' /\ OnePending' /\ UnreachedIsReplaced'
    BY <2>2, <2>3, <2>4, <2>5
    DEF Undisturbed, PathAnswers, NobodyCloses, OnePending, UnreachedIsReplaced
  <2> QED
    BY <2>6, <2>7 DEF Undisturbed
<1>7. ASSUME NEW c \in Clients, Poll(c) PROVE Undisturbed'
  <2>1. /\ path # Nothing /\ UNCHANGED <<holds, path, daemon>> /\ holds \subseteq Clients
        /\ pc'[c] = "ready" /\ \A b \in Clients \ {c} : pc'[b] = pc[b]
    BY <1>7 DEF Poll, Answers, StartTypeOK
  <2>2. \A d \in Daemons : ~Coming(d) /\ ~Coming(d)'
    BY <2>1 DEF Undisturbed, OnePending, Coming
  <2>3. HoldersStart' /\ HoldersExpect'
    BY <2>1, <2>2 DEF Undisturbed, HoldersStart, HoldersExpect
  <2>4. PathAnswers' /\ NobodyCloses' /\ OnePending' /\ UnreachedIsReplaced'
    BY <2>1, <2>2
    DEF Undisturbed, PathAnswers, NobodyCloses, OnePending, UnreachedIsReplaced
  <2> QED
    BY <2>3, <2>4 DEF Undisturbed
<1>8. ASSUME NEW c \in Clients, Leave(c) PROVE Undisturbed'
  <2>1. /\ pc[c] = "ready" /\ UNCHANGED <<path, daemon>> /\ holds' = holds \ {c}
        /\ pc'[c] = "idle" /\ \A b \in Clients \ {c} : pc'[b] = pc[b]
    BY <1>8 DEF Leave, Undisturbed, HoldersStart, StartTypeOK
  <2>2. CASE c \notin holds
    BY <1>8, <2>1, <2>2, BystanderStep DEF Leave
  <2>3. CASE c \in holds
    <3>1. holds = {c} /\ holds' = {} /\ \A d \in Daemons : ~Coming(d) /\ ~Coming(d)'
      BY <2>1, <2>3, HolderIsAlone DEF Coming
    <3>2. path = Nothing => \A d \in Daemons : daemon[d] # "up"
      BY <2>1, <3>1 DEF Undisturbed, UnreachedIsReplaced
    <3>3. HoldersStart' /\ HoldersExpect'
      BY <2>1, <3>1 DEF Undisturbed, HoldersStart, HoldersExpect
    <3>4. PathAnswers' /\ NobodyCloses' /\ OnePending' /\ UnreachedIsReplaced'
      BY <2>1, <3>1, <3>2
      DEF Undisturbed, PathAnswers, NobodyCloses, OnePending, UnreachedIsReplaced
    <3> QED
      BY <3>3, <3>4 DEF Undisturbed
  <2> QED
    BY <2>2, <2>3
<1>9. ASSUME NEW d \in Daemons, Clears(d) PROVE Undisturbed'
  <2>1. /\ Coming(d) /\ path = Nothing /\ path' = Nothing /\ UNCHANGED <<pc, holds>>
        /\ daemon'[d] = "binding" /\ \A e \in Daemons \ {d} : daemon'[e] = daemon[e]
    BY <1>9 DEF Clears, Undisturbed, OnePending, Coming, StartTypeOK
  <2>2. \A e \in Daemons : (Coming(e)' <=> Coming(e)) /\ (daemon'[e] = "up" <=> daemon[e] = "up")
    BY <2>1 DEF Coming
  <2>3. HoldersStart' /\ HoldersExpect'
    BY <2>1, <2>2 DEF Undisturbed, HoldersStart, HoldersExpect
  <2>4. PathAnswers' /\ NobodyCloses' /\ OnePending' /\ UnreachedIsReplaced'
    BY <2>1, <2>2
    DEF Undisturbed, PathAnswers, NobodyCloses, OnePending, UnreachedIsReplaced
  <2> QED
    BY <2>3, <2>4 DEF Undisturbed
<1>10. ASSUME NEW d \in Daemons, Listens(d) PROVE Undisturbed'
  <2>1. /\ Coming(d) /\ path = Nothing /\ path' = d /\ UNCHANGED <<pc, holds>>
        /\ daemon'[d] = "up" /\ \A e \in Daemons \ {d} : daemon'[e] = daemon[e]
    BY <1>10 DEF Listens, Undisturbed, OnePending, Coming, StartTypeOK
  <2>2. path' # Nothing /\ \A e \in Daemons : ~Coming(e)'
    BY <2>1, McpDaemonStartAssumption DEF Undisturbed, OnePending, Coming
  <2>3. HoldersStart'
    BY <2>1 DEF Undisturbed, HoldersStart
  <2>4. \A c \in holds : pc[c] # "cleared"
    <3>1. PICK b \in holds : pc[b] = "polling"
      BY <2>1 DEF Undisturbed, OnePending
    <3>2. holds = {b}
      BY <3>1, HolderIsAlone
    <3> QED
      BY <3>1, <3>2
  <2>5. HoldersExpect'
    BY <2>1, <2>2, <2>4 DEF HoldersExpect
  <2>6. PathAnswers' /\ NobodyCloses' /\ OnePending' /\ UnreachedIsReplaced'
    BY <2>1, <2>2
    DEF Undisturbed, PathAnswers, NobodyCloses, OnePending, UnreachedIsReplaced
  <2> QED
    BY <2>3, <2>5, <2>6 DEF Undisturbed
<1>11. ASSUME NEW d \in Daemons, DaemonExits(d) PROVE Undisturbed'
  BY <1>11 DEF DaemonExits, Undisturbed, NobodyCloses
<1>12. ASSUME \/ Stop
              \/ \E c \in Clients : SpawnFails(c) \/ PollExpires(c) \/ Crash(c)
              \/ \E d \in Daemons : Killed(d)
       PROVE  FALSE
  BY <1>12 DEF Stop, SpawnFails, PollExpires, Crash, Killed
<1>13. CASE UNCHANGED startVars
  <2>1. UNCHANGED <<pc, holds, path, daemon>>
    BY <1>13 DEF startVars
  <2>2. HoldersStart' /\ HoldersExpect'
    BY <2>1 DEF Undisturbed, HoldersStart, HoldersExpect, Coming
  <2>3. PathAnswers' /\ NobodyCloses' /\ OnePending' /\ UnreachedIsReplaced'
    BY <2>1
    DEF Undisturbed, PathAnswers, NobodyCloses, OnePending, UnreachedIsReplaced, Coming
  <2> QED
    BY <2>2, <2>3 DEF Undisturbed
<1> QED
  BY <1>1, <1>2, <1>3, <1>4, <1>5, <1>6, <1>7, <1>8, <1>9, <1>10, <1>11,
     <1>12, <1>13 DEF StartNext, ClientStep, DaemonStep

(* With nothing but races between any number of clients, a daemon that was *)
(* started answers at the socket path whenever every call has returned:    *)
(* a client that replaces a daemon it failed to see puts its own there.    *)
THEOREM StartedIsReachable == StartSpec => []DaemonIsReachable
<1>1. StartInit => ReachInv
  BY DEF StartInit, ReachInv, Undisturbed, HoldersStart, PathAnswers, NobodyCloses, OnePending, Coming,
         HoldersExpect, UnreachedIsReplaced
<1>2. LockInv /\ ReachInv /\ [StartNext]_startVars => ReachInv'
  BY UndisturbedStep, FaultsStay DEF LockInv, ReachInv
<1>3. LockInv /\ ReachInv => DaemonIsReachable
  <2> SUFFICES ASSUME LockInv, Undisturbed, \A c \in Clients : pc[c] = "idle",
                      \E d \in Daemons : daemon[d] = "up"
               PROVE  Answers
    BY DEF DaemonIsReachable, ReachInv
  <2>1. holds = {}
    BY DEF LockInv, StartTypeOK, Undisturbed, HoldersStart, Starting
  <2>2. path # Nothing
    BY <2>1 DEF Undisturbed, UnreachedIsReplaced
  <2> QED
    BY <2>2 DEF Undisturbed, PathAnswers, Answers
<1> QED
  BY <1>1, <1>2, <1>3, LockKept, PTL DEF StartSpec

-----------------------------------------------------------------------------
(* One `mcp run`                                                           *)

Phases == {"none", "joining", "opening", "script", "settling", "closing", "ended", "cut", "lost"}

TypeOK ==
  /\ place \in {"daemon", "cli"} /\ phase \in Phases
  /\ worker \in {"none", "alive", "gone"} /\ exit \in Int
  /\ aborted \in BOOLEAN /\ frozen \in BOOLEAN /\ late \in BOOLEAN
  /\ error \in {"none", "returned", "tool", "usage", "failed", "timeout"}
  /\ unsafe \in SUBSET Calls /\ counted \in SUBSET Calls
  /\ stage \in [Calls -> {"unused", "waiting", "granted", "sent", "settled"}]
  /\ outcome \in [Calls -> {"pending", "not_started", "answered", "unknown"}]
  /\ observed \in SUBSET Calls /\ reached \in SUBSET Calls /\ remote \in SUBSET Calls
  /\ waiting \in Seq(Calls) /\ active \in Int /\ cancelled \in BOOLEAN

\* The queue holds calls that wait, each of them once, and none once cancelled.
QueueInv ==
  /\ \A i \in DOMAIN waiting : stage[waiting[i]] = "waiting"
  /\ \A i, j \in DOMAIN waiting : waiting[i] = waiting[j] => i = j
  /\ cancelled => waiting = <<>>

\* A finite number of calls holds a slot: Cardinality counts them.
SlotInv == IsFiniteSet(Holding) /\ SlotsAreKept

\* What is known of a call is said of one that is over, or that was cut off
\* after the main part of the script ended.
Before == {"none", "joining", "opening", "script"}
Early == Before \cup {"settling"}

OutcomeInv ==
  /\ \A c \in Calls :
       /\ outcome[c] \in {"not_started", "answered"} => stage[c] = "settled"
       /\ outcome[c] = "unknown" => phase \notin Early
       /\ c \in reached /\ phase # "lost" => stage[c] \in {"sent", "settled"}
  /\ NotStartedIsTrue

\* The calls that the wait is not for were settled before it began.
CountInv ==
  /\ phase \in Before => error = "none"
  /\ phase = "settling" => \A c \in counted \ unsafe : stage[c] = "settled"
  /\ NothingIsCutOff

\* A try that found no daemon has neither read nor sent anything, and the
\* workflow begins with the request.
ClientInv ==
  /\ client \in {"none", "pinging", "connecting", "supervising", "reading", "sending", "waiting",
                 "ended"}
  /\ client \in {"pinging", "connecting", "supervising", "reading"} =>
       stdin = {} /\ requests = {}
  /\ client \in {"pinging", "connecting", "supervising", "reading", "sending"} =>
       phase = "none" /\ worker = "none"
  /\ InputIsNotLost

WorkflowInv == TypeOK /\ QueueInv /\ SlotInv /\ OutcomeInv /\ CountInv
Inv == WorkflowInv /\ ClientInv

LEMMA InitInv == Init => Inv
<1> SUFFICES ASSUME Init PROVE Inv
  OBVIOUS
<1> USE LimitAssumption DEF Init, InitAs, None
<1>1. TypeOK
  <2>1. waiting \in Seq(Calls)
    BY EmptySeq
  <2>2. phase \in Phases /\ exit \in Int /\ active \in Int
    BY DEF Phases
  <2>3. /\ stage \in [Calls -> {"unused", "waiting", "granted", "sent", "settled"}]
        /\ outcome \in [Calls -> {"pending", "not_started", "answered", "unknown"}]
    OBVIOUS
  <2> QED
    BY <2>1, <2>2, <2>3 DEF TypeOK
<1>2. Holding = {}
  BY DEF Holding
<1>3. SlotInv
  BY <1>2, FS_EmptySet DEF SlotInv, SlotsAreKept
<1>4. QueueInv /\ OutcomeInv /\ CountInv
  BY DEF QueueInv, OutcomeInv, NotStartedIsTrue, CountInv, NothingIsCutOff, Early, Before
<1>5. ClientInv
  BY DEF ClientInv, InputIsNotLost
<1> QED
  BY <1>1, <1>3, <1>4, <1>5 DEF Inv, WorkflowInv

-----------------------------------------------------------------------------
(* The slots                                                               *)

\* The front of the queue waits, and who is behind it is somebody else.
LEMMA HeadWaits ==
  ASSUME TypeOK, QueueInv, waiting # <<>>
  PROVE  /\ Head(waiting) \in Calls /\ stage[Head(waiting)] = "waiting"
         /\ Tail(waiting) \in Seq(Calls)
         /\ \A i \in DOMAIN Tail(waiting) :
              /\ i + 1 \in DOMAIN waiting
              /\ Tail(waiting)[i] = waiting[i + 1]
              /\ Tail(waiting)[i] # Head(waiting)
<1>1. /\ waiting \in Seq(Calls) /\ Len(waiting) \in Nat \ {0}
      /\ 1 \in DOMAIN waiting /\ Head(waiting) = waiting[1]
  BY EmptySeq DEF TypeOK
<1>2. Head(waiting) \in Calls /\ stage[Head(waiting)] = "waiting"
  BY <1>1 DEF QueueInv
<1>3. Tail(waiting) \in Seq(Calls) /\ DOMAIN Tail(waiting) = 1 .. (Len(waiting) - 1)
  BY <1>1
<1>4. ASSUME NEW i \in DOMAIN Tail(waiting)
      PROVE  /\ i + 1 \in DOMAIN waiting
             /\ Tail(waiting)[i] = waiting[i + 1]
             /\ Tail(waiting)[i] # Head(waiting)
  BY <1>1, <1>3 DEF QueueInv
<1> QED
  BY <1>2, <1>3, <1>4

\* Finish() passes the slot of a call on or gives it back.
LEMMA FinishKeepsSlots ==
  ASSUME TypeOK, QueueInv, SlotInv,
         NEW c \in Calls, stage[c] \in {"granted", "sent"},
         NEW how \in {"answered", "not_started"}, Finish(c, how)
  PROVE  /\ QueueInv' /\ SlotInv'
         /\ stage' \in [Calls -> {"unused", "waiting", "granted", "sent", "settled"}]
         /\ outcome' \in [Calls -> {"pending", "not_started", "answered", "unknown"}]
         /\ waiting' \in Seq(Calls) /\ active' \in Int /\ cancelled' \in BOOLEAN
         /\ outcome' = [outcome EXCEPT ![c] = how] /\ stage'[c] = "settled"
         /\ \A d \in Calls \ {c} :
              \/ stage'[d] = stage[d]
              \/ stage[d] = "waiting" /\ stage'[d] = "granted"
<1>1. outcome' = [outcome EXCEPT ![c] = how] /\ cancelled' = cancelled
  BY DEF Finish
<1>2. IsFiniteSet(Holding) /\ active = Cardinality(Holding) /\ c \in Holding
  BY DEF SlotInv, SlotsAreKept, Holding
<1>3. IsFiniteSet(Holding \ {c}) /\ Cardinality(Holding \ {c}) = active - 1
  BY <1>2, FS_RemoveElement
<1>4. CASE waiting # <<>> /\ ~cancelled
  <2> DEFINE h == Head(waiting)
  <2>1. /\ stage' = [stage EXCEPT ![c] = "settled", ![h] = "granted"]
        /\ waiting' = Tail(waiting) /\ active' = active
    BY <1>4 DEF Finish
  <2>2. h \in Calls /\ stage[h] = "waiting" /\ h # c
    BY <1>4, HeadWaits
  <2> HIDE DEF h
  <2>3. Holding' = (Holding \ {c}) \cup {h} /\ h \notin Holding \ {c}
    BY <2>1, <2>2 DEF TypeOK, Holding
  <2>4. IsFiniteSet(Holding') /\ Cardinality(Holding') = active
    BY <1>2, <1>3, <2>2, <2>3, FS_AddElement, FS_CardinalityType
  <2>5. SlotInv'
    BY <1>4, <2>1, <2>4 DEF SlotInv, SlotsAreKept
  <2>6. QueueInv'
    <3>1. \A i \in DOMAIN waiting' :
            /\ i + 1 \in DOMAIN waiting /\ i \in Nat
            /\ waiting'[i] = waiting[i + 1] /\ waiting'[i] # h /\ waiting'[i] \in Calls
      BY <1>4, <2>1, HeadWaits DEF h, TypeOK
    <3>2. \A i \in DOMAIN waiting' : stage'[waiting'[i]] = "waiting"
      BY <2>1, <2>2, <3>1 DEF QueueInv, TypeOK
    <3>3. \A i, j \in DOMAIN waiting' : waiting'[i] = waiting'[j] => i = j
      BY <3>1 DEF QueueInv
    <3> QED
      BY <1>1, <1>4, <3>2, <3>3 DEF QueueInv
  <2>7. waiting' \in Seq(Calls) /\ active' \in Int /\ cancelled' \in BOOLEAN
    BY <1>1, <1>4, <2>1, HeadWaits DEF TypeOK
  <2>8. /\ stage' \in [Calls -> {"unused", "waiting", "granted", "sent", "settled"}]
        /\ stage'[c] = "settled"
        /\ \A d \in Calls \ {c} :
             \/ stage'[d] = stage[d]
             \/ stage[d] = "waiting" /\ stage'[d] = "granted"
    BY <2>1, <2>2 DEF TypeOK
  <2> QED
    BY <1>1, <2>5, <2>6, <2>7, <2>8 DEF TypeOK
<1>5. CASE ~(waiting # <<>> /\ ~cancelled)
  <2>1. /\ stage' = [stage EXCEPT ![c] = "settled"]
        /\ waiting' = waiting /\ active' = active - 1 /\ waiting = <<>>
    BY <1>5 DEF Finish, QueueInv
  <2>2. Holding' = Holding \ {c}
    BY <2>1 DEF Holding, TypeOK
  <2>3. SlotInv'
    BY <1>3, <2>1, <2>2, LimitAssumption DEF SlotInv, SlotsAreKept, TypeOK
  <2>4. QueueInv'
    <3>1. DOMAIN waiting' = {}
      BY <2>1
    <3> QED
      BY <2>1, <3>1 DEF QueueInv
  <2>5. waiting' \in Seq(Calls) /\ active' \in Int /\ cancelled' \in BOOLEAN
    BY <1>1, <2>1 DEF TypeOK
  <2>6. /\ stage' \in [Calls -> {"unused", "waiting", "granted", "sent", "settled"}]
        /\ stage'[c] = "settled"
        /\ \A d \in Calls \ {c} : stage'[d] = stage[d]
    BY <2>1 DEF TypeOK
  <2> QED
    BY <1>1, <2>3, <2>4, <2>5, <2>6 DEF TypeOK
<1> QED
  BY <1>4, <1>5
-----------------------------------------------------------------------------
(* The workflow                                                            *)

\* A call is made: it settles at once, takes a free slot or queues up.
LEMMA IssueKeeps == ASSUME WorkflowInv, phase # "lost", NEW c \in Calls, Issue(c) PROVE WorkflowInv'
<1> USE DEF WorkflowInv, TypeOK, OutcomeInv, NotStartedIsTrue, CountInv, NothingIsCutOff,
            Before
<1>1. /\ stage[c] = "unused" /\ phase \notin {"none", "joining", "opening"}
      /\ \E how \in {"settled", "granted", "waiting"} : stage' = [stage EXCEPT ![c] = how]
      /\ observed' \in SUBSET Calls
      /\ UNCHANGED <<place, phase, worker, aborted, exit, frozen, late, error, unsafe, counted,
                     reached, remote, cancelled>>
  BY DEF Issue, hostVars, scriptVars, queueVars
<1>2. CASE /\ cancelled /\ UNCHANGED <<waiting, active>>
           /\ stage' = [stage EXCEPT ![c] = "settled"]
           /\ outcome' = [outcome EXCEPT ![c] = "not_started"]
  <2>1. Holding' = Holding /\ c \notin Holding
    BY <1>1, <1>2 DEF Holding
  <2>2. QueueInv'
    BY <1>1, <1>2 DEF QueueInv
  <2>3. SlotInv'
    BY <1>2, <2>1 DEF SlotInv, SlotsAreKept
  <2>4. OutcomeInv' /\ CountInv'
    BY <1>1, <1>2
  <2> QED
    BY <1>1, <1>2, <2>2, <2>3, <2>4
<1>3. CASE /\ active < Limit /\ active' = active + 1 /\ UNCHANGED <<outcome, waiting>>
           /\ stage' = [stage EXCEPT ![c] = "granted"]
  <2>1. Holding' = Holding \cup {c} /\ c \notin Holding
    BY <1>1, <1>3 DEF Holding
  <2>2. QueueInv'
    BY <1>1, <1>3 DEF QueueInv
  <2>3. SlotInv'
    BY <1>3, <2>1, LimitAssumption, FS_AddElement DEF SlotInv, SlotsAreKept
  <2>4. OutcomeInv' /\ CountInv'
    BY <1>1, <1>3
  <2> QED
    BY <1>1, <1>3, <2>2, <2>3, <2>4
<1>4. CASE /\ ~cancelled /\ active >= Limit /\ waiting' = Append(waiting, c)
           /\ UNCHANGED <<outcome, active>>
           /\ stage' = [stage EXCEPT ![c] = "waiting"]
  <2>1. Holding' = Holding
    BY <1>1, <1>4 DEF Holding
  <2>2. /\ waiting' \in Seq(Calls) /\ DOMAIN waiting = 1 .. Len(waiting) /\ Len(waiting) \in Nat
        /\ DOMAIN waiting' = 1 .. (Len(waiting) + 1)
        /\ \A i \in 1 .. Len(waiting) : waiting'[i] = waiting[i] /\ waiting[i] # c
        /\ waiting'[Len(waiting) + 1] = c
    BY <1>1, <1>4 DEF QueueInv
  <2>3. QueueInv'
    BY <1>1, <1>4, <2>2 DEF QueueInv
  <2>4. SlotInv'
    BY <1>4, <2>1, LimitAssumption DEF SlotInv, SlotsAreKept
  <2>5. OutcomeInv' /\ CountInv'
    BY <1>1, <1>4
  <2> QED
    BY <1>1, <1>4, <2>2, <2>3, <2>4, <2>5
<1> QED
  BY <1>1, <1>2, <1>3, <1>4 DEF Issue, queueVars

\* A call takes its slot, or gives it back.
LEMMA FinishKeeps ==
  ASSUME WorkflowInv, NEW c \in Calls, NEW how \in {"answered", "not_started"},
         \/ stage[c] = "granted"
         \/ stage[c] = "sent" /\ how = "answered",
         phase # "lost", Finish(c, how),
         UNCHANGED <<hostVars, scriptVars, observed, reached>>, remote' \in SUBSET Calls
  PROVE  WorkflowInv'
<1> USE DEF WorkflowInv, hostVars, scriptVars
<1>1. /\ QueueInv' /\ SlotInv' /\ TypeOK'
      /\ outcome' = [outcome EXCEPT ![c] = how] /\ stage'[c] = "settled"
      /\ \A d \in Calls \ {c} :
           \/ stage'[d] = stage[d]
           \/ stage[d] = "waiting" /\ stage'[d] = "granted"
  BY FinishKeepsSlots DEF TypeOK
<1>2. OutcomeInv'
  BY <1>1 DEF OutcomeInv, NotStartedIsTrue, TypeOK
<1>3. CountInv'
  BY <1>1 DEF CountInv, NothingIsCutOff, Before, TypeOK
<1> QED
  BY <1>1, <1>2, <1>3

LEMMA StartKeeps == ASSUME WorkflowInv, phase # "lost", NEW c \in Calls, Start(c) PROVE WorkflowInv'
<1>1. CASE late
  <2>1. /\ stage[c] = "granted" /\ Finish(c, "not_started")
        /\ UNCHANGED <<hostVars, scriptVars, observed, reached>> /\ remote' \in SUBSET Calls
    BY <1>1 DEF Start, WorkflowInv, TypeOK
  <2> QED
    BY <2>1, FinishKeeps
<1>2. CASE ~late
  <2> USE DEF WorkflowInv, TypeOK, hostVars, scriptVars, queueVars
  <2>1. stage[c] = "granted" /\ stage' = [stage EXCEPT ![c] = "sent"]
    BY <1>2 DEF Start
  <2>2. UNCHANGED <<hostVars, scriptVars, outcome, observed, reached, remote, queueVars>>
    BY <1>2 DEF Start
  <2>3. Holding' = Holding
    BY <2>1 DEF Holding
  <2>4. SlotInv' /\ QueueInv'
    BY <2>1, <2>2, <2>3 DEF SlotInv, SlotsAreKept, QueueInv
  <2>5. OutcomeInv' /\ CountInv'
    BY <2>1, <2>2 DEF OutcomeInv, NotStartedIsTrue, CountInv, NothingIsCutOff, Before
  <2> QED
    BY <2>1, <2>2, <2>4, <2>5
<1> QED
  BY <1>1, <1>2

LEMMA SettleKeeps == ASSUME WorkflowInv, phase # "lost", NEW c \in Calls, Settle(c) PROVE WorkflowInv'
<1>1. /\ stage[c] = "sent" /\ Finish(c, "answered")
      /\ UNCHANGED <<hostVars, scriptVars, observed, reached>> /\ remote' \in SUBSET Calls
  BY DEF Settle, WorkflowInv, TypeOK
<1> QED
  BY <1>1, FinishKeeps

\* A step that leaves the calls, the queue and what was counted alone.
LEMMA HostKeeps ==
  ASSUME WorkflowInv, phase # "lost", TypeOK',
         UNCHANGED <<stage, outcome, counted, unsafe, queueVars>>,
         \A c \in reached' \ reached : stage[c] = "sent",
         \/ phase' = phase
         \/ phase \in Before /\ phase' \in Before
         \/ phase' \in {"ended", "cut"},
         phase' \in Before => error' = error,
         phase' \in {"closing", "ended"} /\ error' \in {"returned", "tool"} =>
           phase \in {"closing", "ended"} /\ error' = error
  PROVE  WorkflowInv'
<1> USE DEF WorkflowInv, queueVars
<1>1. Holding' = Holding
  BY DEF Holding
<1>2. QueueInv' /\ SlotInv'
  BY <1>1 DEF QueueInv, SlotInv, SlotsAreKept
<1>3. OutcomeInv'
  BY DEF OutcomeInv, NotStartedIsTrue, TypeOK, Early, Before
<1>4. CountInv'
  BY DEF CountInv, NothingIsCutOff, Before
<1> QED
  BY <1>2, <1>3, <1>4

\* The main part of the script ends.
LEMMA ScriptEndsKeeps ==
  ASSUME WorkflowInv, NEW how \in {"returned", "tool", "usage", "failed"}, ScriptEnds(how)
  PROVE  WorkflowInv'
<1> USE DEF WorkflowInv
<1> DEFINE calls == {c \in Made : Unawaited(c)}
<1>1. /\ phase = "script" /\ counted' = Made
      /\ UNCHANGED <<place, worker, aborted, exit, frozen, late, stage, observed, reached, remote,
                     waiting, active, cancelled>>
  BY DEF ScriptEnds, queueVars
<1>2. /\ error' \in {"returned", "tool", "usage", "failed"}
      /\ unsafe' \in SUBSET Calls
      /\ \/ calls = {} /\ phase' = "closing" /\ outcome' = outcome
         \/ phase' = "settling" /\ unsafe' = calls /\ outcome' = outcome
         \/ /\ phase' = "closing" /\ error' = "usage"
            /\ outcome' = [c \in Calls |-> IF c \in calls /\ Pending(c) THEN "unknown"
                                          ELSE outcome[c]]
  <2>1. \A c \in calls : Unawaited(c)
    OBVIOUS
  <2>2. calls \in SUBSET Calls
    BY DEF Made
  <2>3. calls # {} => \E c \in calls : Unawaited(c)
    BY <2>1
  <2> QED
    BY <2>2, <2>3 DEF ScriptEnds, Judge, TypeOK
<1>3. \A c \in Made \ calls : stage[c] = "settled"
  BY <1>1 DEF Made, Unawaited, Pending, OutcomeInv, TypeOK, Early, Before
<1> HIDE DEF calls
<1>4. Holding' = Holding /\ Made \in SUBSET Calls
  BY <1>1 DEF Holding, Made
<1>5. TypeOK' /\ QueueInv' /\ SlotInv'
  BY <1>1, <1>2, <1>4 DEF QueueInv, SlotInv, SlotsAreKept, TypeOK, Phases
<1>6. OutcomeInv'
  BY <1>1, <1>2 DEF OutcomeInv, NotStartedIsTrue, TypeOK, Early, Before, Pending
<1>7. CountInv'
  BY <1>1, <1>2, <1>3 DEF CountInv, NothingIsCutOff, Before
<1> QED
  BY <1>5, <1>6, <1>7

\* The wait for the calls that it left is over.
LEMMA SettleEndsKeeps == ASSUME WorkflowInv, SettleEnds PROVE WorkflowInv'
<1> USE DEF WorkflowInv
<1>1. /\ phase = "settling" /\ phase' = "closing" /\ unsafe' = {}
      /\ outcome' = [c \in Calls |-> IF c \in unsafe /\ Pending(c) THEN "unknown" ELSE outcome[c]]
      /\ error' = IF error = "tool" /\ ~\E c \in unsafe : Unawaited(c) THEN "tool" ELSE "usage"
      /\ UNCHANGED <<place, worker, aborted, exit, frozen, late, counted, stage,
                     observed, reached, remote, waiting, active, cancelled>>
  BY DEF SettleEnds, Judge, queueVars
<1>2. Holding' = Holding
  BY <1>1 DEF Holding
<1>3. TypeOK' /\ QueueInv' /\ SlotInv'
  BY <1>1, <1>2 DEF QueueInv, SlotInv, SlotsAreKept, TypeOK, Phases
<1>4. OutcomeInv'
  BY <1>1 DEF OutcomeInv, NotStartedIsTrue, TypeOK, Early, Before, Pending
<1>5. (~\E c \in unsafe : Unawaited(c)) => \A c \in counted : stage[c] = "settled"
  BY <1>1 DEF Unawaited, Pending, OutcomeInv, CountInv, TypeOK, Early, Before
<1>6. CountInv'
  BY <1>1, <1>5 DEF CountInv, NothingIsCutOff, Before
<1> QED
  BY <1>3, <1>4, <1>6

\* The deadline cuts the workflow off.
LEMMA TimeoutKeeps == ASSUME WorkflowInv, Timeout PROVE WorkflowInv'
<1> USE DEF WorkflowInv
<1>1. /\ phase = "script" /\ phase' = "closing" /\ error' = "timeout"
      /\ waiting' = <<>> /\ cancelled' = TRUE /\ counted' = Made
      /\ stage' = [c \in Calls |-> IF stage[c] = "waiting" THEN "settled" ELSE stage[c]]
      /\ outcome' = [c \in Calls |->
           CASE stage[c] = "waiting" -> "not_started"
             [] stage[c] = "sent" /\ Pending(c) -> "unknown"
             [] OTHER -> outcome[c]]
      /\ UNCHANGED <<place, worker, aborted, exit, frozen, late, unsafe, observed, reached,
                     remote, active>>
  BY DEF Timeout
<1>2. Holding' = Holding /\ Made \in SUBSET Calls /\ waiting' \in Seq(Calls)
  BY <1>1, EmptySeq DEF Holding, Made, TypeOK
<1>3. TypeOK'
  BY <1>1, <1>2 DEF TypeOK, Phases
<1>4. DOMAIN waiting' = {}
  BY <1>1
<1>5. QueueInv' /\ SlotInv'
  BY <1>1, <1>2, <1>4 DEF QueueInv, SlotInv, SlotsAreKept
<1>6. OutcomeInv'
  BY <1>1 DEF OutcomeInv, NotStartedIsTrue, TypeOK, Early, Before, Pending
<1>7. CountInv'
  BY <1>1 DEF CountInv, NothingIsCutOff, Before
<1> QED
  BY <1>3, <1>5, <1>6, <1>7

\* What the script does.
LEMMA ScriptKeeps == ASSUME WorkflowInv, phase # "lost", Script PROVE WorkflowInv'
<1>1. ASSUME NEW c \in Calls, Issue(c) PROVE WorkflowInv'
  BY <1>1, IssueKeeps
<1>2. ASSUME NEW how \in {"returned", "tool", "usage", "failed"}, ScriptEnds(how)
      PROVE  WorkflowInv'
  BY <1>2, ScriptEndsKeeps
<1>3. ASSUME Freeze \/ ProcessEnds PROVE WorkflowInv'
  <2>1. TypeOK' /\ UNCHANGED <<phase, error, reached, stage, outcome, counted, unsafe, queueVars>>
    BY <1>3 DEF Freeze, ProcessEnds, WorkflowInv, TypeOK, hostVars, scriptVars, callVars, queueVars
  <2> QED
    BY <2>1, HostKeeps DEF Before
<1> QED
  BY <1>1, <1>2, <1>3 DEF Script

\* What the loops, the timers, the server and the daemon do.
LEMMA ProgressKeeps == ASSUME WorkflowInv, phase # "lost", Progress PROVE WorkflowInv'
<1> USE DEF TypeOK, hostVars, scriptVars, callVars, queueVars
<1>1. ASSUME NEW c \in Calls, Start(c) \/ Settle(c) PROVE WorkflowInv'
  BY <1>1, StartKeeps, SettleKeeps
<1>2. ASSUME NEW c \in Calls, Reach(c) \/ RemoteEnds(c) PROVE WorkflowInv'
  <2>1. TypeOK' /\ UNCHANGED <<phase, error, stage, outcome, counted, unsafe, queueVars>>
    BY <1>2 DEF Reach, RemoteEnds, WorkflowInv
  <2>2. \A d \in reached' \ reached : stage[d] = "sent"
    BY <1>2 DEF Reach, RemoteEnds
  <2> QED
    BY <2>1, <2>2, HostKeeps DEF Before
<1>3. ASSUME SettleEnds \/ Timeout PROVE WorkflowInv'
  BY <1>3, SettleEndsKeeps, TimeoutKeeps
<1>4. ASSUME Close PROVE WorkflowInv'
  <2>1. TypeOK'
    BY <1>4 DEF Close, Code, WorkflowInv, Phases
  <2>2. /\ phase = "closing" /\ phase' = "ended"
        /\ error' = error \/ error' = "failed"
        /\ UNCHANGED <<reached, stage, outcome, counted, unsafe, queueVars>>
    BY <1>4 DEF Close
  <2> QED
    BY <2>1, <2>2, HostKeeps DEF Before
<1>5. ASSUME Joined \/ Opened PROVE WorkflowInv'
  <2>1. /\ phase \in {"joining", "opening"} /\ phase' \in {"opening", "script", "ended"}
        /\ TypeOK'
        /\ UNCHANGED <<error, reached, stage, outcome, counted, unsafe, queueVars>>
    BY <1>5 DEF Joined, Opened, Respond, WorkflowInv, Phases, None
  <2> QED
    BY <2>1, HostKeeps DEF WorkflowInv, CountInv, Before
<1>6. ASSUME Complete PROVE WorkflowInv'
  <2>1. TypeOK' /\ UNCHANGED <<phase, error, reached, stage, outcome, counted, unsafe, queueVars>>
    BY <1>6 DEF Complete, Respond, Code, WorkflowInv
  <2> QED
    BY <2>1, HostKeeps DEF Before
<1>7. ASSUME WorkerExits PROVE WorkflowInv'
  <2>1. TypeOK' /\ phase' = "cut" /\ UNCHANGED <<reached, stage, outcome, counted, unsafe, queueVars>>
    BY <1>7 DEF WorkerExits, Respond, WorkflowInv, Phases
  <2> QED
    BY <2>1, HostKeeps DEF Before
<1> QED
  BY <1>1, <1>2, <1>3, <1>4, <1>5, <1>6, <1>7 DEF Progress

\* The deadline passes, a watchdog kills, or the request is aborted.
LEMMA CutKeeps ==
  ASSUME WorkflowInv, phase # "lost", DeadlinePasses \/ Kill \/ Abort
  PROVE  WorkflowInv' /\ phase' = phase
<1>1. UNCHANGED <<place, error, reached, stage, outcome, counted, unsafe, queueVars>>
  BY DEF DeadlinePasses, Kill, Abort, scriptVars, callVars, hostVars
<1>2. TypeOK'
  <2> USE DEF WorkflowInv, TypeOK, hostVars, scriptVars, callVars, queueVars
  <2>1. CASE DeadlinePasses
    BY <2>1 DEF DeadlinePasses
  <2>2. CASE Kill
    BY <2>2 DEF Kill
  <2>3. CASE Abort
    BY <2>3 DEF Abort
  <2> QED
    BY <2>1, <2>2, <2>3
<1>3. phase' = phase
  BY DEF DeadlinePasses, Kill, Abort, hostVars
<1> QED
  BY <1>1, <1>2, <1>3, HostKeeps

-----------------------------------------------------------------------------
(* The command                                                             *)

\* From "none" the workflow goes nowhere by itself.
LEMMA NoneStays ==
  ASSUME WorkflowInv, phase = "none", worker = "none",
         Script \/ Progress \/ DeadlinePasses \/ Kill \/ (place = "cli" /\ Abort)
  PROVE  phase' = "none" /\ worker' = "none"
<1> USE DEF WorkflowInv, Turn, Runs
<1>1. ASSUME Script PROVE phase' = "none" /\ worker' = "none"
  BY <1>1 DEF Script, Issue, ScriptEnds, Freeze, ProcessEnds
<1>2. ASSUME Progress PROVE phase' = "none" /\ worker' = "none"
  <2>1. \A c \in Calls : Start(c) => FALSE
    BY DEF Start
  <2>2. \A c \in Calls : Reach(c) \/ RemoteEnds(c) => phase' = "none" /\ worker' = "none"
    BY DEF Reach, RemoteEnds, hostVars
  <2>3. \A c \in Calls : Settle(c) => FALSE
    BY DEF Settle
  <2>4. ~SettleEnds /\ ~Timeout /\ ~Close /\ ~Joined /\ ~Opened /\ ~Complete /\ ~WorkerExits
    BY DEF SettleEnds, Timeout, Close, Joined, Opened, Complete, WorkerExits
  <2> QED
    BY <1>2, <2>1, <2>2, <2>3, <2>4 DEF Progress
<1>3. ASSUME DeadlinePasses \/ Kill \/ Abort PROVE phase' = "none" /\ worker' = "none"
  BY <1>3 DEF DeadlinePasses, Kill, Abort
<1> QED
  BY <1>1, <1>2, <1>3

LEMMA WorkflowStepKeeps == ASSUME Inv, Workflow PROVE Inv'
<1>1. phase # "lost" /\ UNCHANGED clientVars
  BY DEF Workflow
<1>2. WorkflowInv'
  BY <1>1, ScriptKeeps, ProgressKeeps, CutKeeps DEF Workflow, Inv
<1>3. phase = "none" /\ worker = "none" => phase' = "none" /\ worker' = "none"
  BY NoneStays DEF Workflow, Inv
<1>4. ClientInv'
  BY <1>1, <1>3 DEF Inv, ClientInv, InputIsNotLost, clientVars
<1> QED
  BY <1>2, <1>4 DEF Inv

\* A step that leaves the workflow alone keeps what holds of it.
LEMMA StillKeeps == ASSUME WorkflowInv, UNCHANGED workflowVars PROVE WorkflowInv'
<1>1. UNCHANGED <<place, phase, worker, aborted, exit, frozen, late, error, unsafe, counted, stage,
                  observed, outcome, reached, remote, waiting, active, cancelled>>
  BY DEF workflowVars, hostVars, scriptVars, callVars, queueVars
<1>2. TypeOK' /\ QueueInv'
  BY <1>1 DEF WorkflowInv, TypeOK, QueueInv
<1>3. SlotInv'
  BY <1>1 DEF WorkflowInv, SlotInv, SlotsAreKept, Holding
<1>4. OutcomeInv' /\ CountInv'
  BY <1>1 DEF WorkflowInv, OutcomeInv, NotStartedIsTrue, CountInv, NothingIsCutOff
<1> QED
  BY <1>2, <1>3, <1>4 DEF WorkflowInv

LEMMA SendKeeps == ASSUME Inv, Send PROVE Inv'
<1>1. CASE /\ client' = "waiting" /\ requests' = requests \cup {tries} /\ phase' = "joining"
           /\ UNCHANGED <<place, worker, aborted, exit>>
  <2>1. phase = "none"
    BY DEF Send, Inv, ClientInv
  <2>2. TypeOK'
    BY <1>1 DEF Send, Inv, WorkflowInv, TypeOK, Phases, scriptVars, callVars, queueVars
  <2>3. UNCHANGED <<error, reached, stage, outcome, counted, unsafe, queueVars>>
    BY DEF Send, scriptVars, callVars
  <2>4. WorkflowInv'
    BY <1>1, <2>1, <2>2, <2>3, HostKeeps DEF Before, Inv
  <2>5. ClientInv'
    BY <1>1 DEF Send, Keep, Inv, ClientInv, InputIsNotLost
  <2> QED
    BY <2>4, <2>5 DEF Inv
<1>2. CASE Exits(1) /\ UNCHANGED <<requests, hostVars>>
  <2>1. WorkflowInv'
    BY <1>2, StillKeeps DEF Send, Inv, workflowVars
  <2>2. ClientInv'
    BY <1>2 DEF Send, Keep, Exits, Inv, ClientInv, InputIsNotLost
  <2> QED
    BY <2>1, <2>2 DEF Inv
<1> QED
  BY <1>1, <1>2 DEF Send

LEMMA ClientKeeps == ASSUME Inv, Client \/ Interrupt \/ BreakPipe \/ CancelIsLate PROVE Inv'
<1> USE DEF Keep, Exits, Ends, ClientInv, InputIsNotLost, Inv
<1>1. ASSUME Ping \/ Connect PROVE Inv'
  <2>1. WorkflowInv'
    BY <1>1, StillKeeps DEF Ping, Connect
  <2>2. ClientInv'
    BY <1>1 DEF Ping, Connect, workflowVars, hostVars
  <2> QED
    BY <2>1, <2>2
<1>2. ASSUME ReadStdin \/ Supervise \/ Receive \/ Interrupt \/ BreakPipe \/ CancelIsLate PROVE Inv'
  <2>1. WorkflowInv'
    BY <1>2, StillKeeps DEF ReadStdin, Supervise, Receive, Interrupt, BreakPipe, CancelIsLate
  <2>2. UNCHANGED <<phase, worker>>
    BY <1>2 DEF ReadStdin, Supervise, Receive, Interrupt, BreakPipe, CancelIsLate,
                workflowVars, hostVars
  <2>3. ClientInv'
    BY <1>2, <2>2 DEF ReadStdin, Supervise, Receive, Interrupt, BreakPipe, CancelIsLate
  <2> QED
    BY <2>1, <2>3
<1>3. ASSUME Send PROVE Inv'
  BY <1>3, SendKeeps
<1> QED
  BY <1>1, <1>2, <1>3 DEF Client

\* The daemon's side: a cancel request, and the end of its process.
LEMMA CancelledKeeps == ASSUME Inv, Cancelled PROVE Inv'
<1>1. CASE phase # "lost"
  <2>1. WorkflowInv' /\ phase' = phase
    BY <1>1, CutKeeps DEF Cancelled, Inv
  <2>2. ClientInv'
    BY <2>1 DEF Cancelled, Inv, ClientInv, InputIsNotLost
  <2> QED
    BY <2>1, <2>2 DEF Inv
<1>2. CASE phase = "lost"
  <2>1. TypeOK'
    BY DEF Cancelled, Abort, Inv, WorkflowInv, TypeOK, scriptVars, callVars, queueVars
  <2>2. UNCHANGED <<phase, error, reached, stage, outcome, counted, unsafe, queueVars>>
    BY DEF Cancelled, Abort, scriptVars, callVars
  <2>3. Holding' = Holding
    BY <2>2 DEF Holding
  <2>4. WorkflowInv'
    BY <1>2, <2>1, <2>2, <2>3
    DEF Inv, WorkflowInv, QueueInv, SlotInv, SlotsAreKept, OutcomeInv, NotStartedIsTrue,
        CountInv, NothingIsCutOff, queueVars
  <2>5. ClientInv'
    BY <2>2 DEF Cancelled, Abort, Inv, ClientInv, InputIsNotLost
  <2> QED
    BY <2>4, <2>5 DEF Inv
<1> QED
  BY <1>1, <1>2

LEMMA DaemonDiesKeeps == ASSUME Inv, DaemonDies PROVE Inv'
<1>1. CASE exit = None /\ phase # "none"
  <2>1. /\ phase' = "lost" /\ worker' = "gone" /\ Forgotten /\ UNCHANGED <<place, exit, reached>>
        /\ UNCHANGED <<client, tries, stdin, requests>>
    BY <1>1 DEF DaemonDies
  <2>2. waiting' \in Seq(Calls) /\ DOMAIN waiting' = {} /\ waiting' = <<>>
    BY <2>1, EmptySeq DEF Forgotten
  <2>3. TypeOK' /\ QueueInv'
    <3>1. /\ stage' \in [Calls -> {"unused", "waiting", "granted", "sent", "settled"}]
          /\ outcome' \in [Calls -> {"pending", "not_started", "answered", "unknown"}]
      BY <2>1 DEF Forgotten
    <3>2. /\ place' = place /\ exit' = exit /\ reached' = reached
          /\ phase' \in Phases /\ active' \in Int
      BY <2>1 DEF Forgotten, Phases
    <3>3. TypeOK'
      BY <2>1, <2>2, <3>1, <3>2 DEF Forgotten, Inv, WorkflowInv, TypeOK
    <3> QED
      BY <2>2, <3>3 DEF QueueInv
  <2>4. Holding' = {} /\ active' = 0
    BY <2>1 DEF Forgotten, Holding
  <2>5. SlotInv'
    BY <2>2, <2>4, FS_EmptySet, LimitAssumption DEF SlotInv, SlotsAreKept
  <2>6. OutcomeInv' /\ CountInv'
    BY <2>1 DEF Forgotten, OutcomeInv, NotStartedIsTrue, CountInv, NothingIsCutOff,
                Inv, WorkflowInv, TypeOK, Early, Before
  <2>7. ClientInv'
    BY <1>1, <2>1 DEF Inv, ClientInv, InputIsNotLost
  <2> QED
    BY <2>3, <2>5, <2>6, <2>7 DEF Inv, WorkflowInv
<1>2. CASE ~(exit = None /\ phase # "none")
  <2>1. UNCHANGED workflowVars /\ UNCHANGED <<client, tries, stdin, requests>>
    BY <1>2 DEF DaemonDies
  <2>2. WorkflowInv'
    BY <2>1, StillKeeps DEF Inv
  <2>3. ClientInv'
    BY <2>1 DEF Inv, ClientInv, InputIsNotLost, workflowVars, hostVars
  <2> QED
    BY <2>2, <2>3 DEF Inv
<1> QED
  BY <1>1, <1>2

LEMMA NextInv == Inv /\ [Next]_vars => Inv'
<1> SUFFICES ASSUME Inv, [Next]_vars PROVE Inv'
  OBVIOUS
<1>1. CASE UNCHANGED vars
  <2>1. WorkflowInv'
    BY <1>1, StillKeeps DEF Inv, vars
  <2>2. ClientInv'
    BY <1>1 DEF Inv, ClientInv, InputIsNotLost, vars, clientVars, workflowVars, hostVars
  <2> QED
    BY <2>1, <2>2 DEF Inv
<1> QED
  BY <1>1, WorkflowStepKeeps, ClientKeeps, CancelledKeeps, DaemonDiesKeeps DEF Next

-----------------------------------------------------------------------------
LEMMA Invariance == Spec => []Inv
BY InitInv, NextInv, PTL DEF Spec

\* The limit on concurrent calls is kept and no slot idles, whatever the
\* script calls and however the workflow is cut off.
THEOREM SlotSafety == Spec => []SlotsAreKept
<1>1. Inv => SlotsAreKept
  BY DEF Inv, WorkflowInv, SlotInv
<1> QED
  BY <1>1, Invariance, PTL

\* What may be done again has not been done: a call that was not started by
\* the model, a try that found no daemon by the script.
THEOREM RetrySafety == Spec => []RetriesAreSafe
<1>1. Inv => RetriesAreSafe
  BY DEF Inv, WorkflowInv, OutcomeInv, ClientInv, RetriesAreSafe
<1> QED
  BY <1>1, Invariance, PTL

\* A workflow that ends well, or with the error of a tool alone, has cut no
\* call off.
THEOREM SettledAtTheEnd == Spec => []NothingIsCutOff
<1>1. Inv => NothingIsCutOff
  BY DEF Inv, WorkflowInv, CountInv
<1> QED
  BY <1>1, Invariance, PTL
=============================================================================
