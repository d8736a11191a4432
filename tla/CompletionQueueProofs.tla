----------------------- MODULE CompletionQueueProofs -----------------------
(***************************************************************************)
(* Proofs about CompletionQueue, for any number of runs, waits and turns.  *)
(***************************************************************************)
EXTENDS CompletionQueue, TLAPS

(***************************************************************************)
(* The inductive invariant.  NoticeIsNews needs to know why an outcome is  *)
(* new when it is queued: what was queued, shown, announced or recorded as *)
(* a failure is of an earlier turn than the one a running run is in.       *)
(***************************************************************************)

Started == \A r \in Runs : status[r] # "none" => turn[r] \in 1 .. MaxTurns

Told == pending \cup seen \cup announced \cup failures

ToldIsOver ==
  \A n \in Told : /\ n[2] <= turn[n[1]]
                  /\ status[n[1]] = "running" => n[2] < turn[n[1]]

PendingIsNew == pending \cap (seen \cup announced) = {}

Inv ==
  /\ TypeOK /\ Started /\ ToldIsOver /\ PendingIsNew
  /\ PendingIsArmed /\ FailuresSkipTheWindow

LEMMA InitInv == Init => Inv
<1> SUFFICES ASSUME Init PROVE Inv
  OBVIOUS
<1>1. TypeOK
  <2>1. turn \in [Runs -> 0 .. MaxTurns]
    BY CompletionQueueAssumption DEF Init
  <2>2. waiting \in [Waits -> {NotWaiting} \cup Notices]
    BY DEF Init
  <2>3. QED BY <2>1, <2>2 DEF Init, TypeOK
<1>2. QED
  BY <1>1 DEF Init, Inv, Started, ToldIsOver, Told, PendingIsNew, PendingIsArmed,
              FailuresSkipTheWindow

\* The latest turn of a run that was started is a notice, and one of the run.
LEMMA LatestIsNotice ==
  ASSUME Inv, NEW r \in Runs, status[r] # "none"
  PROVE  Latest(r) \in Notices /\ Latest(r) \in Of(r)
BY DEF Inv, Started, Latest, Notices, Of

\* What a result shows belongs to terminal runs of rs.
LEMMA ShownType ==
  ASSUME Inv, NEW rs \in SUBSET Runs
  PROVE  /\ Shown(rs) \in SUBSET Notices
         /\ \A n \in Shown(rs) : \E r \in rs :
              n = Latest(r) /\ n \in Of(r) /\ status[r] \in Outcomes
BY LatestIsNotice DEF Shown, Outcomes

-----------------------------------------------------------------------------
\* An action that reads runs: it shows outcomes and drops their notices.
LEMMA ReportKeeps ==
  ASSUME Inv, NEW rs \in SUBSET Runs, Report(rs),
         waiting' \in [Waits -> {NotWaiting} \cup Notices]
  PROVE  Inv'
<1> USE DEF Inv
<1>1. /\ pending' \subseteq pending
      /\ seen' = seen \cup Shown(rs)
      /\ UNCHANGED <<status, turn, failures, window, scheduled, retry, parent, announced>>
  BY DEF Report, Acknowledge, runVars
<1>2. pending' \cap Shown(rs) = {}
  BY ShownType DEF Report, Acknowledge, Terminal, Outcomes
<1>3. TypeOK'
  BY <1>1, ShownType DEF TypeOK
<1>4. ToldIsOver'
  <2> SUFFICES ASSUME NEW n \in Told'
               PROVE  /\ n[2] <= turn[n[1]]
                      /\ status[n[1]] = "running" => n[2] < turn[n[1]]
    BY <1>1 DEF ToldIsOver
  <2>1. CASE n \in Told
    BY <2>1 DEF ToldIsOver
  <2>2. CASE n \in Shown(rs)
    <3>1. PICK r \in rs : n = Latest(r) /\ status[r] \in Outcomes
      BY <2>2, ShownType
    <3>2. turn[r] \in Nat
      BY CompletionQueueAssumption DEF TypeOK
    <3>3. QED BY <3>1, <3>2 DEF Latest, Outcomes
  <2>3. QED BY <1>1, <2>1, <2>2 DEF Told
<1>5. PendingIsNew'
  BY <1>1, <1>2 DEF PendingIsNew
<1>6. Started' /\ PendingIsArmed' /\ FailuresSkipTheWindow'
  BY <1>1 DEF Started, PendingIsArmed, FailuresSkipTheWindow
<1>7. QED BY <1>3, <1>4, <1>5, <1>6

\* An attempt to deliver: it consumes the batch, or leaves a retry behind.
LEMMA DeliverKeeps ==
  ASSUME Inv, Deliver, window' \in BOOLEAN, scheduled' \in BOOLEAN,
         UNCHANGED <<runVars, waiting, seen>>
  PROVE  Inv'
<1> USE DEF Inv, runVars
<1>1. \/ pending' = {} /\ announced' = announced \cup pending
      \/ pending' = pending /\ announced' = announced /\ retry'
  BY DEF Deliver
<1>2. TypeOK'
  BY <1>1 DEF TypeOK, Deliver
<1>3. ToldIsOver' /\ PendingIsNew'
  BY <1>1 DEF ToldIsOver, Told, PendingIsNew
<1>4. Started' /\ PendingIsArmed' /\ FailuresSkipTheWindow'
  BY <1>1 DEF Started, PendingIsArmed, FailuresSkipTheWindow
<1>5. QED BY <1>2, <1>3, <1>4

\* A turn settles: its notice is a new one.
LEMMA SettleKeeps ==
  ASSUME Inv, NEW r \in Runs, Settle(r) PROVE Inv'
<1> USE DEF Inv
<1>1. PICK outcome \in Outcomes :
        /\ status' = [status EXCEPT ![r] = outcome]
        /\ failures' = IF outcome = "failed" THEN failures \cup {Latest(r)} ELSE failures
        /\ Enqueue(Latest(r), outcome)
  BY DEF Settle
<1>2. status[r] = "running" /\ UNCHANGED <<turn, parent, waiting, seen, retry, announced>>
  BY DEF Settle, parentVars
<1>3. Latest(r) \in Notices /\ pending' = pending \cup {Latest(r)}
  BY <1>1, <1>2, LatestIsNotice DEF Enqueue
<1>4. outcome # "running" /\ outcome # "none"
  BY DEF Outcomes
<1>5. TypeOK'
  BY <1>1, <1>2, <1>3 DEF TypeOK, Enqueue, FlushNow, Terminal
<1>6. Started'
  BY <1>1, <1>2 DEF Started, TypeOK
<1>7. Latest(r) \notin Told
  <2>1. turn[r] \in Nat
    BY CompletionQueueAssumption DEF TypeOK
  <2>2. QED BY <1>2, <2>1 DEF ToldIsOver, Latest
<1>8. ToldIsOver'
  <2> SUFFICES ASSUME NEW n \in Told'
               PROVE  /\ n[2] <= turn[n[1]]
                      /\ status'[n[1]] = "running" => n[2] < turn[n[1]]
    BY <1>2 DEF ToldIsOver
  <2>1. CASE n \in Told
    <3>1. n \in Notices
      BY <2>1 DEF Told, TypeOK
    <3>2. n[1] \in Runs
      BY <3>1 DEF Notices
    <3>3. QED BY <1>1, <1>4, <2>1, <3>2 DEF ToldIsOver, TypeOK
  <2>2. CASE n = Latest(r)
    <3>1. turn[r] \in Nat
      BY CompletionQueueAssumption DEF TypeOK
    <3>2. status'[r] = outcome
      BY <1>1 DEF TypeOK
    <3>3. QED BY <1>4, <2>2, <3>1, <3>2 DEF Latest
  <2>3. Told' \subseteq Told \cup {Latest(r)}
    BY <1>1, <1>2, <1>3 DEF Told
  <2>4. QED BY <2>1, <2>2, <2>3
<1>9. PendingIsNew'
  BY <1>2, <1>3, <1>7 DEF PendingIsNew, Told
<1>10. PendingIsArmed'
  BY <1>1 DEF PendingIsArmed, Enqueue, FlushNow, Outcomes
<1>11. FailuresSkipTheWindow'
  <2>1. CASE outcome = "failed"
    BY <1>1, <2>1 DEF FailuresSkipTheWindow, Enqueue, FlushNow
  <2>2. CASE outcome = "completed"
    <3>1. Latest(r) \notin failures
      BY <1>7 DEF Told
    <3>2. failures' = failures /\ scheduled' = scheduled /\ retry' = retry
      BY <1>1, <1>2, <2>2 DEF Enqueue
    <3>3. pending' \cap failures' = pending \cap failures
      BY <1>3, <3>1, <3>2
    <3>4. QED BY <3>2, <3>3 DEF FailuresSkipTheWindow
  <2>3. QED BY <2>1, <2>2 DEF Outcomes
<1>12. QED BY <1>5, <1>6, <1>8, <1>9, <1>10, <1>11

\* An action that leaves the queue, the failures and the turn counts alone.
LEMMA StillKeeps ==
  ASSUME Inv, UNCHANGED <<turn, failures, queueVars, seen, announced>>,
         retry => retry', retry' \in BOOLEAN,
         parent' \in {"idle", "busy", "ending"},
         waiting' \in [Waits -> {NotWaiting} \cup Notices],
         status' \in [Runs -> {"none", "running", "closed"} \cup Terminal],
         \A r \in Runs : /\ status'[r] # "none" => status[r] # "none"
                         /\ status'[r] = "running" => status[r] = "running"
  PROVE  Inv'
<1> USE DEF Inv, queueVars
<1>1. TypeOK'
  BY DEF TypeOK
<1>2. Started' /\ PendingIsNew' /\ PendingIsArmed' /\ FailuresSkipTheWindow'
  BY DEF Started, PendingIsNew, PendingIsArmed, FailuresSkipTheWindow
<1>3. ToldIsOver'
  <2>1. \A n \in Told : n[1] \in Runs
    BY DEF Told, TypeOK, Notices
  <2>2. QED BY <2>1 DEF ToldIsOver, Told
<1>4. QED BY <1>1, <1>2, <1>3

LEMMA PromptKeeps == ASSUME Inv, NEW r \in Runs, Prompt(r) PROVE Inv'
<1> USE DEF Inv, queueVars, parentVars
<1>1. /\ status' = [status EXCEPT ![r] = "running"]
      /\ turn' = [turn EXCEPT ![r] = @ + 1]
      /\ turn[r] < MaxTurns
      /\ UNCHANGED <<failures, queueVars, parentVars, retry, announced>>
  BY DEF Prompt
<1>2. \A q \in Runs : turn[q] \in 0 .. MaxTurns
  BY DEF TypeOK
<1>3. \A q \in Runs : turn'[q] \in 0 .. MaxTurns /\ turn'[q] >= turn[q]
  BY <1>1, <1>2, CompletionQueueAssumption DEF TypeOK
<1>4. TypeOK'
  <2>1. turn' \in [Runs -> 0 .. MaxTurns]
    BY <1>1, <1>3 DEF TypeOK
  <2>2. QED BY <1>1, <2>1 DEF TypeOK
<1>5. Started'
  <2> SUFFICES ASSUME NEW q \in Runs, status'[q] # "none"
               PROVE  turn'[q] \in 1 .. MaxTurns
    BY DEF Started
  <2>1. CASE q = r
    BY <1>1, <1>2, <2>1, CompletionQueueAssumption DEF TypeOK
  <2>2. CASE q # r
    BY <1>1, <2>2 DEF Started, TypeOK
  <2>3. QED BY <2>1, <2>2
<1>6. ToldIsOver'
  <2> SUFFICES ASSUME NEW n \in Told
               PROVE  /\ n[2] <= turn'[n[1]]
                      /\ status'[n[1]] = "running" => n[2] < turn'[n[1]]
    BY <1>1 DEF ToldIsOver, Told
  <2>1. n[1] \in Runs /\ n[2] \in Int
    BY DEF Told, TypeOK, Notices
  <2>2. n[2] <= turn[n[1]] /\ (status[n[1]] = "running" => n[2] < turn[n[1]])
    BY DEF ToldIsOver
  <2>3. turn[n[1]] \in Int /\ turn'[n[1]] \in Int
    BY <2>1, <1>2, <1>3, CompletionQueueAssumption
  <2>4. CASE n[1] = r
    <3>1. turn'[r] = turn[r] + 1
      BY <1>1 DEF TypeOK
    <3>2. QED BY <2>1, <2>2, <2>3, <2>4, <3>1
  <2>5. CASE n[1] # r
    BY <1>1, <2>1, <2>2, <2>5 DEF TypeOK
  <2>6. QED BY <2>4, <2>5
<1>7. PendingIsNew' /\ PendingIsArmed' /\ FailuresSkipTheWindow'
  BY <1>1 DEF PendingIsNew, PendingIsArmed, FailuresSkipTheWindow
<1>8. QED BY <1>4, <1>5, <1>6, <1>7

LEMMA CloseKeeps == ASSUME Inv, NEW r \in Runs, Close(r) PROVE Inv'
<1> USE DEF Inv, parentVars
<1>1. /\ status[r] # "none" /\ status' = [status EXCEPT ![r] = "closed"]
      /\ pending' \subseteq pending
      /\ UNCHANGED <<turn, failures, window, scheduled, parentVars, retry, announced>>
  BY DEF Close, Acknowledge
<1>2. TypeOK'
  BY <1>1 DEF TypeOK
<1>3. Started'
  BY <1>1 DEF Started, TypeOK
<1>4. ToldIsOver'
  <2>1. \A n \in Told : n[1] \in Runs
    BY DEF Told, TypeOK, Notices
  <2>2. QED BY <1>1, <2>1 DEF ToldIsOver, Told, TypeOK
<1>5. PendingIsNew' /\ PendingIsArmed' /\ FailuresSkipTheWindow'
  BY <1>1 DEF PendingIsNew, PendingIsArmed, FailuresSkipTheWindow
<1>6. QED BY <1>2, <1>3, <1>4, <1>5

\* Closing the window schedules a delivery.
LEMMA WindowKeeps == ASSUME Inv, WindowCloses PROVE Inv'
<1> USE DEF Inv, WindowCloses, FlushNow, runVars, parentVars
<1>1. TypeOK'
  BY DEF TypeOK
<1>2. Started' /\ ToldIsOver' /\ PendingIsNew' /\ PendingIsArmed' /\ FailuresSkipTheWindow'
  BY DEF Started, ToldIsOver, Told, PendingIsNew, PendingIsArmed, FailuresSkipTheWindow
<1>3. QED BY <1>1, <1>2

\* The poke at agent_end replaces the window by a retry.
LEMMA EndsKeeps == ASSUME Inv, ParentEnds PROVE Inv'
<1> USE DEF Inv, ParentEnds, runVars
<1>1. TypeOK'
  BY DEF TypeOK
<1>2. Started' /\ ToldIsOver' /\ PendingIsNew' /\ PendingIsArmed' /\ FailuresSkipTheWindow'
  BY DEF Started, ToldIsOver, Told, PendingIsNew, PendingIsArmed, FailuresSkipTheWindow
<1>3. QED BY <1>1, <1>2

-----------------------------------------------------------------------------
LEMMA ToolInv == ASSUME Inv, ToolStep PROVE Inv'
<1>1. ASSUME NEW r \in Runs, Prompt(r) PROVE Inv'
  BY <1>1, PromptKeeps
<1>2. ASSUME NEW r \in Runs, Interrupt(r) PROVE Inv'
  <2>1. status' \in [Runs -> {"none", "running", "closed"} \cup Terminal]
    BY <1>2 DEF Interrupt, Inv, TypeOK, Terminal
  <2>2. \A q \in Runs : /\ status'[q] # "none" => status[q] # "none"
                        /\ status'[q] = "running" => status[q] = "running"
    BY <1>2 DEF Interrupt, Inv, TypeOK
  <2>3. QED BY <1>2, <2>1, <2>2, StillKeeps DEF Interrupt, parentVars, Inv, TypeOK
<1>3. ASSUME NEW r \in Runs, Close(r) PROVE Inv'
  BY <1>3, CloseKeeps
<1>4. ASSUME NEW rs \in SUBSET Runs, ReadStatus(rs) PROVE Inv'
  BY <1>4, ReportKeeps DEF ReadStatus, Inv, TypeOK
<1>5. ASSUME NEW w \in Waits, NEW r \in Runs, Wait(w, r) PROVE Inv'
  <2>1. waiting' \in [Waits -> {NotWaiting} \cup Notices]
    BY <1>5, LatestIsNotice DEF Wait, Inv, TypeOK
  <2>2. QED BY <1>5, <2>1, StillKeeps DEF Wait, runVars, Inv, TypeOK
<1>6. ASSUME NEW w \in Waits, WaitAborts(w) PROVE Inv'
  <2>1. PICK r \in Runs : Report({r} \ {q \in Runs : status[q] = "closed"})
    BY <1>6 DEF WaitAborts
  <2>2. waiting' \in [Waits -> {NotWaiting} \cup Notices]
    BY <1>6 DEF WaitAborts, Inv, TypeOK
  <2>3. QED BY <2>1, <2>2, ReportKeeps
<1>7. QED BY <1>1, <1>2, <1>3, <1>4, <1>5, <1>6 DEF ToolStep

LEMMA NextInv == Inv /\ [Next]_vars => Inv'
<1> SUFFICES ASSUME Inv, [Next]_vars PROVE Inv'
  OBVIOUS
<1>1. CASE WindowCloses
  BY <1>1, WindowKeeps
<1>2. CASE MicrotaskDelivers
  BY <1>2, DeliverKeeps DEF MicrotaskDelivers, Inv, TypeOK
<1>3. CASE RetryDelivers
  BY <1>3, DeliverKeeps DEF RetryDelivers, Inv, TypeOK
<1>4. ASSUME NEW r \in Runs, Settle(r) PROVE Inv'
  BY <1>4, SettleKeeps
<1>5. CASE ToolStep
  BY <1>5, ToolInv
<1>6. ASSUME NEW w \in Waits, WaitReturns(w) PROVE Inv'
  <2>1. PICK r \in Runs : Report({r} \ {q \in Runs : status[q] = "closed"})
    BY <1>6 DEF WaitReturns
  <2>2. waiting' \in [Waits -> {NotWaiting} \cup Notices]
    BY <1>6 DEF WaitReturns, Inv, TypeOK
  <2>3. QED BY <2>1, <2>2, ReportKeeps
<1>7. CASE ParentStarts \/ ParentIdles
  BY <1>7, StillKeeps DEF ParentStarts, ParentIdles, runVars, Inv, TypeOK
<1>8. CASE ParentEnds
  BY <1>8, EndsKeeps
<1>9. CASE UNCHANGED vars
  BY <1>9, StillKeeps DEF vars, runVars, parentVars, Inv, TypeOK
<1>10. QED BY <1>1, <1>2, <1>3, <1>4, <1>5, <1>6, <1>7, <1>8, <1>9 DEF Next

THEOREM QueueTypeCorrect == Spec => []TypeOK
<1>1. Inv => TypeOK
  BY DEF Inv
<1>2. QED BY InitInv, NextInv, <1>1, PTL DEF Spec

\* Whatever the order of timers, microtasks, pokes, reads and parent turns, a
\* queued notice always has a timer or a microtask that will try to deliver it.
THEOREM NeverForgotten == Spec => []PendingIsArmed
<1>1. Inv => PendingIsArmed
  BY DEF Inv
<1>2. QED BY InitInv, NextInv, <1>1, PTL DEF Spec

\* And a failure one that does not wait for the batch window.
THEOREM FailuresAreUrgent == Spec => []FailuresSkipTheWindow
<1>1. Inv => FailuresSkipTheWindow
  BY DEF Inv
<1>2. QED BY InitInv, NextInv, <1>1, PTL DEF Spec

\* Only the deliverer announces, to an idle parent, and only what is new.
THEOREM OnlyNewsIsAnnounced == Spec => NoticeIsNews
<1> DEFINE News == announced' # announced =>
                     /\ parent = "idle"
                     /\ pending \cap (seen \cup announced) = {}
                     /\ announced' = announced \cup pending
<1>1. Inv /\ [Next]_vars => [News]_vars
  <2> SUFFICES ASSUME Inv, Next, announced' # announced PROVE News
    BY DEF vars
  <2>1. MicrotaskDelivers \/ RetryDelivers
    BY DEF Next, ToolStep, WindowCloses, Settle, Prompt, Interrupt, Close, ReadStatus,
           Report, Wait, WaitAborts, WaitReturns, ParentStarts, ParentEnds, ParentIdles
  <2>2. Deliver
    BY <2>1 DEF MicrotaskDelivers, RetryDelivers
  <2>3. QED BY <2>2 DEF Deliver, Inv, PendingIsNew
<1>2. QED BY InitInv, NextInv, <1>1, PTL DEF Spec, NoticeIsNews

\* Every queued notice is armed, as urgently as it has to be.
THEOREM NoticesAreArmed == Spec => []EveryNoticeIsArmed
BY NeverForgotten, FailuresAreUrgent, PTL DEF EveryNoticeIsArmed
=============================================================================
