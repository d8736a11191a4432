------------------------ MODULE RunControllerProofs ------------------------
(***************************************************************************)
(* Proofs about RunController, for every set of runs, turns and calls,     *)
(* every concurrency limit and every host (SerialHost is never used).      *)
(***************************************************************************)
EXTENDS RunController, FiniteSetTheorems, TLAPS

(***************************************************************************)
(* Type correctness.                                                       *)
(***************************************************************************)

\* What ReleaseSlot leaves behind is well typed.
LEMMA ReleaseSlotType ==
  ASSUME TypeOK, NEW t \in Turns, ReleaseSlot(t)
  PROVE  /\ active' \in Int
         /\ queue' \in Seq(Turns)
         /\ pc' \in [Turns -> InFlight \cup {"unused", "done"}]
<1>1. queue' \in Seq(Turns)
  <2>1. CASE queue = <<>>
    BY <2>1 DEF TypeOK, ReleaseSlot
  <2>2. CASE queue # <<>>
    <3>1. queue \in Seq(Turns) /\ queue' = Tail(queue)
      BY <2>2 DEF TypeOK, ReleaseSlot
    <3>2. QED BY <2>2, <3>1
  <2>3. QED BY <2>1, <2>2
<1>2. pc' \in [Turns -> InFlight \cup {"unused", "done"}]
  BY DEF TypeOK, ReleaseSlot, InFlight
<1>3. active' \in Int
  BY DEF TypeOK, ReleaseSlot
<1>4. QED BY <1>1, <1>2, <1>3

\* So is what Launch leaves behind.
LEMMA LaunchType ==
  ASSUME TypeOK, NEW r \in Runs, NEW t \in Turns, Launch(r, t)
  PROVE  /\ active' \in Int
         /\ queue' \in Seq(Turns)
         /\ pc' \in [Turns -> InFlight \cup {"unused", "done"}]
         /\ runOf' \in [Turns -> Runs \cup {NoRun}]
         /\ settled' \in [Runs -> Turns \cup {NoTurn}]
<1>1. /\ runOf' \in [Turns -> Runs \cup {NoRun}]
      /\ settled' \in [Runs -> Turns \cup {NoTurn}]
  BY DEF TypeOK, Launch
<1>2. queue' \in Seq(Turns)
  <2>1. queue \in Seq(Turns)
    BY DEF TypeOK
  <2>2. queue' = queue \/ queue' = Append(queue, t)
    BY DEF Launch
  <2>3. QED BY <2>1, <2>2
<1>3. pc' \in [Turns -> InFlight \cup {"unused", "done"}]
  BY DEF TypeOK, Launch, InFlight, Holding
<1>4. active' \in Int
  BY DEF TypeOK, Launch
<1>5. QED BY <1>1, <1>2, <1>3, <1>4

CallType == {NoCall} \cup [at : {"held", "steering", "parked", "woken"},
                             run : Runs, on : Turns \cup {NoTurn}]

CloseType == [at : {"idle", "aborting", "disposing", "settling"},
              on : Turns \cup {NoTurn}]

\* Waking waiters keeps the table of calls well typed.
LEMMA WakeWaitersType ==
  ASSUME NEW calls \in [Calls -> CallType], NEW rs
  PROVE  WakeWaiters(calls, rs) \in [Calls -> CallType]
BY DEF WakeWaiters, CallType, NoCall

\* The variables keep their types, whatever the host does.
THEOREM TypeCorrect == Spec => []TypeOK
<1>1. Init => TypeOK
  BY DEF Init, TypeOK, NoCall, NoClose, Closers, InFlight, Holding, Status
<1>2. TypeOK /\ [Next]_vars => TypeOK'
  <2> SUFFICES ASSUME TypeOK, [Next]_vars PROVE TypeOK'
    OBVIOUS
  <2> USE DEF TypeOK
  <2>1. ASSUME NEW r \in Runs, StartRun(r) PROVE TypeOK'
    <3>1. PICK t \in Turns : Launch(r, t)
      BY <2>1 DEF StartRun, Unused
    <3>2. status' \in [Runs -> Status]
      BY <2>1 DEF StartRun, Status
    <3>3. QED BY <2>1, <3>1, <3>2, LaunchType DEF StartRun, callVars
  <2>2. ASSUME NEW r \in Runs, Interrupt(r) PROVE TypeOK'
    <3>1. call' \in [Calls -> CallType]
      BY <2>2, WakeWaitersType DEF Interrupt, Stop, CallType
    <3>2. status' \in [Runs -> Status]
      BY <2>2 DEF Interrupt, Stop, Status, Settled
    <3>3. stopped' \in SUBSET Turns
      BY <2>2 DEF Interrupt, Stop, InFlightOn
    <3>4. QED BY <2>2, <3>1, <3>2, <3>3 DEF Interrupt, turnVars, CallType
  <2>3. ASSUME NEW r \in Runs, Close(r) PROVE TypeOK'
    <3>1. CASE status[r] # "closed"
      <4>0. Stop({r}, "closed")
        BY <2>3, <3>1 DEF Close
      <4>1. call' \in [Calls -> CallType]
        BY <4>0, WakeWaitersType DEF Stop, CallType
      <4>2. status' \in [Runs -> Status]
        BY <4>0 DEF Stop, Status, Settled
      <4>3. stopped' \in SUBSET Turns
        BY <4>0 DEF Stop, InFlightOn
      <4>4. closing' \in [Closers -> [Runs -> CloseType]]
        BY <2>3, <3>1 DEF Close, CloseType, Closers
      <4>5. QED BY <2>3, <3>1, <4>1, <4>2, <4>3, <4>4
                DEF Close, CallType, CloseType
    <3>2. CASE status[r] = "closed"
      <4>1. closing' \in [Closers -> [Runs -> CloseType]]
        BY <2>3, <3>2 DEF Close, Dispose, CloseType, Closers
      <4>2. session' \in [Turns -> {"none", "live", "disposed"}]
        BY <2>3, <3>2 DEF Close, Dispose
      <4>3. QED BY <2>3, <3>2, <4>1, <4>2 DEF Close, CloseType
    <3>3. QED BY <3>1, <3>2
  <2>4. ASSUME NEW c \in Calls, NEW r \in Runs, Message(c, r) PROVE TypeOK'
    <3>1. CASE HoldMessage(c, r)
      BY <3>1 DEF HoldMessage, turnVars
    <3>2. CASE Steer(c, r)
      BY <3>2 DEF Steer, turnVars
    <3>3. CASE FollowUp(c, r)
      <4>1. PICK t \in Turns : Launch(r, t)
        BY <3>3 DEF FollowUp, Unused
      <4>2. status' \in [Runs -> Status]
        BY <3>3 DEF FollowUp, Status
      <4>3. call' \in [Calls -> CallType]
        BY <3>3 DEF FollowUp, NoCall, CallType
      <4>4. QED BY <3>3, <4>1, <4>2, <4>3, LaunchType DEF FollowUp, CallType
    <3>4. QED BY <2>4, <3>1, <3>2, <3>3 DEF Message
  <2>5. ASSUME NEW c \in Calls, NEW r \in Runs, Wait(c, r) PROVE TypeOK'
    BY <2>5 DEF Wait, turnVars
  <2>6. ASSUME NEW c \in Calls, WaitAborts(c) PROVE TypeOK'
    BY <2>6 DEF WaitAborts, turnVars, NoCall
  <2>7. CASE Shutdown
    <3> DEFINE open == {r \in Runs : status[r] \notin {"none", "closed"}}
    <3>1. Stop(open, "closed")
      BY <2>7 DEF Shutdown
    <3> HIDE DEF open
    <3>2. call' \in [Calls -> CallType]
      BY <3>1, WakeWaitersType DEF Stop, CallType
    <3>3. status' \in [Runs -> Status]
      BY <3>1 DEF Stop, Status, Settled
    <3>4. stopped' \in SUBSET Turns
      BY <3>1 DEF Stop, InFlightOn
    <3>5. closing' \in [Closers -> [Runs -> CloseType]]
      BY <2>7 DEF Shutdown, CloseType, Closers, NoClose
    <3>6. QED BY <2>7, <3>2, <3>3, <3>4, <3>5
              DEF Shutdown, turnVars, CallType, CloseType
  <2>8. ASSUME NEW c \in Calls, CallStep(c) PROVE TypeOK'
    <3>1. CASE MessageResumes(c)
      <4> DEFINE r == call[c].run
      <4>0. r \in Runs
        BY <3>1 DEF MessageResumes, NoCall
      <4>1. CASE Steer(c, r)
        BY <4>0, <4>1 DEF Steer, turnVars
      <4>2. CASE FollowUp(c, r)
        <5>1. PICK t \in Turns : Launch(r, t)
          BY <4>2 DEF FollowUp, Unused
        <5>2. status' \in [Runs -> Status]
          BY <4>2 DEF FollowUp, Status
        <5>3. call' \in [Calls -> CallType]
          BY <4>2 DEF FollowUp, NoCall, CallType
        <5>4. QED BY <4>0, <4>2, <5>1, <5>2, <5>3, LaunchType DEF FollowUp, CallType
      <4>3. QED BY <3>1, <4>1, <4>2 DEF MessageResumes
    <3>2. CASE SteerReturns(c)
      <4>1. [call EXCEPT ![c] = NoCall] \in [Calls -> CallType]
        BY DEF NoCall, CallType
      <4>2. call' \in [Calls -> CallType]
        BY <3>2, <4>1, WakeWaitersType DEF SteerReturns
      <4>3. QED BY <3>2, <4>2 DEF SteerReturns, turnVars, CallType
    <3>3. CASE WaitReturns(c)
      BY <3>3 DEF WaitReturns, turnVars, NoCall
    <3>4. QED BY <2>8, <3>1, <3>2, <3>3 DEF CallStep
  <2>9. ASSUME NEW k \in Closers, NEW r \in Runs, CloseStep(k, r) PROVE TypeOK'
    <3>1. CASE CloseDisposes(k, r)
      <4>1. closing' \in [Closers -> [Runs -> CloseType]]
        BY <3>1 DEF CloseDisposes, Dispose, CloseType
      <4>2. session' \in [Turns -> {"none", "live", "disposed"}]
        BY <3>1 DEF CloseDisposes, Dispose
      <4>3. QED BY <3>1, <4>1, <4>2 DEF CloseDisposes, CloseType
    <3>2. CASE CloseDetaches(k, r)
      <4>1. closing' \in [Closers -> [Runs -> CloseType]]
        BY <3>2 DEF CloseDetaches, CloseType
      <4>2. handle' \in [Runs -> Turns \cup {NoTurn}]
        BY <3>2 DEF CloseDetaches
      <4>3. QED BY <3>2, <4>1, <4>2 DEF CloseDetaches, CloseType, turnVars
    <3>3. CASE CloseReturns(k, r)
      <4>1. closing' \in [Closers -> [Runs -> CloseType]]
        BY <3>3 DEF CloseReturns, NoClose, CloseType
      <4>2. QED BY <3>3, <4>1 DEF CloseReturns, CloseType, turnVars
    <3>4. QED BY <2>9, <3>1, <3>2, <3>3 DEF CloseStep
  <2>10. ASSUME NEW t \in Turns, TurnStep(t) PROVE TypeOK'
    <3>1. CASE ResumeQueued(t)
      BY <3>1 DEF ResumeQueued, callVars, InFlight, Holding
    <3>2. CASE BeginTurn(t)
      <4>1. CASE ReleaseSlot(t)
        BY <3>2, <4>1, ReleaseSlotType DEF BeginTurn, callVars
      <4>2. CASE UNCHANGED <<active, queue>> /\ ~ReleaseSlot(t)
        BY <3>2, <4>2 DEF BeginTurn, callVars, InFlight, Holding
      <4>3. QED BY <3>2, <4>1, <4>2 DEF BeginTurn
    <3>3. CASE SessionCreated(t)
      <4>1. handle' \in [Runs -> Turns \cup {NoTurn}]
        BY <3>3 DEF SessionCreated
      <4>2. session' \in [Turns -> {"none", "live", "disposed"}]
        BY <3>3 DEF SessionCreated
      <4>3. pc' \in [Turns -> InFlight \cup {"unused", "done"}]
        BY <3>3 DEF SessionCreated, InFlight, Holding
      <4>4. QED BY <3>3, <4>1, <4>2, <4>3 DEF SessionCreated, callVars
    <3>4. CASE SessionDiscarded(t)
      BY <3>4, ReleaseSlotType DEF SessionDiscarded, callVars
    <3>5. ASSUME NEW outcome \in {"completed", "failed"}, SettleRun(t, outcome)
          PROVE  TypeOK'
      <4>1. call' \in [Calls -> CallType]
        BY <3>5, WakeWaitersType DEF SettleRun, CallType
      <4>2. status' \in [Runs -> Status]
        <5>1. outcome \in Status
          BY DEF Status, Settled
        <5>2. status' = [status EXCEPT ![runOf[t]] = outcome] \/ status' = status
          BY <3>5 DEF SettleRun
        <5>3. status \in [Runs -> Status]
          OBVIOUS
        <5>4. QED BY <5>1, <5>2, <5>3
      <4>3. QED BY <3>5, <4>1, <4>2, ReleaseSlotType DEF SettleRun, CallType
    <3>6. CASE CreationFails(t)
      BY <3>5, <3>6 DEF CreationFails
    <3>7. CASE PromptSettles(t)
      BY <3>5, <3>7 DEF PromptSettles
    <3>8. QED BY <2>10, <3>1, <3>2, <3>3, <3>4, <3>6, <3>7 DEF TurnStep
  <2>11. CASE ShutdownReturns
    BY <2>11 DEF ShutdownReturns, turnVars
  <2>12. CASE UNCHANGED vars
    BY <2>12 DEF vars, turnVars, callVars
  <2>13. QED
    BY <2>1, <2>2, <2>3, <2>4, <2>5, <2>6, <2>7, <2>8, <2>9, <2>10, <2>11, <2>12
    DEF Next, HostStep
<1>3. QED BY <1>1, <1>2, PTL DEF Spec

(***************************************************************************)
(* A run that says "running" is backed by its latest turn.                 *)
(***************************************************************************)

\* A turn that ends takes nothing from a run whose latest turn it is not.
LEMMA ReleaseKeepsBacking ==
  ASSUME TypeOK, NEW t \in Turns, ReleaseSlot(t), UNCHANGED <<runOf, settled>>,
         NEW r \in Runs, settled[r] \in InFlightOn(r), settled[r] # t,
         pc[settled[r]] # "discarding"
  PROVE  settled'[r] \in InFlightOn(r)' /\ pc'[settled'[r]] # "discarding"
BY DEF TypeOK, ReleaseSlot, InFlightOn, InFlight

\* A new turn backs its own run and leaves the others to theirs.
LEMMA LaunchBacks ==
  ASSUME TypeOK, RunningIsBacked, NEW r \in Runs, NEW t \in Turns,
         Launch(r, t), status' = [status EXCEPT ![r] = "running"]
  PROVE  RunningIsBacked'
<1> SUFFICES ASSUME NEW q \in Runs, status'[q] = "running"
             PROVE  settled'[q] \in InFlightOn(q)' /\ pc'[settled'[q]] # "discarding"
  BY DEF RunningIsBacked
<1>1. /\ pc[t] = "unused"
      /\ pc' \in [Turns -> InFlight \cup {"unused", "done"}]
      /\ pc'[t] \in {"starting", "queued"}
      /\ \A u \in Turns \ {t} : pc'[u] = pc[u]
      /\ runOf' = [runOf EXCEPT ![t] = r]
      /\ settled' = [settled EXCEPT ![r] = t]
  BY LaunchType DEF TypeOK, Launch
<1>2. CASE q = r
  BY <1>1, <1>2 DEF TypeOK, InFlightOn, InFlight, Holding
<1>3. CASE q # r
  <2>1. settled[q] \in InFlightOn(q) /\ pc[settled[q]] # "discarding"
    BY <1>3 DEF RunningIsBacked, TypeOK
  <2>2. settled[q] \in Turns /\ settled[q] # t
    BY <1>1, <2>1 DEF InFlightOn, InFlight, Holding
  <2>3. QED BY <1>1, <1>3, <2>1, <2>2 DEF TypeOK, InFlightOn
<1>4. QED BY <1>2, <1>3

\* A settling turn may end because its run no longer says "running".
LEMMA SettleKeepsBacking ==
  ASSUME TypeOK, RunningIsBacked, NEW t \in Turns,
         NEW outcome \in {"completed", "failed"}, SettleRun(t, outcome)
  PROVE  RunningIsBacked'
<1> SUFFICES ASSUME NEW r \in Runs, status'[r] = "running"
             PROVE  settled'[r] \in InFlightOn(r)' /\ pc'[settled'[r]] # "discarding"
  BY DEF RunningIsBacked
<1>1. status[r] = "running" /\ r # runOf[t]
  BY DEF SettleRun, TypeOK
<1>2. settled[r] \in InFlightOn(r) /\ pc[settled[r]] # "discarding"
  BY <1>1 DEF RunningIsBacked
<1>3. settled[r] # t
  BY <1>1, <1>2 DEF InFlightOn
<1>4. QED BY <1>2, <1>3, ReleaseKeepsBacking DEF SettleRun

\* Whatever the host does, a run that says "running" has its latest turn in
\* flight: executePrompt never leaves a run behind unsettled.
THEOREM AlwaysBacked == Spec => []RunningIsBacked
<1>1. Init => RunningIsBacked
  BY DEF Init, RunningIsBacked
<1>2. TypeOK /\ RunningIsBacked /\ [Next]_vars => RunningIsBacked'
  <2> SUFFICES ASSUME TypeOK, RunningIsBacked, [Next]_vars PROVE RunningIsBacked'
    OBVIOUS
  <2>0. ASSUME UNCHANGED <<settled, pc, runOf>>,
               \A r \in Runs : status'[r] = "running" => status[r] = "running"
        PROVE  RunningIsBacked'
    BY <2>0 DEF RunningIsBacked, InFlightOn
  <2>1. ASSUME NEW r \in Runs, StartRun(r) PROVE RunningIsBacked'
    BY <2>1, LaunchBacks DEF StartRun, Unused
  <2>2. ASSUME NEW r \in Runs, Interrupt(r) \/ Close(r) PROVE RunningIsBacked'
    BY <2>2, <2>0 DEF Interrupt, Close, Stop, turnVars
  <2>3. ASSUME NEW c \in Calls, NEW r \in Runs, Message(c, r) PROVE RunningIsBacked'
    <3>1. CASE HoldMessage(c, r) \/ Steer(c, r)
      BY <2>0, <3>1 DEF HoldMessage, Steer, turnVars
    <3>2. CASE FollowUp(c, r)
      BY <3>2, LaunchBacks DEF FollowUp, Unused
    <3>3. QED BY <2>3, <3>1, <3>2 DEF Message
  <2>4. ASSUME NEW c \in Calls, MessageResumes(c) PROVE RunningIsBacked'
    <3>1. call[c].run \in Runs
      BY <2>4 DEF TypeOK, MessageResumes, NoCall
    <3>2. CASE Steer(c, call[c].run)
      BY <2>0, <3>2 DEF Steer, turnVars
    <3>3. CASE FollowUp(c, call[c].run)
      BY <3>1, <3>3, LaunchBacks DEF FollowUp, Unused
    <3>4. QED BY <2>4, <3>2, <3>3 DEF MessageResumes
  <2>5. ASSUME NEW c \in Calls,
               \/ \E r \in Runs : Wait(c, r)
               \/ WaitAborts(c) \/ WaitReturns(c) \/ SteerReturns(c)
        PROVE  RunningIsBacked'
    BY <2>0, <2>5 DEF Wait, WaitAborts, WaitReturns, SteerReturns, turnVars
  <2>6. CASE Shutdown
    BY <2>0, <2>6 DEF Shutdown, Stop, turnVars
  <2>7. ASSUME NEW k \in Closers, NEW r \in Runs, CloseStep(k, r)
        PROVE  RunningIsBacked'
    BY <2>0, <2>7 DEF CloseStep, CloseDisposes, CloseDetaches, CloseReturns, turnVars
  <2>8. CASE ShutdownReturns
    BY <2>0, <2>8 DEF ShutdownReturns, turnVars
  <2>9. ASSUME NEW t \in Turns, TurnStep(t) PROVE RunningIsBacked'
    <3>1. CASE ResumeQueued(t)
      BY <3>1 DEF ResumeQueued, RunningIsBacked, InFlightOn, InFlight, Holding, TypeOK
    <3>2. CASE BeginTurn(t)
      <4>1. CASE ReleaseSlot(t) /\ status[runOf[t]] # "running"
        <5> SUFFICES ASSUME NEW r \in Runs, status'[r] = "running"
                     PROVE  /\ settled'[r] \in InFlightOn(r)'
                            /\ pc'[settled'[r]] # "discarding"
          BY DEF RunningIsBacked
        <5>1. /\ settled[r] \in InFlightOn(r) /\ settled[r] # t
              /\ pc[settled[r]] # "discarding"
          BY <3>2, <4>1 DEF BeginTurn, RunningIsBacked, InFlightOn
        <5>2. QED BY <3>2, <4>1, <5>1, ReleaseKeepsBacking DEF BeginTurn
      <4>2. CASE pc' = [pc EXCEPT ![t] = IF handle[runOf[t]] = NoTurn
                                         THEN "creating" ELSE "prompting"]
        BY <3>2, <4>2
        DEF BeginTurn, RunningIsBacked, InFlightOn, InFlight, Holding, TypeOK
      <4>3. QED BY <3>2, <4>1, <4>2 DEF BeginTurn
    <3>3. CASE SessionCreated(t)
      <4> SUFFICES ASSUME NEW r \in Runs, status'[r] = "running"
                   PROVE  /\ settled'[r] \in InFlightOn(r)'
                          /\ pc'[settled'[r]] # "discarding"
        BY DEF RunningIsBacked
      <4>1. settled[r] \in InFlightOn(r) /\ pc[settled[r]] # "discarding"
        BY <3>3 DEF SessionCreated, RunningIsBacked
      <4>2. CASE settled[r] = t
        BY <3>3, <4>1, <4>2
        DEF SessionCreated, InFlightOn, InFlight, Holding, TypeOK
      <4>3. CASE settled[r] # t
        BY <3>3, <4>1, <4>3 DEF SessionCreated, InFlightOn, TypeOK
      <4>4. QED BY <4>2, <4>3
    <3>4. CASE SessionDiscarded(t)
      <4> SUFFICES ASSUME NEW r \in Runs, status'[r] = "running"
                   PROVE  /\ settled'[r] \in InFlightOn(r)'
                          /\ pc'[settled'[r]] # "discarding"
        BY DEF RunningIsBacked
      <4>1. /\ settled[r] \in InFlightOn(r) /\ settled[r] # t
            /\ pc[settled[r]] # "discarding"
        BY <3>4 DEF SessionDiscarded, RunningIsBacked
      <4>2. QED BY <3>4, <4>1, ReleaseKeepsBacking DEF SessionDiscarded
    <3>5. CASE CreationFails(t)
      BY <3>5, SettleKeepsBacking DEF CreationFails
    <3>6. CASE PromptSettles(t)
      BY <3>6, SettleKeepsBacking DEF PromptSettles
    <3>7. QED BY <2>9, <3>1, <3>2, <3>3, <3>4, <3>5, <3>6 DEF TurnStep
  <2>10. CASE UNCHANGED vars
    BY <2>0, <2>10 DEF vars, turnVars
  <2>11. QED
    BY <2>1, <2>2, <2>3, <2>4, <2>5, <2>6, <2>7, <2>8, <2>9, <2>10
    DEF Next, HostStep, CallStep
<1>3. QED BY <1>1, <1>2, TypeCorrect, PTL DEF Spec

(***************************************************************************)
(* A parked waiter waits for a run that is still running.                  *)
(***************************************************************************)

\* Whatever the host does, the touch() that takes a run out of "running" wakes
\* every wait() parked on it.
THEOREM NoWaiterStranded == Spec => []NoStrandedWaiter
<1>1. Init => NoStrandedWaiter
  BY DEF Init, NoStrandedWaiter, NoCall
<1>2. TypeOK /\ NoStrandedWaiter /\ [Next]_vars => NoStrandedWaiter'
  <2> SUFFICES ASSUME TypeOK, NoStrandedWaiter, [Next]_vars PROVE NoStrandedWaiter'
    OBVIOUS
  <2>0. ASSUME \A d \in Calls : call'[d].at = "parked" =>
                  /\ call[d].at = "parked" /\ call'[d].run = call[d].run
                  /\ status[call[d].run] = "running" =>
                       status'[call[d].run] = "running"
        PROVE  NoStrandedWaiter'
    BY <2>0 DEF NoStrandedWaiter
  <2>1. ASSUME NEW rs, call' = WakeWaiters(call, rs),
               \A r \in Runs \ rs : status'[r] = status[r]
        PROVE  NoStrandedWaiter'
    <3> SUFFICES ASSUME NEW d \in Calls, call'[d].at = "parked"
                 PROVE  status'[call'[d].run] = "running"
      BY DEF NoStrandedWaiter
    <3>1. call[d].at = "parked" /\ call[d].run \notin rs /\ call'[d] = call[d]
      BY <2>1 DEF WakeWaiters, TypeOK
    <3>2. status[call[d].run] = "running" /\ call[d].run \in Runs
      BY <3>1 DEF NoStrandedWaiter, TypeOK, NoCall
    <3>3. QED BY <2>1, <3>1, <3>2
  <2>2. ASSUME NEW r \in Runs, StartRun(r) PROVE NoStrandedWaiter'
    BY <2>0, <2>2 DEF StartRun, callVars, TypeOK
  <2>3. ASSUME NEW r \in Runs, Interrupt(r) PROVE NoStrandedWaiter'
    BY <2>1, <2>3 DEF Interrupt, Stop
  <2>4. ASSUME NEW r \in Runs, Close(r) PROVE NoStrandedWaiter'
    <3>1. CASE status[r] # "closed"
      BY <2>1, <2>4, <3>1 DEF Close, Stop
    <3>2. CASE status[r] = "closed"
      BY <2>0, <2>4, <3>2 DEF Close
    <3>3. QED BY <3>1, <3>2
  <2>5. ASSUME NEW c \in Calls, NEW r \in Runs,
               HoldMessage(c, r) \/ Steer(c, r) \/ FollowUp(c, r)
        PROVE  NoStrandedWaiter'
    <3>1. call'[c].at # "parked" /\ \A d \in Calls \ {c} : call'[d] = call[d]
      BY <2>5 DEF HoldMessage, Steer, FollowUp, TypeOK, NoCall
    <3>2. \A q \in Runs : status[q] = "running" => status'[q] = "running"
      BY <2>5 DEF HoldMessage, Steer, FollowUp, TypeOK
    <3>3. \A d \in Calls : call[d].at = "parked" => call[d].run \in Runs
      BY DEF TypeOK, NoCall
    <3>4. QED BY <2>0, <3>1, <3>2, <3>3
  <2>6. ASSUME NEW c \in Calls, NEW r \in Runs, Wait(c, r) PROVE NoStrandedWaiter'
    BY <2>6 DEF Wait, NoStrandedWaiter, TypeOK
  <2>7. ASSUME NEW c \in Calls, WaitAborts(c) \/ WaitReturns(c)
        PROVE  NoStrandedWaiter'
    <3>1. call'[c].at # "parked" /\ \A d \in Calls \ {c} : call'[d] = call[d]
      BY <2>7 DEF WaitAborts, WaitReturns, TypeOK, NoCall
    <3>2. status' = status
      BY <2>7 DEF WaitAborts, WaitReturns
    <3>3. QED BY <2>0, <3>1, <3>2
  <2>8. ASSUME NEW c \in Calls, SteerReturns(c) PROVE NoStrandedWaiter'
    BY <2>0, <2>8 DEF SteerReturns, WakeWaiters, TypeOK, NoCall
  <2>9. CASE Shutdown
    <3> DEFINE open == {r \in Runs : status[r] \notin {"none", "closed"}}
    <3>1. Stop(open, "closed")
      BY <2>9 DEF Shutdown
    <3>2. call' = WakeWaiters(call, open) /\ \A r \in Runs \ open : status'[r] = status[r]
      BY <3>1 DEF Stop
    <3> QED BY <2>1, <3>2
  <2>10. ASSUME NEW k \in Closers, NEW r \in Runs, CloseStep(k, r)
         PROVE  NoStrandedWaiter'
    BY <2>0, <2>10 DEF CloseStep, CloseDisposes, CloseDetaches, CloseReturns
  <2>11. CASE ShutdownReturns
    BY <2>0, <2>11 DEF ShutdownReturns
  <2>12. ASSUME NEW t \in Turns, TurnStep(t) PROVE NoStrandedWaiter'
    <3>1. CASE ResumeQueued(t) \/ BeginTurn(t) \/ SessionCreated(t) \/ SessionDiscarded(t)
      BY <2>0, <3>1
      DEF ResumeQueued, BeginTurn, SessionCreated, SessionDiscarded, callVars
    <3>2. ASSUME NEW outcome, SettleRun(t, outcome) PROVE NoStrandedWaiter'
      <4>1. CASE call' = WakeWaiters(call, {runOf[t]})
        BY <2>1, <3>2, <4>1 DEF SettleRun, TypeOK
      <4>2. CASE UNCHANGED <<status, call>>
        BY <2>0, <4>2
      <4>3. QED BY <3>2, <4>1, <4>2 DEF SettleRun
    <3>3. QED BY <2>12, <3>1, <3>2 DEF TurnStep, CreationFails, PromptSettles
  <2>13. CASE UNCHANGED vars
    BY <2>0, <2>13 DEF vars, callVars
  <2>14. ASSUME NEW c \in Calls, MessageResumes(c) PROVE NoStrandedWaiter'
    <3>1. call[c].run \in Runs
      BY <2>14 DEF TypeOK, MessageResumes, NoCall
    <3>2. QED BY <2>5, <2>14, <3>1 DEF MessageResumes
  <2>15. QED
    BY <2>2, <2>3, <2>4, <2>5, <2>6, <2>7, <2>8, <2>9, <2>10, <2>11, <2>12,
       <2>13, <2>14
    DEF Next, HostStep, CallStep, Message
<1>3. QED BY <1>1, <1>2, TypeCorrect, PTL DEF Spec

(***************************************************************************)
(* The slot pool: the counter, the queue and the woken turns agree.        *)
(***************************************************************************)

Pool == SlotAccounting /\ QueuedOnce /\ NoIdleSlotWhileQueued

\* Sets of turns are finite, so they can be counted.
LEMMA TurnsCount ==
  /\ IsFiniteSet(Holders) /\ Cardinality(Holders) \in Nat
  /\ IsFiniteSet(Woken) /\ Cardinality(Woken) \in Nat
<1>1. Holders \subseteq Turns /\ Woken \subseteq Turns
  BY DEF Holders, Woken
<1>2. QED BY <1>1, RunControllerAssumption, FS_Subset, FS_CardinalityType

\* A step that moves no turn into or out of a slot and leaves the queue alone
\* keeps the pool as it is.
LEMMA PoolUnmoved ==
  ASSUME TypeOK, Pool, UNCHANGED <<active, queue>>, Holders' = Holders,
         Woken' = Woken,
         \A t \in Turns : pc'[t] = "queued" <=> pc[t] = "queued"
  PROVE  Pool'
<1>1. SlotAccounting' /\ NoIdleSlotWhileQueued'
  BY DEF Pool, SlotAccounting, NoIdleSlotWhileQueued
<1>2. \A i \in DOMAIN queue : queue[i] \in Turns
  BY DEF TypeOK
<1>3. QueuedOnce'
  BY <1>2 DEF Pool, QueuedOnce
<1>4. QED BY <1>1, <1>3 DEF Pool

\* A new turn takes a free slot or joins the queue.
LEMMA LaunchKeepsPool ==
  ASSUME TypeOK, Pool, NEW r \in Runs, NEW t \in Turns, Launch(r, t)
  PROVE  Pool'
<1>0. pc[t] = "unused" /\ pc \in [Turns -> InFlight \cup {"unused", "done"}]
  BY DEF Launch, TypeOK
<1>1. CASE active < Concurrency
  <2>1. active' = active + 1 /\ queue' = queue /\ pc' = [pc EXCEPT ![t] = "starting"]
    BY <1>1, RunControllerAssumption DEF Launch, TypeOK
  <2>2. Holders' = Holders \cup {t} /\ t \notin Holders /\ Woken' = Woken
    BY <1>0, <2>1 DEF Holders, Woken, Holding
  <2>3. SlotAccounting'
    BY <2>1, <2>2, TurnsCount, FS_AddElement DEF Pool, SlotAccounting
  <2>4. QueuedOnce'
    <3>1. \A i \in DOMAIN queue : queue[i] \in Turns /\ queue[i] # t
      BY <1>0 DEF TypeOK, Pool, QueuedOnce
    <3>2. \A u \in Turns : pc'[u] = "queued" <=> pc[u] = "queued"
      BY <1>0, <2>1
    <3>3. QED BY <2>1, <3>1, <3>2 DEF Pool, QueuedOnce
  <2>5. NoIdleSlotWhileQueued'
    BY <2>1, <2>2, TurnsCount, RunControllerAssumption
    DEF Pool, NoIdleSlotWhileQueued, TypeOK
  <2>6. QED BY <2>3, <2>4, <2>5 DEF Pool
<1>2. CASE active >= Concurrency
  <2>1. /\ active' = active /\ queue' = Append(queue, t)
        /\ pc' = [pc EXCEPT ![t] = "queued"]
    BY <1>2, RunControllerAssumption DEF Launch, TypeOK
  <2>2. Holders' = Holders /\ Woken' = Woken
    BY <1>0, <2>1 DEF Holders, Woken, Holding
  <2>3. SlotAccounting' /\ NoIdleSlotWhileQueued'
    BY <1>2, <2>1, <2>2, TurnsCount, RunControllerAssumption
    DEF Pool, SlotAccounting, NoIdleSlotWhileQueued, TypeOK
  <2>4. QueuedOnce'
    <3>1. /\ queue \in Seq(Turns)
          /\ \A i \in DOMAIN queue : queue[i] \in Turns /\ queue[i] # t
      BY <1>0 DEF TypeOK, Pool, QueuedOnce
    <3>2. /\ Len(queue') = Len(queue) + 1
          /\ DOMAIN queue' = 1 .. Len(queue) + 1
          /\ queue'[Len(queue) + 1] = t
          /\ DOMAIN queue = 1 .. Len(queue)
          /\ \A i \in 1 .. Len(queue) : queue'[i] = queue[i]
      BY <2>1, <3>1
    <3>3. Len(queue) \in Nat
      BY <3>1
    <3>4. \A i \in DOMAIN queue' : i \in DOMAIN queue \/ i = Len(queue) + 1
      BY <3>2, <3>3
    <3>5. \A i \in DOMAIN queue' : pc'[queue'[i]] = "queued"
      BY <1>0, <2>1, <3>1, <3>2, <3>4 DEF Pool, QueuedOnce
    <3>6. \A i, j \in DOMAIN queue' : queue'[i] = queue'[j] => i = j
      BY <3>1, <3>2, <3>4 DEF Pool, QueuedOnce
    <3>7. ASSUME NEW u \in Turns, pc'[u] = "queued"
          PROVE  \E i \in DOMAIN queue' : queue'[i] = u
      <4>1. CASE u = t
        BY <3>2, <3>3, <4>1
      <4>2. CASE u # t
        <5>1. PICK i \in DOMAIN queue : queue[i] = u
          BY <1>0, <2>1, <3>7, <4>2 DEF Pool, QueuedOnce
        <5>2. i \in DOMAIN queue' /\ queue'[i] = u
          BY <3>2, <3>3, <5>1
        <5>3. QED BY <5>2
      <4>3. QED BY <4>1, <4>2
    <3>8. QED BY <3>5, <3>6, <3>7 DEF QueuedOnce
  <2>5. QED BY <2>3, <2>4 DEF Pool
<1>3. QED BY <1>1, <1>2, RunControllerAssumption DEF TypeOK

\* A slot given up goes to the oldest queued turn, if there is one.
LEMMA ReleaseKeepsPool ==
  ASSUME TypeOK, Pool, NEW t \in Turns, pc[t] \in Holding, ReleaseSlot(t)
  PROVE  Pool'
<1>0. /\ pc \in [Turns -> InFlight \cup {"unused", "done"}]
      /\ queue \in Seq(Turns)
      /\ active \in Int
      /\ t \in Holders
  BY DEF TypeOK, Holders
<1>1. CASE queue = <<>>
  <2>1. active' = active - 1 /\ queue' = <<>> /\ pc' = [pc EXCEPT ![t] = "done"]
    BY <1>1 DEF ReleaseSlot
  <2>2. Holders' = Holders \ {t}
    BY <1>0, <2>1 DEF Holders, Holding
  <2>3. SlotAccounting'
    BY <1>0, <2>1, <2>2, TurnsCount, FS_RemoveElement DEF Pool, SlotAccounting
  <2>4. \A u \in Turns : pc[u] # "queued"
    BY <1>1 DEF Pool, QueuedOnce
  <2>5. QueuedOnce' /\ NoIdleSlotWhileQueued'
    BY <1>0, <2>1, <2>4 DEF QueuedOnce, NoIdleSlotWhileQueued
  <2>6. QED BY <2>3, <2>5 DEF Pool
<1>2. CASE queue # <<>>
  <2> DEFINE h == Head(queue)
  <2>1. /\ Len(queue) \in Nat \ {0} /\ DOMAIN queue = 1 .. Len(queue)
        /\ h = queue[1] /\ h \in Turns
        /\ DOMAIN Tail(queue) = 1 .. Len(queue) - 1
        /\ \A i \in 1 .. Len(queue) - 1 : Tail(queue)[i] = queue[i + 1]
    BY <1>0, <1>2
  <2>2. pc[h] = "queued" /\ h # t
    BY <2>1 DEF Pool, QueuedOnce, Holding
  <2> HIDE DEF h
  <2>3. /\ active' = active - 1 /\ queue' = Tail(queue)
        /\ pc' = [pc EXCEPT ![t] = "done", ![h] = "woken"]
    BY <1>2 DEF ReleaseSlot, h
  <2>4. Holders' = Holders \ {t} /\ Woken' = Woken \cup {h} /\ h \notin Woken
    BY <1>0, <2>1, <2>2, <2>3 DEF Holders, Woken, Holding
  <2>5. SlotAccounting'
    BY <1>0, <2>3, <2>4, TurnsCount, FS_RemoveElement DEF Pool, SlotAccounting
  <2>6. NoIdleSlotWhileQueued'
    <3>1. Cardinality(Woken') = Cardinality(Woken) + 1
      BY <2>4, TurnsCount, FS_AddElement
    <3>2. Cardinality(Woken)' = Cardinality(Woken) + 1
      BY <3>1
    <3>3. active + Cardinality(Woken) >= Concurrency
      BY <1>2 DEF Pool, NoIdleSlotWhileQueued
    <3>4. QED BY <1>0, <2>3, <3>2, <3>3, TurnsCount, RunControllerAssumption
              DEF NoIdleSlotWhileQueued
  <2>7. QueuedOnce'
    <3>1. \A i \in DOMAIN queue' : /\ i + 1 \in DOMAIN queue /\ i + 1 # 1
                                   /\ queue'[i] = queue[i + 1]
                                   /\ i \in Int
      BY <2>1, <2>3
    <3>2. \A i \in DOMAIN queue' :
            queue'[i] \in Turns /\ queue'[i] # h /\ queue'[i] # t /\ pc[queue'[i]] = "queued"
      BY <1>0, <2>1, <3>1 DEF Pool, QueuedOnce, Holding
    <3>3. \A i \in DOMAIN queue' : pc'[queue'[i]] = "queued"
      BY <1>0, <2>3, <3>2
    <3>4. \A i, j \in DOMAIN queue' : queue'[i] = queue'[j] => i = j
      <4> SUFFICES ASSUME NEW i \in DOMAIN queue', NEW j \in DOMAIN queue',
                          queue'[i] = queue'[j]
                   PROVE  i = j
        OBVIOUS
      <4>1. i + 1 = j + 1
        BY <3>1 DEF Pool, QueuedOnce
      <4>2. QED BY <3>1, <4>1
    <3>5. ASSUME NEW u \in Turns, pc'[u] = "queued"
          PROVE  \E i \in DOMAIN queue' : queue'[i] = u
      <4>1. pc[u] = "queued" /\ u # h
        BY <1>0, <2>3, <3>5
      <4>2. PICK j \in DOMAIN queue : queue[j] = u
        BY <4>1 DEF Pool, QueuedOnce
      <4>3. j \in 2 .. Len(queue)
        BY <2>1, <4>1, <4>2
      <4>4. j - 1 \in DOMAIN queue' /\ queue'[j - 1] = u
        BY <2>1, <2>3, <4>2, <4>3
      <4>5. QED BY <4>4
    <3>6. QED BY <3>3, <3>4, <3>5 DEF QueuedOnce
  <2>8. QED BY <2>5, <2>6, <2>7 DEF Pool
<1>3. QED BY <1>1, <1>2

\* A woken turn resumes and counts its slot.
LEMMA ResumeKeepsPool ==
  ASSUME TypeOK, Pool, NEW t \in Turns, ResumeQueued(t)
  PROVE  Pool'
<1>0. /\ pc \in [Turns -> InFlight \cup {"unused", "done"}]
      /\ active \in Int
      /\ pc[t] = "woken" /\ active' = active + 1 /\ queue' = queue
      /\ pc' = [pc EXCEPT ![t] = "starting"]
  BY DEF TypeOK, ResumeQueued
<1>1. /\ Holders' = Holders \cup {t} /\ t \notin Holders
      /\ Woken' = Woken \ {t} /\ t \in Woken
  BY <1>0 DEF Holders, Woken, Holding
<1>2. SlotAccounting'
  BY <1>0, <1>1, TurnsCount, FS_AddElement DEF Pool, SlotAccounting
<1>3. NoIdleSlotWhileQueued'
  <2>1. Cardinality(Woken)' = Cardinality(Woken) - 1
    BY <1>1, TurnsCount, FS_RemoveElement
  <2>2. QED BY <1>0, <2>1, TurnsCount, RunControllerAssumption
            DEF Pool, NoIdleSlotWhileQueued
<1>4. QueuedOnce'
  <2>1. \A i \in DOMAIN queue : queue[i] \in Turns /\ queue[i] # t
    BY <1>0 DEF TypeOK, Pool, QueuedOnce
  <2>2. \A u \in Turns : pc'[u] = "queued" <=> pc[u] = "queued"
    BY <1>0
  <2>3. QED BY <1>0, <2>1, <2>2 DEF Pool, QueuedOnce
<1>5. QED BY <1>2, <1>3, <1>4 DEF Pool

\* A turn that holds its slot and goes on holding it.
LEMMA HolderMovesOn ==
  ASSUME TypeOK, Pool, NEW t \in Turns, pc[t] \in Holding, NEW next \in Holding,
         pc' = [pc EXCEPT ![t] = next], UNCHANGED <<active, queue>>
  PROVE  Pool'
<1>1. pc \in [Turns -> InFlight \cup {"unused", "done"}]
  BY DEF TypeOK
<1>2. Holders' = Holders /\ Woken' = Woken
  BY <1>1 DEF Holders, Woken, Holding
<1>3. \A u \in Turns : pc'[u] = "queued" <=> pc[u] = "queued"
  BY <1>1 DEF Holding
<1>4. QED BY <1>2, <1>3, PoolUnmoved

\* acquireSlot() and releaseSlot() keep their books, whatever the host does:
\* the counter is the number of turns that hold a slot, no queued turn is
\* lost, and a slot given up is handed on.
THEOREM PoolKept == Spec => [](SlotAccounting /\ QueuedOnce /\ NoIdleSlotWhileQueued)
<1>1. Init => Pool
  <2> SUFFICES ASSUME Init PROVE Pool
    OBVIOUS
  <2>1. Holders = {} /\ queue = <<>> /\ active = 0
    BY DEF Init, Holders, Holding
  <2>2. QED BY <2>1, FS_EmptySet
            DEF Init, Pool, SlotAccounting, QueuedOnce, NoIdleSlotWhileQueued
<1>2. TypeOK /\ Pool /\ [Next]_vars => Pool'
  <2> SUFFICES ASSUME TypeOK, Pool, [Next]_vars PROVE Pool'
    OBVIOUS
  <2>0. ASSUME UNCHANGED <<active, queue, pc>> PROVE Pool'
    BY <2>0, PoolUnmoved DEF Holders, Woken
  <2>1. ASSUME NEW r \in Runs, StartRun(r) PROVE Pool'
    BY <2>1, LaunchKeepsPool DEF StartRun, Unused
  <2>2. ASSUME NEW r \in Runs, Interrupt(r) \/ Close(r) PROVE Pool'
    BY <2>0, <2>2 DEF Interrupt, Close, turnVars
  <2>3. ASSUME NEW c \in Calls, NEW r \in Runs,
               HoldMessage(c, r) \/ Steer(c, r) \/ FollowUp(c, r)
        PROVE  Pool'
    BY <2>0, <2>3, LaunchKeepsPool DEF HoldMessage, Steer, FollowUp, turnVars, Unused
  <2>4. ASSUME NEW c \in Calls, MessageResumes(c) PROVE Pool'
    <3>1. call[c].run \in Runs
      BY <2>4 DEF TypeOK, MessageResumes, NoCall
    <3>2. QED BY <2>3, <2>4, <3>1 DEF MessageResumes
  <2>5. ASSUME NEW c \in Calls,
               \/ \E r \in Runs : Wait(c, r)
               \/ WaitAborts(c) \/ WaitReturns(c) \/ SteerReturns(c)
        PROVE  Pool'
    BY <2>0, <2>5 DEF Wait, WaitAborts, WaitReturns, SteerReturns, turnVars
  <2>6. CASE Shutdown \/ ShutdownReturns
    BY <2>0, <2>6 DEF Shutdown, ShutdownReturns, turnVars
  <2>7. ASSUME NEW k \in Closers, NEW r \in Runs, CloseStep(k, r) PROVE Pool'
    BY <2>0, <2>7 DEF CloseStep, CloseDisposes, CloseDetaches, CloseReturns, turnVars
  <2>8. ASSUME NEW t \in Turns, TurnStep(t) PROVE Pool'
    <3>1. CASE ResumeQueued(t)
      BY <3>1, ResumeKeepsPool
    <3>2. CASE BeginTurn(t)
      BY <3>2, ReleaseKeepsPool, HolderMovesOn DEF BeginTurn, Holding
    <3>3. CASE SessionCreated(t)
      BY <3>3, HolderMovesOn DEF SessionCreated, Holding
    <3>4. CASE SessionDiscarded(t) \/ CreationFails(t) \/ PromptSettles(t)
      BY <3>4, ReleaseKeepsPool
      DEF SessionDiscarded, CreationFails, PromptSettles, SettleRun, Holding
    <3>5. QED BY <2>8, <3>1, <3>2, <3>3, <3>4 DEF TurnStep
  <2>9. CASE UNCHANGED vars
    BY <2>0, <2>9 DEF vars, turnVars
  <2>10. QED
    BY <2>1, <2>2, <2>3, <2>4, <2>5, <2>6, <2>7, <2>8, <2>9
    DEF Next, HostStep, CallStep, Message
<1>3. Pool => SlotAccounting /\ QueuedOnce /\ NoIdleSlotWhileQueued
  BY DEF Pool
<1>4. QED BY <1>1, <1>2, <1>3, TypeCorrect, PTL DEF Spec

\* A released slot goes to a turn that waits for it, and settling a run wakes
\* those who wait for it: nobody waits in vain.
THEOREM NobodyIsStranded == Spec => []NobodyWaitsInVain
BY NoWaiterStranded, PoolKept, PTL DEF NobodyWaitsInVain
(***************************************************************************)
(* A host that serialises its calls (SerialHost).                          *)
(***************************************************************************)

\* A turn belongs to a run once it was launched, only the latest turn of a
\* run that it has not settled is in flight, and what it made is the run's or
\* disposed.
TurnFits(t) ==
  /\ pc[t] = "unused" <=> runOf[t] = NoRun
  /\ pc[t] \in InFlight => /\ settled[runOf[t]] = t
                          /\ status[runOf[t]] \in {"running", "interrupted", "closed"}
  /\ pc[t] = "creating" => handle[runOf[t]] = NoTurn
  /\ pc[t] = "discarding" => session[t] = "disposed" /\ handle[runOf[t]] \in {t, NoTurn}
  /\ session[t] # "none" => pc[t] # "unused"
  /\ session[t] = "live" => handle[runOf[t]] = t
  /\ t \in stopped => /\ pc[t] # "unused"
                      /\ pc[t] \in InFlight => status[runOf[t]] \in {"interrupted", "closed"}

\* The run's session is not one that still has to be disposed.
Released(r) == handle[r] = NoTurn \/ session[handle[r]] # "live"

\* A run that was started has a latest turn, and a closed one whose session
\* nobody is about to dispose has none that is live.
RunFits(r) ==
  /\ status[r] = "none" => settled[r] = NoTurn /\ handle[r] = NoTurn
  /\ status[r] # "none" => settled[r] \in Turns /\ runOf[settled[r]] = r
  /\ handle[r] # NoTurn => runOf[handle[r]] = r
  /\ status[r] = "closed" /\ (\A k \in Closers : closing[k][r].at # "aborting")
       => Released(r)

\* A call is alone on a run that is open; a held message waits for its
\* latest turn.
CallFits(c) ==
  call[c].at # "idle" =>
    /\ status[call[c].run] \notin {"none", "closed"}
    /\ call[c].at = "held" => call[c].on = settled[call[c].run]
    /\ \A d \in Calls \ {c} : call[d].run # call[c].run

\* A close() in flight closed its run and waits for its latest turn.
CloseFits(k, r) ==
  closing[k][r].at # "idle" =>
    /\ status[r] = "closed"
    /\ closing[k][r].at = "disposing" => Released(r)
    /\ closing[k][r].at = "settling" => closing[k][r].on = settled[r]

\* Once shutdown() was called no run is open, and those it has closed and left
\* have quiesced.
DownFits ==
  /\ down = "no" => \A r \in Runs : closing["shutdown"][r].at = "idle"
  /\ down # "no" => \A r \in Runs :
       /\ status[r] \in {"none", "closed"}
       /\ closing["tool"][r].at = "idle"
       /\ closing["shutdown"][r].at = "idle" => InFlightOn(r) = {}
  /\ down = "done" => \A r \in Runs : closing["shutdown"][r].at = "idle"

SerialInv ==
  /\ \A t \in Turns : TurnFits(t)
  /\ \A r \in Runs : RunFits(r)
  /\ \A c \in Calls : CallFits(c)
  /\ \A k \in Closers, r \in Runs : CloseFits(k, r)
  /\ DownFits

(* The invariant is proved action by action.  What the handlers share comes  *)
(* first.                                                                    *)

\* A slot given up ends its turn and wakes at most a queued one.
LEMMA ReleaseMoves ==
  ASSUME TypeOK, Pool, NEW t \in Turns, pc[t] \in Holding, ReleaseSlot(t)
  PROVE  /\ pc'[t] = "done"
         /\ \A u \in Turns \ {t} :
              pc'[u] = pc[u] \/ (pc[u] = "queued" /\ pc'[u] = "woken")
<1>1. CASE queue = <<>>
  BY <1>1 DEF TypeOK, ReleaseSlot
<1>2. CASE queue # <<>>
  <2>1. Head(queue) = queue[1] /\ 1 \in DOMAIN queue /\ queue[1] \in Turns
    BY <1>2 DEF TypeOK
  <2>2. pc[Head(queue)] = "queued"
    BY <2>1 DEF Pool, QueuedOnce
  <2>3. pc' = [pc EXCEPT ![t] = "done", ![Head(queue)] = "woken"]
    BY <1>2 DEF ReleaseSlot
  <2>4. Head(queue) # t
    BY <2>2 DEF Holding
  <2>5. QED BY <2>1, <2>2, <2>3, <2>4 DEF TypeOK
<1>3. QED BY <1>1, <1>2

\* Every call either ends or goes on with the run it has.
CallsGoOn ==
  \A c \in Calls :
    \/ call'[c] = NoCall
    \/ /\ call'[c].at = "idle" <=> call[c].at = "idle"
       /\ call'[c].run = call[c].run
       /\ call'[c].at = "held" => call[c].at = "held" /\ call'[c].on = call[c].on

\* Calls that go on fit as long as their runs stay open and keep their turn.
LEMMA CallsStillFit ==
  ASSUME TypeOK, \A c \in Calls : CallFits(c), CallsGoOn,
         \A c \in Calls : call'[c].at # "idle" =>
           /\ status'[call[c].run] \notin {"none", "closed"}
           /\ settled'[call[c].run] = settled[call[c].run]
  PROVE  \A c \in Calls : CallFits(c)'
<1> SUFFICES ASSUME NEW c \in Calls, call'[c].at # "idle"
             PROVE  /\ status'[call'[c].run] \notin {"none", "closed"}
                    /\ call'[c].at = "held" => call'[c].on = settled'[call'[c].run]
                    /\ \A d \in Calls \ {c} : call'[d].run # call'[c].run
  BY DEF CallFits
<1>1. /\ call[c].at # "idle" /\ call'[c].run = call[c].run
      /\ call'[c].at = "held" => call[c].at = "held" /\ call'[c].on = call[c].on
  BY DEF CallsGoOn, NoCall
<1>2. call[c].run \in Runs
  BY <1>1 DEF TypeOK, NoCall
<1>3. \A d \in Calls \ {c} : call'[d].run # call'[c].run
  <2>1. \A d \in Calls \ {c} : call[d].run # call[c].run
    BY <1>1 DEF CallFits
  <2>2. QED BY <1>1, <1>2, <2>1, RunControllerAssumption DEF CallsGoOn, NoCall
<1>4. QED BY <1>1, <1>3 DEF CallFits

\* Waking waiters lets every call go on.
LEMMA WokenGoOn ==
  ASSUME NEW rs, call' = WakeWaiters(call, rs), TypeOK
  PROVE  CallsGoOn
BY DEF WakeWaiters, CallsGoOn, TypeOK, NoCall

\* A new call on a run that has none is alone on it.
LEMMA NewCallFits ==
  ASSUME TypeOK, \A c \in Calls : CallFits(c), NEW c \in Calls, NEW r \in Runs,
         NEW new \in CallType, call' = [call EXCEPT ![c] = new],
         new.run = r, status[r] \notin {"none", "closed"},
         new.at = "held" => new.on = settled[r],
         \A d \in Calls : call[d].run # r, UNCHANGED <<status, settled>>
  PROVE  \A d \in Calls : CallFits(d)'
BY DEF CallFits, TypeOK

\* A step of the calls alone disturbs nothing else.
LEMMA CallsAside ==
  ASSUME SerialInv, \A c \in Calls : CallFits(c)',
         UNCHANGED <<status, handle, settled, turnVars, closing, down, stopped>>
  PROVE  SerialInv'
<1>1. \A t \in Turns : TurnFits(t)'
  BY DEF SerialInv, TurnFits, turnVars
<1>2. \A r \in Runs : RunFits(r)'
  BY DEF SerialInv, RunFits, Released, turnVars
<1>3. \A k \in Closers, r \in Runs : CloseFits(k, r)'
  BY DEF SerialInv, CloseFits, Released, turnVars
<1>4. DownFits'
  BY DEF SerialInv, DownFits, InFlightOn, turnVars
<1>5. QED BY <1>1, <1>2, <1>3, <1>4 DEF SerialInv

\* The steps of a call that leave the runs alone.
LEMMA CallStepsFit ==
  ASSUME SerialHost, TypeOK, SerialInv, NEW c \in Calls,
         \/ WaitAborts(c) \/ WaitReturns(c) \/ SteerReturns(c)
         \/ MessageResumes(c) /\ Steer(c, call[c].run)
  PROVE  SerialInv'
<1>1. UNCHANGED <<status, handle, settled, turnVars, closing, down, stopped>>
  BY DEF WaitAborts, WaitReturns, SteerReturns, Steer
<1>2. CallsGoOn
  <2>1. CASE WaitAborts(c) \/ WaitReturns(c)
    BY <2>1 DEF WaitAborts, WaitReturns, CallsGoOn, TypeOK
  <2>2. CASE SteerReturns(c)
    BY <2>2 DEF SteerReturns, WakeWaiters, CallsGoOn, TypeOK, NoCall
  <2>3. CASE MessageResumes(c) /\ Steer(c, call[c].run)
    BY <2>3 DEF MessageResumes, Steer, CallsGoOn, TypeOK
  <2>4. QED BY <2>1, <2>2, <2>3
<1>3. \A d \in Calls : call'[d].at # "idle" => call[d].at # "idle"
  BY <1>2 DEF CallsGoOn, NoCall
<1>4. \A d \in Calls : call'[d].at # "idle" => status[call[d].run] \notin {"none", "closed"}
  BY <1>3 DEF SerialInv, CallFits
<1>5. \A d \in Calls : CallFits(d)'
  BY <1>1, <1>2, <1>4, CallsStillFit DEF SerialInv
<1>6. QED BY <1>1, <1>5, CallsAside

\* A call the host makes.
LEMMA HostCallsFit ==
  ASSUME SerialHost, TypeOK, SerialInv, NEW c \in Calls, NEW r \in Runs, HostMayCall(r),
         \/ status[r] \notin {"none", "closed"} /\ (HoldMessage(c, r) \/ Steer(c, r))
         \/ Wait(c, r)
  PROVE  SerialInv'
<1>1. UNCHANGED <<status, handle, settled, turnVars, closing, down, stopped>>
  BY DEF HoldMessage, Steer, Wait
<1>2. \A d \in Calls : call[d].run # r
  BY DEF HostMayCall
<1>3. PICK new : /\ call' = [call EXCEPT ![c] = new]
                 /\ new \in {[at |-> "held", run |-> r, on |-> settled[r]],
                             [at |-> "steering", run |-> r, on |-> NoTurn],
                             [at |-> "parked", run |-> r, on |-> NoTurn]}
  BY DEF HoldMessage, Steer, Wait
<1>4. new \in CallType /\ new.run = r /\ (new.at = "held" => new.on = settled[r])
  BY <1>3 DEF CallType, TypeOK
<1>5. status[r] \notin {"none", "closed"}
  BY DEF Wait
<1>6. \A d \in Calls : CallFits(d)'
  BY <1>1, <1>2, <1>3, <1>4, <1>5, NewCallFits DEF SerialInv
<1>7. QED BY <1>1, <1>6, CallsAside

\* A new turn of a run that is open to one, on which nothing else goes on.
LEMMA LaunchFits ==
  ASSUME TypeOK, SerialInv, NEW r \in Runs, NEW t \in Turns, Launch(r, t),
         down = "no", InFlightOn(r) = {}, status[r] # "closed",
         status' = [status EXCEPT ![r] = "running"],
         UNCHANGED <<handle, session, closing, down, stopped>>,
         \A d \in Calls : \/ call'[d] = NoCall
                          \/ call[d].run # r /\ call'[d] = call[d]
  PROVE  SerialInv'
<1>1. /\ pc[t] = "unused" /\ pc'[t] \in {"starting", "queued"}
      /\ \A u \in Turns \ {t} : pc'[u] = pc[u]
      /\ runOf' = [runOf EXCEPT ![t] = r]
      /\ settled' = [settled EXCEPT ![r] = t]
  BY DEF TypeOK, Launch
<1>2. runOf[t] = NoRun /\ session[t] = "none" /\ t \notin stopped
  BY <1>1 DEF SerialInv, TurnFits, TypeOK
<1>3. ASSUME NEW u \in Turns PROVE TurnFits(u)'
  <2>1. CASE u = t
    BY <1>1, <1>2, <2>1, RunControllerAssumption DEF TurnFits, TypeOK, InFlight, Holding
  <2>2. CASE u # t
    <3>1. TurnFits(u) /\ (runOf[u] = r => pc[u] \notin InFlight)
      BY DEF SerialInv, InFlightOn
    <3>2. /\ pc'[u] = pc[u] /\ runOf'[u] = runOf[u]
          /\ runOf[u] # r => /\ settled'[runOf[u]] = settled[runOf[u]]
                             /\ status'[runOf[u]] = status[runOf[u]]
      BY <1>1, <2>2 DEF TypeOK
    <3>3. QED BY <3>1, <3>2 DEF TurnFits
  <2>3. QED BY <2>1, <2>2
<1>4. ASSUME NEW q \in Runs PROVE RunFits(q)'
  <2>1. RunFits(q) /\ (handle[q] # NoTurn => handle[q] \in Turns /\ handle[q] # t)
    BY <1>2, RunControllerAssumption DEF SerialInv, RunFits, TypeOK
  <2>2. /\ q = r => /\ status'[q] = "running" /\ settled'[q] = t /\ runOf'[t] = q
        /\ q # r => /\ status'[q] = status[q] /\ settled'[q] = settled[q]
                    /\ status[q] # "none" => settled[q] # t
        /\ \A u \in Turns \ {t} : runOf'[u] = runOf[u]
    BY <1>1, <1>2, <2>1, RunControllerAssumption DEF TypeOK, RunFits
  <2>3. QED BY <2>1, <2>2 DEF RunFits, Released
<1>5. \A d \in Calls : CallFits(d)'
  <2>1. ASSUME NEW d \in Calls, call'[d].at # "idle"
        PROVE  /\ status'[call[d].run] \notin {"none", "closed"}
               /\ settled'[call[d].run] = settled[call[d].run]
    <3>1. call[d].run \in Runs /\ call[d].run # r /\ call[d].at # "idle"
      BY <2>1 DEF NoCall, TypeOK
    <3>2. QED BY <1>1, <3>1 DEF SerialInv, CallFits, TypeOK
  <2>2. CallsGoOn
    BY DEF CallsGoOn
  <2>3. QED BY <2>1, <2>2, CallsStillFit DEF SerialInv
<1>6. ASSUME NEW k \in Closers, NEW q \in Runs PROVE CloseFits(k, q)'
  <2>1. CloseFits(k, q) /\ (q # r => settled'[q] = settled[q] /\ status'[q] = status[q])
    BY <1>1 DEF SerialInv, TypeOK
  <2>2. QED BY <2>1 DEF CloseFits, Released
<1>7. DownFits'
  BY DEF SerialInv, DownFits
<1>8. QED BY <1>3, <1>4, <1>5, <1>6, <1>7 DEF SerialInv

\* Nobody holds a run that has a free turn to give: the turn a held message
\* waited for is the latest of its run and it is over.
LEMMA LatestIsOver ==
  ASSUME TypeOK, SerialInv, NEW r \in Runs, status[r] # "none", pc[settled[r]] = "done"
  PROVE  InFlightOn(r) = {}
BY DEF SerialInv, TurnFits, InFlightOn, InFlight, Holding

\* The three ways a turn begins.
LEMMA BeginningsFit ==
  ASSUME SerialHost, TypeOK, RunningIsBacked, SerialInv, NEW r \in Runs,
         \/ StartRun(r)
         \/ \E c \in Calls : Message(c, r) /\ status[r] # "running" /\ FollowUp(c, r)
         \/ \E c \in Calls : MessageResumes(c) /\ call[c].run = r /\ FollowUp(c, r)
  PROVE  SerialInv'
<1>1. CASE StartRun(r)
  <2>1. InFlightOn(r) = {} /\ down = "no" /\ \A d \in Calls : call[d].run # r
    BY <1>1 DEF StartRun, HostMayCall
  <2>2. PICK t \in Turns : Launch(r, t)
    BY <1>1 DEF StartRun, Unused
  <2>3. QED BY <1>1, <2>1, <2>2, LaunchFits DEF StartRun, callVars
<1>2. ASSUME NEW c \in Calls, Message(c, r), status[r] # "running", FollowUp(c, r)
      PROVE  SerialInv'
  <2>1. /\ InFlightOn(r) = {} /\ down = "no" /\ status[r] # "closed"
        /\ \A d \in Calls : call[d].run # r
    BY <1>2 DEF Message, HostMayCall
  <2>2. PICK t \in Turns : Launch(r, t)
    BY <1>2 DEF FollowUp, Unused
  <2>3. \A d \in Calls : \/ call'[d] = NoCall
                         \/ call[d].run # r /\ call'[d] = call[d]
    BY <1>2, <2>1 DEF FollowUp, TypeOK
  <2>4. QED BY <1>2, <2>1, <2>2, <2>3, LaunchFits DEF FollowUp
<1>3. ASSUME NEW c \in Calls, MessageResumes(c), call[c].run = r, FollowUp(c, r)
      PROVE  SerialInv'
  <2>1. /\ status[r] \notin {"none", "closed"} /\ pc[settled[r]] = "done"
        /\ \A d \in Calls \ {c} : call[d].run # r
    BY <1>3 DEF MessageResumes, SerialInv, CallFits
  <2>2. InFlightOn(r) = {}
    BY <2>1, LatestIsOver
  <2>3. down = "no"
    BY <2>1 DEF SerialInv, DownFits, TypeOK
  <2>4. PICK t \in Turns : Launch(r, t)
    BY <1>3 DEF FollowUp, Unused
  <2>5. \A d \in Calls : \/ call'[d] = NoCall
                         \/ call[d].run # r /\ call'[d] = call[d]
    BY <1>3, <2>1 DEF FollowUp, TypeOK
  <2>6. QED BY <1>3, <2>1, <2>2, <2>3, <2>4, <2>5, LaunchFits DEF FollowUp
<1>4. QED BY <1>1, <1>2, <1>3

\* The turns of runs that are stopped.
LEMMA StopKeepsTurns ==
  ASSUME TypeOK, \A t \in Turns : TurnFits(t), NEW rs \in SUBSET Runs,
         NEW st \in {"interrupted", "closed"}, Stop(rs, st),
         UNCHANGED <<handle, settled, pc, runOf, session>>
  PROVE  \A t \in Turns : TurnFits(t)'
<1> SUFFICES ASSUME NEW t \in Turns PROVE TurnFits(t)'
  OBVIOUS
<1>1. TurnFits(t)
  OBVIOUS
<1>2. t \in stopped' /\ pc[t] \in InFlight =>
        pc[t] # "unused" /\ status'[runOf[t]] \in {"interrupted", "closed"}
  <2> SUFFICES ASSUME t \in stopped', pc[t] \in InFlight
               PROVE  pc[t] # "unused" /\ status'[runOf[t]] \in {"interrupted", "closed"}
    OBVIOUS
  <2>1. runOf[t] \in Runs /\ pc[t] # "unused"
    BY <1>1 DEF TurnFits, TypeOK, InFlight, Holding
  <2>2. status'[runOf[t]] = st \/ (runOf[t] \notin rs /\ status'[runOf[t]] = status[runOf[t]])
    BY <2>1 DEF Stop
  <2>3. CASE runOf[t] \notin rs
    <3>1. t \in stopped
      BY <2>3 DEF Stop, InFlightOn
    <3>2. QED BY <1>1, <2>2, <3>1 DEF TurnFits
  <2>4. QED BY <2>1, <2>2, <2>3
<1>3. t \in stopped' => t \in stopped \/ pc[t] \in InFlight
  BY DEF Stop, InFlightOn
<1>4. pc[t] \in InFlight => status'[runOf[t]] \in {status[runOf[t]], st}
  BY <1>1 DEF Stop, TurnFits, TypeOK, InFlight, Holding
<1>5. QED BY <1>1, <1>2, <1>3, <1>4 DEF TurnFits

\* Nobody waits on a run that nobody calls.
LEMMA StopWakesNobody ==
  ASSUME TypeOK, \A c \in Calls : CallFits(c), NEW rs \in SUBSET Runs, NEW st,
         Stop(rs, st), UNCHANGED settled, \A c \in Calls : call[c].run \notin rs
  PROVE  \A c \in Calls : CallFits(c)'
<1>1. CallsGoOn
  BY WokenGoOn DEF Stop
<1>2. ASSUME NEW c \in Calls, call'[c].at # "idle"
      PROVE  status'[call[c].run] \notin {"none", "closed"}
  <2>1. call[c].at # "idle"
    BY <1>1, <1>2 DEF CallsGoOn, NoCall
  <2>2. call[c].run \in Runs \ rs /\ status[call[c].run] \notin {"none", "closed"}
    BY <2>1 DEF TypeOK, NoCall, CallFits
  <2>3. QED BY <2>2 DEF Stop
<1>3. QED BY <1>1, <1>2, CallsStillFit

\* interrupt().
LEMMA InterruptFits ==
  ASSUME SerialHost, TypeOK, SerialInv, NEW r \in Runs, Interrupt(r)
  PROVE  SerialInv'
<1>1. /\ down = "no" /\ status[r] = "running" /\ \A c \in Calls : call[c].run # r
      /\ Stop({r}, "interrupted")
      /\ UNCHANGED <<handle, settled, pc, runOf, session, closing, down>>
  BY DEF Interrupt, HostMayCall, turnVars
<1>2. \A t \in Turns : TurnFits(t)'
  BY <1>1, StopKeepsTurns DEF SerialInv
<1>3. \A c \in Calls : CallFits(c)'
  BY <1>1, StopWakesNobody DEF SerialInv
<1>4. status' = [status EXCEPT ![r] = "interrupted"]
  BY <1>1 DEF Stop, TypeOK
<1>5. \A q \in Runs : RunFits(q)'
  BY <1>1, <1>4 DEF SerialInv, RunFits, Released, TypeOK
<1>6. \A k \in Closers, q \in Runs : CloseFits(k, q)'
  BY <1>1, <1>4 DEF SerialInv, CloseFits, Released, TypeOK
<1>7. DownFits'
  BY <1>1 DEF SerialInv, DownFits
<1>8. QED BY <1>2, <1>3, <1>5, <1>6, <1>7 DEF SerialInv

\* Disposing the session a closed run holds.
LEMMA DisposeFits ==
  ASSUME TypeOK, SerialInv, NEW k \in Closers, NEW r \in Runs, Dispose(k, r),
         status[r] = "closed", down # "no" => k = "shutdown",
         k = "shutdown" => closing[k][r].at # "idle",
         UNCHANGED <<status, handle, settled, active, queue, pc, runOf, call, down, stopped>>
  PROVE  SerialInv'
<1>1. \A u \in Turns : session'[u] = IF u = handle[r] THEN "disposed" ELSE session[u]
  BY DEF Dispose
<1>2. \A j \in Closers, q \in Runs :
        closing'[j][q] = IF j = k /\ q = r THEN [at |-> "disposing", on |-> NoTurn]
                         ELSE closing[j][q]
  BY DEF Dispose, TypeOK
<1>3. handle[r] # NoTurn => handle[r] \in Turns /\ pc[handle[r]] # "unused"
  BY RunControllerAssumption DEF SerialInv, RunFits, TurnFits, TypeOK
<1>4. \A q \in Runs : Released(q) => Released(q)'
  BY <1>1 DEF Released, TypeOK
<1>5. Released(r)'
  BY <1>1 DEF Released, TypeOK
<1>6. \A u \in Turns : TurnFits(u)'
  BY <1>1, <1>3, RunControllerAssumption DEF SerialInv, TurnFits
<1>7. ASSUME NEW q \in Runs PROVE RunFits(q)'
  <2>1. RunFits(q)
    BY DEF SerialInv
  <2>2. q # r => \A j \in Closers : closing'[j][q] = closing[j][q]
    BY <1>2
  <2>3. QED BY <1>4, <1>5, <2>1, <2>2 DEF RunFits
<1>8. \A c \in Calls : CallFits(c)'
  BY DEF SerialInv, CallFits
<1>9. ASSUME NEW j \in Closers, NEW q \in Runs PROVE CloseFits(j, q)'
  BY <1>2, <1>4, <1>5 DEF SerialInv, CloseFits
<1>10. DownFits'
  <2>1. InFlightOn(r)' = InFlightOn(r) /\ \A q \in Runs : InFlightOn(q)' = InFlightOn(q)
    BY DEF InFlightOn
  <2>2. k = "shutdown" => down # "no" /\ down # "done"
    BY DEF SerialInv, DownFits
  <2>3. "tool" \in Closers /\ "shutdown" \in Closers
    BY DEF Closers
  <2>4. \A q \in Runs : /\ closing'["tool"][q].at = closing["tool"][q].at
                           \/ (k = "tool" /\ q = r)
                        /\ closing'["shutdown"][q].at = closing["shutdown"][q].at
                           \/ (k = "shutdown" /\ q = r /\ closing'["shutdown"][q].at = "disposing")
    BY <1>2, <2>3
  <2>5. k = "tool" => down = "no"
    OBVIOUS
  <2>6. QED BY <2>1, <2>2, <2>4, <2>5 DEF SerialInv, DownFits, Closers
<1>11. QED BY <1>6, <1>7, <1>8, <1>9, <1>10 DEF SerialInv

\* close() up to its first await.
LEMMA CloseBegins ==
  ASSUME SerialHost, TypeOK, SerialInv, NEW r \in Runs, Close(r)
  PROVE  SerialInv'
<1>1. /\ down = "no" /\ status[r] # "none" /\ \A c \in Calls : call[c].run # r
      /\ UNCHANGED <<handle, settled, active, queue, pc, runOf, down>>
  BY DEF Close, HostMayCall
<1>2. CASE status[r] = "closed"
  BY <1>1, <1>2, DisposeFits DEF Close, Closers
<1>3. CASE status[r] # "closed"
  <2>1. /\ Stop({r}, "closed") /\ UNCHANGED session
        /\ closing' = [closing EXCEPT !["tool"][r] = [at |-> "aborting", on |-> NoTurn]]
    BY <1>3 DEF Close
  <2>2. status' = [status EXCEPT ![r] = "closed"]
    BY <2>1 DEF Stop, TypeOK
  <2>3. /\ "tool" \in Closers /\ "shutdown" \in Closers
        /\ \A j \in Closers, q \in Runs :
             closing'[j][q] = IF j = "tool" /\ q = r THEN [at |-> "aborting", on |-> NoTurn]
                              ELSE closing[j][q]
    BY <2>1 DEF TypeOK, Closers
  <2>4. \A t \in Turns : TurnFits(t)'
    BY <1>1, <2>1, StopKeepsTurns DEF SerialInv
  <2>5. \A c \in Calls : CallFits(c)'
    BY <1>1, <2>1, StopWakesNobody DEF SerialInv
  <2>6. ASSUME NEW q \in Runs PROVE RunFits(q)'
    <3>1. RunFits(q)
      BY DEF SerialInv
    <3>2. CASE q = r
      BY <1>1, <2>1, <2>2, <2>3, <3>1, <3>2 DEF RunFits
    <3>3. CASE q # r
      <4>1. status'[q] = status[q] /\ \A j \in Closers : closing'[j][q] = closing[j][q]
        BY <2>2, <2>3, <3>3 DEF TypeOK
      <4>2. QED BY <1>1, <2>1, <3>1, <4>1 DEF RunFits, Released
    <3>4. QED BY <3>2, <3>3
  <2>7. ASSUME NEW k \in Closers, NEW q \in Runs PROVE CloseFits(k, q)'
    <3>1. CloseFits(k, q)
      BY DEF SerialInv
    <3>2. status[q] = "closed" => status'[q] = "closed"
      BY <2>2 DEF TypeOK
    <3>3. q = r => status'[q] = "closed"
      BY <2>2 DEF TypeOK
    <3>4. QED BY <1>1, <2>1, <2>3, <3>1, <3>2, <3>3 DEF CloseFits, Released
  <2>8. DownFits'
    BY <1>1, <2>3 DEF SerialInv, DownFits
  <2>9. QED BY <2>4, <2>5, <2>6, <2>7, <2>8 DEF SerialInv
<1>4. QED BY <1>2, <1>3

\* shutdown() up to its first await.
LEMMA ShutdownBegins ==
  ASSUME SerialHost, TypeOK, SerialInv, Shutdown
  PROVE  SerialInv'
<1> DEFINE open == {r \in Runs : status[r] \notin {"none", "closed"}}
<1>1. /\ down = "no" /\ down' = "closing"
      /\ \A c \in Calls : call[c].at = "idle"
      /\ \A r \in Runs : /\ closing["tool"][r].at = "idle"
                         /\ status[r] = "running" \/ InFlightOn(r) = {}
      /\ Stop(open, "closed")
      /\ UNCHANGED <<handle, settled, active, queue, pc, runOf, session>>
  BY DEF Shutdown, turnVars
<1>2. /\ "tool" \in Closers /\ "shutdown" \in Closers
      /\ \A r \in Runs : /\ closing'["tool"][r] = closing["tool"][r]
                         /\ closing'["shutdown"][r].at =
                              IF r \in open THEN "aborting" ELSE "idle"
      /\ \A k \in Closers : k = "tool" \/ k = "shutdown"
  BY DEF Shutdown, TypeOK, Closers, NoClose
<1>3. \A r \in Runs : status'[r] = IF r \in open THEN "closed" ELSE status[r]
  BY <1>1 DEF Stop
<1>4. \A r \in Runs : status'[r] \in {"none", "closed"} /\ (r \in open <=> status[r] \notin {"none", "closed"})
  BY <1>3
<1>5. open \in SUBSET Runs /\ \A c \in Calls : call[c].run \notin open
  BY <1>1, RunControllerAssumption DEF TypeOK, NoCall
<1> HIDE DEF open
<1>6. \A t \in Turns : TurnFits(t)'
  BY <1>1, <1>5, StopKeepsTurns DEF SerialInv
<1>7. \A c \in Calls : CallFits(c)'
  BY <1>1, <1>5, StopWakesNobody DEF SerialInv
<1>8. ASSUME NEW q \in Runs PROVE RunFits(q)'
  <2>1. RunFits(q)
    BY DEF SerialInv
  <2>2. CASE q \in open
    BY <1>1, <1>2, <1>3, <1>4, <2>1, <2>2 DEF RunFits
  <2>3. CASE q \notin open
    <3>1. /\ status'[q] = status[q]
          /\ \A k \in Closers : closing[k][q].at = "idle"
      BY <1>1, <1>2, <1>3, <2>3 DEF SerialInv, DownFits
    <3>2. QED BY <1>1, <2>1, <3>1 DEF RunFits, Released
  <2>4. QED BY <2>2, <2>3
<1>9. ASSUME NEW k \in Closers, NEW q \in Runs PROVE CloseFits(k, q)'
  BY <1>1, <1>2, <1>3 DEF CloseFits
<1>10. DownFits'
  <2>1. \A q \in Runs : q \notin open => InFlightOn(q)' = {}
    BY <1>1, <1>4 DEF InFlightOn
  <2>2. QED BY <1>1, <1>2, <1>4, <2>1 DEF DownFits
<1>11. QED BY <1>6, <1>7, <1>8, <1>9, <1>10 DEF SerialInv

\* A close() in flight goes on.
LEMMA CloseStepsFit ==
  ASSUME TypeOK, SerialInv, NEW k \in Closers, NEW r \in Runs, CloseStep(k, r)
  PROVE  SerialInv'
<1>0. closing[k][r].at # "idle" /\ status[r] = "closed" /\ (down # "no" => k = "shutdown")
  BY DEF CloseStep, CloseDisposes, CloseDetaches, CloseReturns, SerialInv, CloseFits,
         DownFits, Closers
<1>1. CASE CloseDisposes(k, r)
  BY <1>0, <1>1, DisposeFits DEF CloseDisposes
<1>2. CASE CloseDetaches(k, r)
  <2>1. /\ closing[k][r].at = "disposing"
        /\ UNCHANGED <<status, settled, active, queue, pc, runOf, session, call, down, stopped>>
        /\ \A q \in Runs : handle'[q] = IF q = r THEN NoTurn ELSE handle[q]
        /\ \A j \in Closers, q \in Runs :
             closing'[j][q] = IF j = k /\ q = r THEN [at |-> "settling", on |-> settled[r]]
                              ELSE closing[j][q]
    BY <1>2 DEF CloseDetaches, TypeOK, turnVars
  <2>2. Released(r) /\ \A q \in Runs : Released(q) => Released(q)'
    BY <2>1 DEF SerialInv, CloseFits, Released
  <2>3. ASSUME NEW t \in Turns PROVE TurnFits(t)'
    <3>1. TurnFits(t)
      BY DEF SerialInv
    <3>2. session[t] = "live" => runOf[t] \in Runs /\ runOf[t] # r
      BY <2>2, <3>1, RunControllerAssumption DEF TurnFits, Released, TypeOK
    <3>3. pc[t] \in {"creating", "discarding"} => runOf[t] \in Runs
      BY <3>1 DEF TurnFits, TypeOK
    <3>4. QED BY <2>1, <3>1, <3>2, <3>3 DEF TurnFits
  <2>4. ASSUME NEW q \in Runs PROVE RunFits(q)'
    <3>1. RunFits(q)
      BY DEF SerialInv
    <3>2. \A j \in Closers : closing'[j][q].at = "aborting" <=> closing[j][q].at = "aborting"
      BY <2>1
    <3>3. handle'[q] \in {handle[q], NoTurn}
      BY <2>1
    <3>4. QED BY <2>1, <2>2, <3>1, <3>2, <3>3 DEF RunFits
  <2>5. \A c \in Calls : CallFits(c)'
    BY <2>1 DEF SerialInv, CallFits
  <2>6. ASSUME NEW j \in Closers, NEW q \in Runs PROVE CloseFits(j, q)'
    <3>1. CloseFits(j, q)
      BY DEF SerialInv
    <3>2. QED BY <1>0, <2>1, <2>2, <3>1 DEF CloseFits
  <2>7. DownFits'
    <3>1. \A j \in Closers, q \in Runs : closing'[j][q].at = "idle" <=> closing[j][q].at = "idle"
      BY <2>1
    <3>2. \A q \in Runs : InFlightOn(q)' = InFlightOn(q)
      BY <2>1 DEF InFlightOn
    <3>3. QED BY <2>1, <3>1, <3>2 DEF SerialInv, DownFits, Closers
  <2>8. QED BY <2>3, <2>4, <2>5, <2>6, <2>7 DEF SerialInv
<1>3. CASE CloseReturns(k, r)
  <2>1. /\ closing[k][r].at = "settling" /\ pc[closing[k][r].on] = "done"
        /\ UNCHANGED <<status, handle, settled, active, queue, pc, runOf, session, call, down, stopped>>
        /\ \A j \in Closers, q \in Runs :
             closing'[j][q] = IF j = k /\ q = r THEN NoClose ELSE closing[j][q]
    BY <1>3 DEF CloseReturns, TypeOK, turnVars
  <2>2. InFlightOn(r) = {}
    BY <1>0, <2>1, LatestIsOver DEF SerialInv, CloseFits
  <2>3. \A t \in Turns : TurnFits(t)'
    BY <2>1 DEF SerialInv, TurnFits
  <2>4. ASSUME NEW q \in Runs PROVE RunFits(q)'
    <3>1. \A j \in Closers : closing'[j][q].at = "aborting" <=> closing[j][q].at = "aborting"
      BY <2>1 DEF NoClose
    <3>2. QED BY <2>1, <3>1 DEF SerialInv, RunFits, Released
  <2>5. \A c \in Calls : CallFits(c)'
    BY <2>1 DEF SerialInv, CallFits
  <2>6. ASSUME NEW j \in Closers, NEW q \in Runs PROVE CloseFits(j, q)'
    BY <2>1 DEF SerialInv, CloseFits, Released, NoClose
  <2>7. DownFits'
    <3>1. \A q \in Runs : InFlightOn(q)' = InFlightOn(q)
      BY <2>1 DEF InFlightOn
    <3>2. \A j \in Closers, q \in Runs :
            closing'[j][q].at = IF j = k /\ q = r THEN "idle" ELSE closing[j][q].at
      BY <2>1 DEF NoClose
    <3>3. QED BY <2>1, <2>2, <3>1, <3>2 DEF SerialInv, DownFits, Closers
  <2>8. QED BY <2>3, <2>4, <2>5, <2>6, <2>7 DEF SerialInv
<1>4. QED BY <1>1, <1>2, <1>3 DEF CloseStep

\* shutdown() returns.
LEMMA ShutdownEnds ==
  ASSUME TypeOK, SerialInv, ShutdownReturns
  PROVE  SerialInv'
<1>1. /\ down = "closing" /\ down' = "done"
      /\ \A r \in Runs : closing["shutdown"][r].at = "idle"
      /\ UNCHANGED <<status, handle, settled, active, queue, pc, runOf, session, call, closing, stopped>>
  BY DEF ShutdownReturns, turnVars
<1>2. \A t \in Turns : TurnFits(t)'
  BY <1>1 DEF SerialInv, TurnFits
<1>3. \A r \in Runs : RunFits(r)'
  BY <1>1 DEF SerialInv, RunFits, Released
<1>4. \A c \in Calls : CallFits(c)'
  BY <1>1 DEF SerialInv, CallFits
<1>5. \A k \in Closers, r \in Runs : CloseFits(k, r)'
  BY <1>1 DEF SerialInv, CloseFits, Released
<1>6. DownFits'
  BY <1>1 DEF SerialInv, DownFits, InFlightOn
<1>7. QED BY <1>2, <1>3, <1>4, <1>5, <1>6 DEF SerialInv

\* Turns that move on without beginning, and at most leave the flight.
TurnsGoOn ==
  \A u \in Turns : /\ pc'[u] = "unused" <=> pc[u] = "unused"
                   /\ pc'[u] \in InFlight => pc[u] \in InFlight
                   /\ pc'[u] \in {"creating", "discarding"} => pc'[u] = pc[u]

\* A turn that gives up its slot, having settled its run or not.
LEMMA ReleaseFits ==
  ASSUME TypeOK, Pool, SerialInv, NEW t \in Turns, pc[t] \in Holding, ReleaseSlot(t),
         \/ UNCHANGED <<status, call>>
         \/ \E outcome \in {"completed", "failed"} : SettleRun(t, outcome),
         UNCHANGED <<handle, settled, runOf, session, closing, down, stopped>>
  PROVE  SerialInv'
<1>1. pc'[t] = "done" /\ TurnsGoOn
  BY ReleaseMoves DEF TurnsGoOn, Holding, InFlight
<1>2. runOf[t] \in Runs
  BY DEF SerialInv, TurnFits, TypeOK, Holding
<1>3. /\ CallsGoOn
      /\ \/ UNCHANGED status
         \/ /\ status[runOf[t]] = "running" /\ pc[t] \in InFlight
            /\ \E outcome \in {"completed", "failed"} :
                 status' = [status EXCEPT ![runOf[t]] = outcome]
  BY WokenGoOn DEF CallsGoOn, SettleRun, InFlight
<1>4. \A q \in Runs : /\ status'[q] = "none" <=> status[q] = "none"
                      /\ status'[q] = "closed" <=> status[q] = "closed"
                      /\ status'[q] # status[q] => q = runOf[t] /\ status[q] = "running"
  BY <1>2, <1>3 DEF TypeOK
<1>5. ASSUME NEW u \in Turns PROVE TurnFits(u)'
  <2>1. TurnFits(u) /\ TurnFits(t)
    BY DEF SerialInv
  <2>2. pc'[u] \in InFlight => runOf[u] \in Runs /\ runOf[u] # runOf[t]
    <3>1. pc'[u] \in InFlight => u # t /\ pc[u] \in InFlight
      BY <1>1 DEF TurnsGoOn, InFlight, Holding
    <3>2. pc[u] \in InFlight => runOf[u] \in Runs
      BY <2>1 DEF TurnFits, TypeOK, InFlight, Holding
    <3>3. pc[t] \in InFlight
      BY DEF InFlight
    <3>4. QED BY <2>1, <3>1, <3>2, <3>3 DEF TurnFits
  <2>3. pc'[u] \in InFlight => status'[runOf[u]] = status[runOf[u]]
    BY <1>4, <2>2
  <2>4. QED BY <1>1, <2>1, <2>3 DEF TurnFits, TurnsGoOn, InFlight, Holding
<1>6. \A q \in Runs : RunFits(q)'
  BY <1>4 DEF SerialInv, RunFits, Released
<1>7. \A c \in Calls : CallFits(c)'
  <2>1. ASSUME NEW c \in Calls, call'[c].at # "idle"
        PROVE  status'[call[c].run] \notin {"none", "closed"}
    <3>1. call[c].at # "idle"
      BY <1>3, <2>1 DEF CallsGoOn, NoCall
    <3>2. call[c].run \in Runs /\ status[call[c].run] \notin {"none", "closed"}
      BY <3>1 DEF TypeOK, NoCall, SerialInv, CallFits
    <3>3. QED BY <1>4, <3>2
  <2>2. QED BY <1>3, <2>1, CallsStillFit DEF SerialInv
<1>8. \A k \in Closers, q \in Runs : CloseFits(k, q)'
  BY <1>4 DEF SerialInv, CloseFits, Released
<1>9. DownFits'
  <2>1. \A q \in Runs : InFlightOn(q) = {} => InFlightOn(q)' = {}
    BY <1>1 DEF InFlightOn, TurnsGoOn
  <2>2. QED BY <1>4, <2>1 DEF SerialInv, DownFits
<1>10. QED BY <1>5, <1>6, <1>7, <1>8, <1>9 DEF SerialInv

\* A turn goes on in its slot, or takes it.
LEMMA TurnGoesOn ==
  ASSUME TypeOK, SerialInv, NEW t \in Turns, pc[t] \in InFlight, NEW next \in InFlight,
         pc' = [pc EXCEPT ![t] = next], next # "discarding",
         next = "creating" => handle[runOf[t]] = NoTurn,
         UNCHANGED <<status, handle, settled, runOf, session, callVars, stopped>>
  PROVE  SerialInv'
<1>1. pc'[t] = next /\ \A u \in Turns \ {t} : pc'[u] = pc[u]
  BY DEF TypeOK
<1>2. \A u \in Turns : TurnFits(u)'
  BY <1>1 DEF SerialInv, TurnFits, InFlight, Holding
<1>3. \A q \in Runs : RunFits(q)'
  BY DEF SerialInv, RunFits, Released, callVars
<1>4. \A c \in Calls : CallFits(c)'
  BY DEF SerialInv, CallFits, callVars
<1>5. \A k \in Closers, q \in Runs : CloseFits(k, q)'
  BY DEF SerialInv, CloseFits, Released, callVars
<1>6. DownFits'
  <2>1. \A q \in Runs : InFlightOn(q) = {} => InFlightOn(q)' = {}
    BY <1>1 DEF InFlightOn
  <2>2. QED BY <2>1 DEF SerialInv, DownFits, callVars
<1>7. QED BY <1>2, <1>3, <1>4, <1>5, <1>6 DEF SerialInv

\* The child session exists.
LEMMA CreatedFits ==
  ASSUME TypeOK, SerialInv, NEW t \in Turns, SessionCreated(t)
  PROVE  SerialInv'
<1> DEFINE r == runOf[t]
<1>1. /\ pc[t] = "creating" /\ r \in Runs /\ handle[r] = NoTurn /\ settled[r] = t
  BY DEF SessionCreated, SerialInv, TurnFits, TypeOK, InFlight, Holding
<1>2. /\ UNCHANGED <<status, settled, active, queue, runOf, call, closing, down, stopped>>
      /\ \A q \in Runs : handle'[q] = IF q = r THEN t ELSE handle[q]
      /\ \A u \in Turns : session'[u] = IF u # t THEN session[u]
                                        ELSE IF status[r] = "running" THEN "live" ELSE "disposed"
      /\ \A u \in Turns : pc'[u] = IF u # t THEN pc[u]
                                   ELSE IF status[r] = "running" THEN "prompting" ELSE "discarding"
  BY <1>1 DEF SessionCreated, TypeOK, callVars
<1> HIDE DEF r
<1>3. ASSUME NEW u \in Turns PROVE TurnFits(u)'
  <2>1. TurnFits(u)
    BY DEF SerialInv
  <2>2. CASE u = t
    <3>1. runOf[u] = r /\ pc[u] # "unused" /\ pc[u] \in InFlight
      BY <1>1, <2>2 DEF r, InFlight, Holding
    <3>2. QED BY <1>1, <1>2, <2>1, <2>2, <3>1, RunControllerAssumption
              DEF TurnFits, InFlight, Holding
  <2>3. CASE u # t
    <3>1. pc[u] \in InFlight => runOf[u] \in Runs /\ runOf[u] # r
      BY <1>1, <2>1, <2>3 DEF TurnFits, TypeOK, InFlight, Holding
    <3>2. session[u] = "live" => runOf[u] \in Runs /\ runOf[u] # r
      BY <1>1, <2>1, RunControllerAssumption DEF TurnFits, TypeOK
    <3>3. QED BY <1>2, <2>1, <2>3, <3>1, <3>2 DEF TurnFits, InFlight, Holding
  <2>4. QED BY <2>2, <2>3
<1>4. \A q \in Runs : /\ RunFits(q) /\ status[q] = "none" => q # r
                      /\ handle[q] # NoTurn => handle[q] \in Turns /\ handle[q] # t
  BY <1>1, RunControllerAssumption DEF SerialInv, RunFits, TypeOK, r
<1>5. ASSUME NEW q \in Runs, Released(q), status[q] = "closed" PROVE Released(q)'
  <2>1. q = r => handle'[q] = t /\ session'[t] = "disposed"
    BY <1>2, <1>5
  <2>2. q # r => handle'[q] = handle[q]
    BY <1>2
  <2>3. QED BY <1>2, <1>4, <1>5, <2>1, <2>2 DEF Released
<1>6. ASSUME NEW q \in Runs PROVE RunFits(q)'
  <2>1. RunFits(q)
    BY DEF SerialInv
  <2>2. handle'[q] # NoTurn => runOf[handle'[q]] = q
    BY <1>2, <2>1 DEF RunFits, r
  <2>3. status[q] = "none" => handle'[q] = NoTurn
    BY <1>2, <1>4, <2>1 DEF RunFits
  <2>4. QED BY <1>2, <1>5, <2>1, <2>2, <2>3 DEF RunFits
<1>7. \A c \in Calls : CallFits(c)'
  BY <1>2 DEF SerialInv, CallFits
<1>8. \A k \in Closers, q \in Runs : CloseFits(k, q)'
  BY <1>2, <1>5 DEF SerialInv, CloseFits
<1>9. DownFits'
  <2>1. \A q \in Runs : InFlightOn(q) = {} => InFlightOn(q)' = {}
    BY <1>1, <1>2 DEF InFlightOn, InFlight, Holding
  <2>2. QED BY <1>2, <2>1 DEF SerialInv, DownFits
<1>10. QED BY <1>3, <1>6, <1>7, <1>8, <1>9 DEF SerialInv

\* The session of a run that was stopped is disposed.
LEMMA DiscardedFits ==
  ASSUME TypeOK, Pool, SerialInv, NEW t \in Turns, SessionDiscarded(t)
  PROVE  SerialInv'
<1> DEFINE r == runOf[t]
<1>1. /\ pc[t] = "discarding" /\ pc[t] \in Holding /\ r \in Runs /\ ReleaseSlot(t)
      /\ session[t] = "disposed" /\ handle[r] \in {t, NoTurn} /\ settled[r] = t
  BY DEF SessionDiscarded, SerialInv, TurnFits, TypeOK, InFlight, Holding
<1>2. /\ UNCHANGED <<status, settled, runOf, session, call, closing, down, stopped>>
      /\ \A q \in Runs : handle'[q] = IF q = r THEN NoTurn ELSE handle[q]
  BY <1>1 DEF SessionDiscarded, TypeOK, callVars
<1>3. pc'[t] = "done" /\ TurnsGoOn
  BY <1>1, ReleaseMoves DEF TurnsGoOn, Holding, InFlight
<1> HIDE DEF r
<1>4. ASSUME NEW u \in Turns PROVE TurnFits(u)'
  <2>1. TurnFits(u)
    BY DEF SerialInv
  <2>2. session[u] = "live" => runOf[u] \in Runs /\ runOf[u] # r
    BY <1>1, <2>1, RunControllerAssumption DEF TurnFits, TypeOK
  <2>3. pc'[u] = pc[u] \/ pc'[u] \notin {"creating", "discarding"}
    BY <1>3 DEF TurnsGoOn
  <2>4. pc[u] \in {"creating", "discarding"} => runOf[u] \in Runs
    BY <2>1 DEF TurnFits, TypeOK
  <2>5. pc'[u] \in InFlight => pc[u] \in InFlight
    BY <1>3 DEF TurnsGoOn
  <2>6. pc'[u] = "unused" <=> pc[u] = "unused"
    BY <1>3 DEF TurnsGoOn
  <2>7. QED BY <1>2, <2>1, <2>2, <2>3, <2>4, <2>5, <2>6 DEF TurnFits
<1>5. \A q \in Runs : handle'[q] \in {handle[q], NoTurn} /\ (Released(q) => Released(q)')
  BY <1>2 DEF Released
<1>6. \A q \in Runs : RunFits(q)'
  BY <1>2, <1>5 DEF SerialInv, RunFits
<1>7. \A c \in Calls : CallFits(c)'
  BY <1>2 DEF SerialInv, CallFits
<1>8. \A k \in Closers, q \in Runs : CloseFits(k, q)'
  BY <1>2, <1>5 DEF SerialInv, CloseFits
<1>9. DownFits'
  <2>1. \A q \in Runs : InFlightOn(q) = {} => InFlightOn(q)' = {}
    BY <1>2, <1>3 DEF InFlightOn, TurnsGoOn
  <2>2. QED BY <1>2, <2>1 DEF SerialInv, DownFits
<1>10. QED BY <1>4, <1>6, <1>7, <1>8, <1>9 DEF SerialInv

\* Every continuation of a turn.
LEMMA TurnStepsFit ==
  ASSUME TypeOK, Pool, SerialInv, NEW t \in Turns, TurnStep(t)
  PROVE  SerialInv'
<1>1. CASE ResumeQueued(t)
  BY <1>1, TurnGoesOn DEF ResumeQueued, InFlight, Holding
<1>2. CASE BeginTurn(t)
  <2>1. /\ pc[t] = "starting" /\ pc[t] \in Holding /\ pc[t] \in InFlight
        /\ UNCHANGED <<status, handle, settled, runOf, session, call, closing, down, stopped>>
    BY <1>2 DEF BeginTurn, callVars, Holding, InFlight
  <2>2. CASE ReleaseSlot(t)
    BY <2>1, <2>2, ReleaseFits
  <2>3. CASE pc' = [pc EXCEPT ![t] = IF handle[runOf[t]] = NoTurn
                                     THEN "creating" ELSE "prompting"]
    BY <2>1, <2>3, TurnGoesOn DEF InFlight, Holding, callVars
  <2>4. QED BY <1>2, <2>2, <2>3 DEF BeginTurn
<1>3. ASSUME NEW outcome \in {"completed", "failed"}, SettleRun(t, outcome), pc[t] \in Holding
      PROVE  SerialInv'
  BY <1>3, ReleaseFits DEF SettleRun
<1>4. CASE CreationFails(t) \/ PromptSettles(t)
  BY <1>3, <1>4 DEF CreationFails, PromptSettles, Holding
<1>5. QED BY <1>1, <1>2, <1>4, CreatedFits, DiscardedFits DEF TurnStep

\* The state of a controller whose host serialises its calls.
SerialState == TypeOK /\ RunningIsBacked /\ Pool /\ SerialInv

\* No step leaves it.
LEMMA SerialNext ==
  ASSUME SerialHost, SerialState, [Next]_vars PROVE SerialInv'
<1> USE DEF SerialState
<1>1. ASSUME NEW r \in Runs, StartRun(r) \/ Interrupt(r) \/ Close(r) PROVE SerialInv'
  BY <1>1, BeginningsFit, InterruptFits, CloseBegins
<1>2. ASSUME NEW c \in Calls, NEW r \in Runs, Message(c, r) \/ Wait(c, r) PROVE SerialInv'
  <2>1. HostMayCall(r)
    BY <1>2 DEF Message, Wait
  <2>2. QED BY <1>2, <2>1, BeginningsFit, HostCallsFit DEF Message
<1>3. ASSUME NEW c \in Calls, WaitAborts(c) \/ CallStep(c) PROVE SerialInv'
  <2>1. MessageResumes(c) => call[c].run \in Runs
    BY DEF MessageResumes, TypeOK, NoCall
  <2>2. QED BY <1>3, <2>1, CallStepsFit, BeginningsFit DEF CallStep, MessageResumes
<1>4. ASSUME NEW k \in Closers, NEW r \in Runs, CloseStep(k, r) PROVE SerialInv'
  BY <1>4, CloseStepsFit
<1>5. ASSUME NEW t \in Turns, TurnStep(t) PROVE SerialInv'
  BY <1>5, TurnStepsFit
<1>6. CASE Shutdown \/ ShutdownReturns
  BY <1>6, ShutdownBegins, ShutdownEnds
<1>7. CASE UNCHANGED vars
  <2>1. UNCHANGED <<status, handle, settled, turnVars, closing, down, stopped>>
    BY <1>7 DEF vars, callVars
  <2>2. \A c \in Calls : CallFits(c)'
    BY <1>7 DEF SerialInv, CallFits, vars, callVars
  <2>3. QED BY <2>1, <2>2, CallsAside
<1>8. QED BY <1>1, <1>2, <1>3, <1>4, <1>5, <1>6, <1>7 DEF Next, HostStep

\* It starts there.
LEMMA SerialInit == Init => SerialInv
<1> SUFFICES ASSUME Init PROVE SerialInv
  OBVIOUS
<1>1. \A t \in Turns : TurnFits(t)
  BY DEF Init, TurnFits, InFlight, Holding
<1>2. \A r \in Runs : RunFits(r)
  BY DEF Init, RunFits
<1>3. \A c \in Calls : CallFits(c)
  BY DEF Init, CallFits, NoCall
<1>4. \A k \in Closers, r \in Runs : CloseFits(k, r)
  BY DEF Init, CloseFits, NoClose
<1>5. DownFits
  BY DEF Init, DownFits, NoClose, Closers
<1>6. QED BY <1>1, <1>2, <1>3, <1>4, <1>5 DEF SerialInv

\* A host that serialises its calls never leaves it.
LEMMA SerialKept ==
  ASSUME SerialHost PROVE Spec => []SerialState
<1>1. SerialState /\ [Next]_vars => SerialInv'
  BY SerialNext
<1>2. Spec => [](TypeOK /\ RunningIsBacked /\ Pool)
  BY TypeCorrect, AlwaysBacked, PoolKept, PTL DEF Pool
<1>3. TypeOK /\ RunningIsBacked /\ Pool /\ SerialInv => SerialState
  BY DEF SerialState
<1>4. QED BY <1>1, <1>2, <1>3, SerialInit, PTL DEF Spec

\* No session is lost sight of while its run lives, and when shutdown()
\* returns every child has quiesced and none of their sessions is left.
THEOREM NothingIsLeft ==
  ASSUME SerialHost PROVE Spec => []NoSessionIsLeft
<1>1. SerialState => NoSessionIsLeft
  <2> SUFFICES ASSUME SerialState PROVE NoSessionIsLeft
    OBVIOUS
  <2>1. NoOrphanSession
    BY DEF SerialState, SerialInv, TurnFits, NoOrphanSession
  <2>2. ASSUME down = "done", NEW t \in Turns
        PROVE  pc[t] \in {"unused", "done"} /\ session[t] # "live"
    <3>1. /\ \A k \in Closers, r \in Runs : closing[k][r].at = "idle"
          /\ \A r \in Runs : status[r] \in {"none", "closed"} /\ InFlightOn(r) = {}
      BY <2>2 DEF SerialState, SerialInv, DownFits, Closers
    <3>2. pc[t] # "unused" => runOf[t] \in Runs
      BY DEF SerialState, SerialInv, TurnFits, TypeOK
    <3>3. pc[t] \in {"unused", "done"}
      BY <3>1, <3>2 DEF SerialState, TypeOK, InFlightOn, InFlight, Holding
    <3>4. ASSUME session[t] = "live" PROVE FALSE
      <4>1. runOf[t] \in Runs /\ handle[runOf[t]] = t
        BY <3>2, <3>4 DEF SerialState, SerialInv, TurnFits
      <4>2. ~Released(runOf[t]) /\ handle[runOf[t]] # NoTurn
        BY <3>4, <4>1, RunControllerAssumption DEF Released
      <4>3. QED BY <3>1, <4>1, <4>2 DEF SerialState, SerialInv, RunFits
    <3>5. QED BY <3>3, <3>4
  <2>3. QED BY <2>1, <2>2 DEF NoSessionIsLeft, ShutdownReleasesAll
<1>2. QED BY <1>1, SerialKept, PTL

\* A turn that gives up its slot is the one its run was working on.
LEMMA ReleaseIsTheOnlyOne ==
  ASSUME SerialState, NEW t \in Turns, pc[t] \in Holding, ReleaseSlot(t), UNCHANGED runOf
  PROVE  /\ runOf[t] \in Runs
         /\ \A u \in Turns : u # t /\ runOf[u] = runOf[t] => pc'[u] = pc[u]
         /\ \A r \in Runs : /\ InFlightOn(r) # {} <=> r = runOf[t] \/ InFlightOn(r)' # {}
                            /\ r = runOf[t] => InFlightOn(r)' = {}
<1>1. runOf[t] \in Runs /\ pc[t] \in InFlight
  BY DEF SerialState, SerialInv, TurnFits, TypeOK, Holding, InFlight
<1>2. /\ pc'[t] = "done"
      /\ \A u \in Turns \ {t} :
           pc'[u] = pc[u] \/ (pc[u] = "queued" /\ pc'[u] = "woken")
  BY ReleaseMoves DEF SerialState
<1>3. \A u \in Turns : u # t /\ runOf[u] = runOf[t] => pc[u] \notin InFlight
  BY <1>1 DEF SerialState, SerialInv, TurnFits
<1>4. \A u \in Turns : u # t /\ runOf[u] = runOf[t] => pc'[u] = pc[u]
  BY <1>2, <1>3 DEF InFlight
<1>5. ASSUME NEW r \in Runs
      PROVE  /\ InFlightOn(r) # {} <=> r = runOf[t] \/ InFlightOn(r)' # {}
             /\ r = runOf[t] => InFlightOn(r)' = {}
  <2>1. CASE r = runOf[t]
    BY <1>1, <1>2, <1>3, <1>4, <2>1 DEF InFlightOn, InFlight, Holding
  <2>2. CASE r # runOf[t]
    <3>1. \A u \in Turns : runOf[u] = r => u # t /\ (pc'[u] \in InFlight <=> pc[u] \in InFlight)
      BY <1>2, <2>2 DEF InFlight
    <3>2. QED BY <2>2, <3>1 DEF InFlightOn
  <2>3. QED BY <2>1, <2>2
<1>6. QED BY <1>1, <1>4, <1>5

\* A step does to a stopped turn what the host asked for: the turn only winds
\* down.
LEMMA StoppedStep ==
  ASSUME SerialHost, SerialState, [Next]_vars, NEW t \in stopped, pc'[t] # pc[t]
  PROVE  pc'[t] # "prompting" /\ status'[runOf[t]] = status[runOf[t]]
<1>0. /\ t \in Turns /\ pc[t] # "unused"
      /\ pc[t] \in InFlight => status[runOf[t]] \in {"interrupted", "closed"}
  BY DEF SerialState, SerialInv, TurnFits, TypeOK
<1>1. ASSUME UNCHANGED pc PROVE FALSE
  BY <1>1
<1>2. ASSUME NEW r \in Runs, NEW u \in Turns, Launch(r, u) PROVE FALSE
  BY <1>0, <1>2 DEF Launch, SerialState, TypeOK
<1>3. ASSUME NEW u \in Turns, pc[u] \in Holding, ReleaseSlot(u), UNCHANGED runOf,
             \A r \in Runs : status'[r] # status[r] => r = runOf[u] /\ status[r] = "running"
      PROVE  pc'[t] # "prompting" /\ status'[runOf[t]] = status[runOf[t]]
  <2>1. pc'[t] = "done" \/ (pc[t] = "queued" /\ pc'[t] = "woken")
    BY <1>0, <1>3, ReleaseMoves DEF SerialState
  <2>2. runOf[t] \in Runs
    BY <1>0 DEF SerialState, SerialInv, TurnFits, TypeOK
  <2>3. CASE u = t
    BY <1>0, <1>3, <2>1, <2>2, <2>3 DEF InFlight
  <2>4. CASE u # t
    <3>1. runOf[t] # runOf[u]
      BY <1>0, <1>3, <2>4, ReleaseIsTheOnlyOne
    <3>2. QED BY <1>3, <2>1, <2>2, <3>1
  <2>5. QED BY <2>3, <2>4
<1>4. ASSUME NEW u \in Turns, TurnStep(u)
      PROVE  pc'[t] # "prompting" /\ status'[runOf[t]] = status[runOf[t]]
  <2>1. CASE ResumeQueued(u)
    BY <1>0, <2>1 DEF ResumeQueued, SerialState, TypeOK
  <2>2. CASE BeginTurn(u)
    <3>1. CASE ReleaseSlot(u)
      BY <1>3, <2>2, <3>1 DEF BeginTurn, Holding
    <3>2. CASE status[runOf[u]] = "running" /\ ~ReleaseSlot(u)
      BY <1>0, <2>2, <3>2 DEF BeginTurn, SerialState, TypeOK, InFlight, Holding
    <3>3. QED BY <2>2, <3>1, <3>2 DEF BeginTurn
  <2>3. CASE SessionCreated(u)
    BY <1>0, <2>3 DEF SessionCreated, SerialState, TypeOK, InFlight, Holding
  <2>4. CASE SessionDiscarded(u)
    BY <1>3, <2>4 DEF SessionDiscarded, Holding
  <2>5. ASSUME NEW outcome \in {"completed", "failed"}, SettleRun(u, outcome), pc[u] \in Holding
        PROVE  pc'[t] # "prompting" /\ status'[runOf[t]] = status[runOf[t]]
    <3>1. UNCHANGED runOf /\ ReleaseSlot(u)
      BY <2>5 DEF SettleRun
    <3>2. \A r \in Runs : status'[r] # status[r] => r = runOf[u] /\ status[r] = "running"
      BY <2>5 DEF SettleRun, SerialState, TypeOK
    <3>3. QED BY <1>3, <2>5, <3>1, <3>2
  <2>6. CASE CreationFails(u) \/ PromptSettles(u)
    BY <2>5, <2>6 DEF CreationFails, PromptSettles, Holding
  <2>7. QED BY <1>4, <2>1, <2>2, <2>3, <2>4, <2>6 DEF TurnStep
<1>5. ASSUME NEW r \in Runs, StartRun(r) \/ Interrupt(r) \/ Close(r) PROVE FALSE
  BY <1>1, <1>2, <1>5 DEF StartRun, Interrupt, Close, turnVars, Unused
<1>6. ASSUME NEW c \in Calls, NEW r \in Runs,
             \/ HoldMessage(c, r) \/ Steer(c, r) \/ FollowUp(c, r) \/ Wait(c, r)
      PROVE  FALSE
  BY <1>1, <1>2, <1>6 DEF HoldMessage, Steer, FollowUp, Wait, turnVars, Unused
<1>7. ASSUME NEW c \in Calls, WaitAborts(c) \/ CallStep(c) PROVE FALSE
  <2>1. MessageResumes(c) => call[c].run \in Runs
    BY DEF MessageResumes, SerialState, TypeOK, NoCall
  <2>2. QED BY <1>1, <1>6, <1>7, <2>1
            DEF CallStep, MessageResumes, SteerReturns, WaitReturns, WaitAborts, turnVars
<1>8. CASE Shutdown \/ ShutdownReturns \/ UNCHANGED vars
  BY <1>1, <1>8 DEF Shutdown, ShutdownReturns, vars, turnVars
<1>9. ASSUME NEW k \in Closers, NEW r \in Runs, CloseStep(k, r) PROVE FALSE
  BY <1>1, <1>9 DEF CloseStep, CloseDisposes, CloseDetaches, CloseReturns, turnVars
<1>10. QED BY <1>4, <1>5, <1>6, <1>7, <1>8, <1>9 DEF Next, HostStep, Message

\* What a caller stopped stays stopped: a turn whose run was interrupted or
\* closed neither prompts the child afterwards nor settles the run.
THEOREM StoppedStaysStopped ==
  ASSUME SerialHost PROVE Spec => StoppedTurnIsInert
<1>1. SerialState /\ [Next]_vars =>
        [\A t \in stopped : pc'[t] # pc[t] =>
            /\ pc'[t] # "prompting"
            /\ status'[runOf[t]] = status[runOf[t]]]_vars
  BY StoppedStep
<1>2. QED BY <1>1, SerialKept, PTL DEF Spec, StoppedTurnIsInert

(***************************************************************************)
(* The portable lifecycle contract.                                        *)
(***************************************************************************)

\* Whether each run works, as the contract sees it.
Working == [r \in Runs |-> InFlightOn(r) # {}]

\* A turn begins.
LEMMA LaunchIsBegin ==
  ASSUME SerialState, NEW r \in Runs, NEW t \in Turns, Launch(r, t),
         status[r] \notin {"running", "closed"}, InFlightOn(r) = {},
         status' = [status EXCEPT ![r] = "running"]
  PROVE  Contract!BeginTurn(r)
<1>1. /\ pc[t] = "unused" /\ pc'[t] \in InFlight
      /\ \A u \in Turns \ {t} : pc'[u] = pc[u]
      /\ \A u \in Turns : runOf'[u] = IF u = t THEN r ELSE runOf[u]
  BY DEF SerialState, TypeOK, Launch, InFlight, Holding
<1>2. InFlightOn(r)' # {}
  BY <1>1 DEF InFlightOn
<1>3. \A q \in Runs \ {r} : InFlightOn(q)' = InFlightOn(q)
  BY <1>1 DEF InFlightOn, InFlight, Holding
<1>4. Working' = [Working EXCEPT ![r] = TRUE]
  BY <1>2, <1>3 DEF Working
<1>5. QED BY <1>4 DEF Contract!BeginTurn, Working

\* A turn that gives up its slot settles its run, or winds down.
LEMMA ReleaseIsEnd ==
  ASSUME SerialState, NEW t \in Turns, pc[t] \in Holding, ReleaseSlot(t), UNCHANGED runOf,
         \/ status[runOf[t]] # "running" /\ UNCHANGED status
         \/ /\ status[runOf[t]] = "running"
            /\ \E outcome \in {"completed", "failed"} :
                 status' = [status EXCEPT ![runOf[t]] = outcome]
  PROVE  Contract!Settle(runOf[t]) \/ Contract!WindDown(runOf[t])
<1>1. /\ runOf[t] \in Runs
      /\ \A r \in Runs : /\ InFlightOn(r) # {} <=> r = runOf[t] \/ InFlightOn(r)' # {}
                         /\ r = runOf[t] => InFlightOn(r)' = {}
  BY ReleaseIsTheOnlyOne
<1>2. Working' = [Working EXCEPT ![runOf[t]] = FALSE] /\ Working[runOf[t]]
  BY <1>1 DEF Working
<1>3. status[runOf[t]] \in {"running", "interrupted", "closed"}
  BY DEF SerialState, SerialInv, TurnFits, InFlight
<1>4. QED BY <1>2, <1>3 DEF Contract!Settle, Contract!WindDown, Working

\* A turn that goes on leaves its run at work.
LEMMA MoveIsStutter ==
  ASSUME UNCHANGED <<status, runOf>>,
         \A u \in Turns : pc'[u] \in InFlight <=> pc[u] \in InFlight
  PROVE  UNCHANGED Contract!vars
BY DEF Contract!vars, InFlightOn

\* Every step is one of the contract, or none.
LEMMA ContractStep ==
  ASSUME SerialHost, SerialState, [Next]_vars
  PROVE  [Contract!Next]_(Contract!vars)
<1> USE DEF Contract!Next
<1>0. ASSUME UNCHANGED <<status, pc, runOf>> PROVE UNCHANGED Contract!vars
  BY <1>0, MoveIsStutter
<1>1. ASSUME NEW r \in Runs, StartRun(r) PROVE Contract!Next
  <2>1. InFlightOn(r) = {} /\ status[r] = "none" /\ status' = [status EXCEPT ![r] = "running"]
    BY <1>1 DEF StartRun, HostMayCall
  <2>2. PICK t \in Turns : Launch(r, t)
    BY <1>1 DEF StartRun, Unused
  <2>3. QED BY <2>1, <2>2, LaunchIsBegin
<1>2. ASSUME NEW c \in Calls, NEW r \in Runs, Message(c, r) \/ Wait(c, r)
      PROVE  [Contract!Next]_(Contract!vars)
  <2>1. CASE HoldMessage(c, r) \/ Steer(c, r) \/ Wait(c, r)
    BY <1>0, <2>1 DEF HoldMessage, Steer, Wait, turnVars
  <2>2. CASE Message(c, r) /\ status[r] # "running" /\ FollowUp(c, r)
    <3>1. /\ InFlightOn(r) = {} /\ status[r] \notin {"running", "closed"}
          /\ status' = [status EXCEPT ![r] = "running"]
      BY <2>2 DEF Message, HostMayCall, FollowUp
    <3>2. PICK t \in Turns : Launch(r, t)
      BY <2>2 DEF FollowUp, Unused
    <3>3. QED BY <3>1, <3>2, LaunchIsBegin
  <2>3. QED BY <1>2, <2>1, <2>2 DEF Message
<1>3. ASSUME NEW c \in Calls, WaitAborts(c) \/ CallStep(c)
      PROVE  [Contract!Next]_(Contract!vars)
  <2>1. CASE MessageResumes(c) /\ FollowUp(c, call[c].run)
    <3> DEFINE r == call[c].run
    <3>1. /\ r \in Runs /\ status[r] \notin {"none", "closed"} /\ pc[settled[r]] = "done"
      BY <2>1 DEF MessageResumes, SerialState, SerialInv, CallFits, TypeOK, NoCall
    <3>2. InFlightOn(r) = {} /\ status[r] # "running"
      <4>1. InFlightOn(r) = {}
        BY <3>1, LatestIsOver DEF SerialState
      <4>2. QED BY <3>1, <4>1 DEF SerialState, RunningIsBacked
    <3>3. status' = [status EXCEPT ![r] = "running"]
      BY <2>1 DEF FollowUp
    <3>4. PICK t \in Turns : Launch(r, t)
      BY <2>1 DEF FollowUp, Unused
    <3>5. QED BY <3>1, <3>2, <3>3, <3>4, LaunchIsBegin
  <2>2. CASE \/ WaitAborts(c) \/ WaitReturns(c) \/ SteerReturns(c)
             \/ Steer(c, call[c].run)
    BY <1>0, <2>2 DEF WaitAborts, WaitReturns, SteerReturns, Steer, turnVars
  <2>3. QED BY <1>3, <2>1, <2>2 DEF CallStep, MessageResumes
<1>4. ASSUME NEW r \in Runs, Interrupt(r) PROVE Contract!Next
  <2>1. /\ status[r] = "running" /\ UNCHANGED <<pc, runOf>>
        /\ status' = [q \in Runs |-> IF q \in {r} THEN "interrupted" ELSE status[q]]
    BY <1>4 DEF Interrupt, Stop, turnVars
  <2>2. Contract!Interrupt({r})
    BY <2>1 DEF Contract!Interrupt, InFlightOn
  <2>3. QED BY <2>2
<1>5. ASSUME NEW rs \in SUBSET Runs, Stop(rs, "closed"), UNCHANGED <<pc, runOf>>,
             \A r \in rs : status[r] \notin {"none", "closed"}
      PROVE  Contract!Next
  <2>1. Contract!Close(rs)
    BY <1>5 DEF Contract!Close, Stop, InFlightOn
  <2>2. QED BY <2>1
<1>6. ASSUME NEW r \in Runs, Close(r) PROVE [Contract!Next]_(Contract!vars)
  <2>1. CASE status[r] # "closed"
    BY <1>5, <1>6, <2>1 DEF Close
  <2>2. CASE status[r] = "closed"
    BY <1>0, <1>6, <2>2 DEF Close
  <2>3. QED BY <2>1, <2>2
<1>7. CASE Shutdown
  BY <1>5, <1>7 DEF Shutdown, turnVars
<1>8. ASSUME NEW k \in Closers, NEW r \in Runs, CloseStep(k, r)
      PROVE  UNCHANGED Contract!vars
  BY <1>0, <1>8 DEF CloseStep, CloseDisposes, CloseDetaches, CloseReturns, turnVars
<1>9. CASE ShutdownReturns \/ UNCHANGED vars
  BY <1>0, <1>9 DEF ShutdownReturns, vars, turnVars
<1>10. ASSUME NEW t \in Turns, TurnStep(t) PROVE [Contract!Next]_(Contract!vars)
  <2>1. ASSUME pc[t] \in Holding, ReleaseSlot(t), UNCHANGED runOf,
               \/ status[runOf[t]] # "running" /\ UNCHANGED status
               \/ /\ status[runOf[t]] = "running"
                  /\ \E outcome \in {"completed", "failed"} :
                       status' = [status EXCEPT ![runOf[t]] = outcome]
        PROVE  Contract!Next
    <3>1. runOf[t] \in Runs
      BY <2>1, ReleaseIsTheOnlyOne
    <3>2. QED BY <2>1, <3>1, ReleaseIsEnd
  <2>2. ASSUME pc[t] \in InFlight, NEW next \in InFlight, pc' = [pc EXCEPT ![t] = next],
               UNCHANGED <<status, runOf>>
        PROVE  UNCHANGED Contract!vars
    BY <2>2, MoveIsStutter DEF SerialState, TypeOK
  <2>3. CASE ResumeQueued(t)
    BY <2>2, <2>3 DEF ResumeQueued, InFlight, Holding
  <2>4. CASE BeginTurn(t)
    BY <2>1, <2>2, <2>4 DEF BeginTurn, InFlight, Holding
  <2>5. CASE SessionCreated(t)
    BY <2>2, <2>5 DEF SessionCreated, InFlight, Holding
  <2>6. CASE SessionDiscarded(t)
    <3>1. status[runOf[t]] # "running"
      <4>1. runOf[t] \in Runs /\ settled[runOf[t]] = t /\ pc[t] = "discarding"
        BY <2>6 DEF SessionDiscarded, SerialState, SerialInv, TurnFits, TypeOK, InFlight, Holding
      <4>2. QED BY <4>1 DEF SerialState, RunningIsBacked
    <3>2. QED BY <2>1, <2>6, <3>1 DEF SessionDiscarded, Holding
  <2>7. ASSUME NEW outcome \in {"completed", "failed"}, SettleRun(t, outcome), pc[t] \in Holding
        PROVE  Contract!Next
    BY <2>1, <2>7 DEF SettleRun
  <2>8. CASE CreationFails(t) \/ PromptSettles(t)
    BY <2>7, <2>8 DEF CreationFails, PromptSettles, Holding
  <2>9. QED BY <1>10, <2>3, <2>4, <2>5, <2>6, <2>8 DEF TurnStep
<1>11. QED BY <1>1, <1>2, <1>3, <1>4, <1>6, <1>7, <1>8, <1>9, <1>10 DEF Next, HostStep

\* The controller implements the portable lifecycle: only the turn a run
\* works on settles it, no second turn begins beside it, and a closed run
\* stays closed (the safety part of KeepsContract).
THEOREM ImplementsContract ==
  ASSUME SerialHost PROVE Spec => Contract!Spec
<1>1. Init => Contract!Init
  BY DEF Init, Contract!Init, InFlightOn, InFlight, Holding
<1>2. SerialState /\ [Next]_vars => [Contract!Next]_(Contract!vars)
  BY ContractStep
<1>3. QED BY <1>1, <1>2, SerialKept, PTL DEF Spec, Contract!Spec
=============================================================================
