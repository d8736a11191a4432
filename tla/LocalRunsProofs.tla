-------------------------- MODULE LocalRunsProofs --------------------------
(***************************************************************************)
(* Proofs about LocalRuns, for every set of runs, turns and calls,         *)
(* whatever is called when.                                                *)
(***************************************************************************)
EXTENDS LocalRuns, TLAPS

CallType == {NoCall} \cup [at : {"booting", "waiting"},
                             run : Runs, on : Turns \cup {None}]

CloseType == [at : {"idle", "cancelling", "awaiting", "disposing"},
              on : Turns \cup {None}]

SessionType == [Turns \cup Calls -> {"none", "creating", "live", "lost", "disposed"}]

\* A launched turn leaves the state well typed.
LEMMA LaunchType ==
  ASSUME TypeOK, NEW r \in Runs, NEW t \in Turns, Launch(r, t)
  PROVE  /\ status' \in [Runs -> {"none", "running"} \cup Settled]
         /\ promise' \in [Runs -> Turns \cup {None}]
         /\ runOf' \in [Turns -> Runs \cup {None}]
         /\ pc' \in [Turns -> InFlight \cup {"unused", "done"}]
         /\ session' \in SessionType
         /\ overtaken' \in SUBSET Turns /\ inHand' \in SUBSET (Turns \cup Calls)
<1>1. /\ pc' \in [Turns -> InFlight \cup {"unused", "done"}]
      /\ session' \in SessionType
  BY DEF TypeOK, Launch, Boot, InFlight, Working, SessionType
<1>2. overtaken' \in SUBSET Turns /\ inHand' \in SUBSET (Turns \cup Calls)
  BY DEF TypeOK, Launch
<1>3. QED BY <1>1, <1>2 DEF TypeOK, Launch

\* A launched turn was not used before.
LEMMA LaunchFresh ==
  ASSUME NEW r \in Runs, NEW t \in Turns, Launch(r, t) PROVE pc[t] = "unused"
BY DEF Launch, IsNext

\* So does disposing of the sessions of some runs.
LEMMA DisposeType ==
  ASSUME TypeOK, NEW rs, Dispose(rs)
  PROVE  session' \in SessionType
BY DEF TypeOK, Dispose, SessionType

\* And the session a runner comes to hold.
LEMMA HoldType ==
  ASSUME TypeOK, NEW r \in Runs, NEW s \in Turns \cup Calls, Hold(r, s)
  PROVE  /\ handle' \in [Runs -> Turns \cup Calls \cup {None}]
         /\ session' \in SessionType
<1>1. session \in SessionType
  BY DEF TypeOK, SessionType
<1>2. session' = [x \in Turns \cup Calls |->
                    IF x = s THEN "live"
                    ELSE IF x = handle[r] /\ session[x] = "live" THEN "lost"
                    ELSE session[x]]
  BY <1>1 DEF Hold, SessionType
<1>3. session' \in SessionType
  BY <1>1, <1>2 DEF SessionType
<1>4. handle' \in [Runs -> Turns \cup Calls \cup {None}]
  BY DEF TypeOK, Hold
<1>5. QED BY <1>3, <1>4

\* And stopping them.
LEMMA StopType ==
  ASSUME TypeOK, NEW rs, Stop(rs)
  PROVE  /\ status' \in [Runs -> {"none", "running"} \cup Settled]
         /\ stopped' \in SUBSET Turns
BY DEF TypeOK, Stop, WorkingOn, Settled

\* And what is still in hand of closeAllChildRuns().
LEMMA ForsakeType ==
  ASSUME TypeOK, NEW rs, Forsake(rs)
  PROVE  inHand' \in SUBSET (Turns \cup Calls)
BY DEF TypeOK, Forsake

\* The status a settled turn leaves is a status, and never "running".
LEMMA AfterTurnSettles ==
  ASSUME TypeOK, NEW r \in Runs, status[r] # "none", NEW succeeded \in BOOLEAN
  PROVE  AfterTurn(r, succeeded) \in Settled
BY DEF TypeOK, AfterTurn, Settled

(***************************************************************************)
(* The inductive invariant: the types; a run with a turn was started; and  *)
(* a run that says "running" has its latest turn at work.                  *)
(***************************************************************************)

UsedTurnsHaveRuns ==
  \A t \in Turns : pc[t] # "unused" => runOf[t] \in Runs /\ status[runOf[t]] # "none"

Inv == TypeOK /\ UsedTurnsHaveRuns /\ RunningIsBacked

LEMMA InitInv == Init => Inv
BY DEF Init, Inv, TypeOK, UsedTurnsHaveRuns, RunningIsBacked, NoCall, NoClose,
       InFlight, Working

\* An action that launches a turn on r preserves what is said about turns.
LEMMA LaunchKeeps ==
  ASSUME Inv, NEW r \in Runs, NEW t \in Turns, Launch(r, t)
  PROVE  UsedTurnsHaveRuns' /\ RunningIsBacked'
<1>1. pc'[t] \in Working /\ \A u \in Turns \ {t} : pc'[u] = pc[u]
  BY DEF Inv, TypeOK, Launch, Boot, Working
<1>2. runOf'[t] = r /\ \A u \in Turns \ {t} : runOf'[u] = runOf[u]
  BY DEF Inv, TypeOK, Launch
<1>3. status'[r] = "running" /\ \A q \in Runs \ {r} : status'[q] = status[q]
  BY DEF Inv, TypeOK, Launch
<1>4. promise'[r] = t /\ \A q \in Runs \ {r} : promise'[q] = promise[q]
  BY DEF Inv, TypeOK, Launch
<1>5. UsedTurnsHaveRuns'
  BY <1>1, <1>2, <1>3 DEF Inv, UsedTurnsHaveRuns
<1>6. RunningIsBacked'
  <2> SUFFICES ASSUME NEW q \in Runs, status'[q] = "running"
               PROVE  promise'[q] \in WorkingOn(q)'
    BY DEF RunningIsBacked
  <2>1. CASE q = r
    BY <2>1, <1>1, <1>2, <1>4 DEF WorkingOn
  <2>2. CASE q # r
    <3>1. promise[q] \in WorkingOn(q)
      BY <2>2, <1>3 DEF Inv, RunningIsBacked
    <3>2. promise[q] # t
      BY <3>1, LaunchFresh DEF WorkingOn, Working
    <3>3. QED BY <2>2, <3>1, <3>2, <1>1, <1>2, <1>4 DEF WorkingOn
  <2>3. QED BY <2>1, <2>2
<1>7. QED BY <1>5, <1>6

\* So does an action that leaves the turns alone and starts no run.
LEMMA StillKeeps ==
  ASSUME Inv, UNCHANGED <<pc, runOf, promise>>,
         \A r \in Runs : \/ status'[r] = status[r]
                         \/ status[r] # "none" /\ status'[r] = "interrupted"
  PROVE  UsedTurnsHaveRuns' /\ RunningIsBacked'
<1>1. UsedTurnsHaveRuns'
  BY DEF Inv, UsedTurnsHaveRuns
<1>2. RunningIsBacked'
  BY DEF Inv, RunningIsBacked, WorkingOn
<1>3. QED BY <1>1, <1>2

\* A turn that settles takes its run out of "running", and no other turn moves.
LEMMA SettleKeeps ==
  ASSUME Inv, NEW t \in Turns, pc[t] \in Working, NEW succeeded \in BOOLEAN,
         Settle(t, succeeded), UNCHANGED <<runOf, promise>>
  PROVE  /\ UsedTurnsHaveRuns' /\ RunningIsBacked'
         /\ status' \in [Runs -> {"none", "running"} \cup Settled]
         /\ pc' \in [Turns -> InFlight \cup {"unused", "done"}]
         /\ announced' \in SUBSET Turns
<1>1. runOf[t] \in Runs /\ status[runOf[t]] # "none"
  BY DEF Inv, UsedTurnsHaveRuns, Working
<1>2. AfterTurn(runOf[t], succeeded) \in Settled
  BY <1>1, AfterTurnSettles DEF Inv
<1> DEFINE outcome == AfterTurn(runOf[t], succeeded)
<1>3. status' = [status EXCEPT ![runOf[t]] = outcome]
  BY DEF Settle
<1>4. pc' = [pc EXCEPT ![t] = "persisting"]
  BY DEF Settle
<1>5. announced' \in SUBSET Turns
  BY DEF Settle, Inv, TypeOK
<1>6. outcome \in Settled
  BY <1>2
<1> HIDE DEF outcome
<1>7. /\ status' \in [Runs -> {"none", "running"} \cup Settled]
      /\ pc' \in [Turns -> InFlight \cup {"unused", "done"}]
  BY <1>3, <1>4, <1>6 DEF Inv, TypeOK, InFlight
<1>8. UsedTurnsHaveRuns'
  BY <1>1, <1>3, <1>4, <1>6 DEF Inv, TypeOK, UsedTurnsHaveRuns, Settled, Working
<1>9. RunningIsBacked'
  <2> SUFFICES ASSUME NEW q \in Runs, status'[q] = "running"
               PROVE  promise'[q] \in WorkingOn(q)'
    BY DEF RunningIsBacked
  <2>1. q # runOf[t]
    BY <1>1, <1>3, <1>6 DEF Inv, TypeOK, Settled
  <2>2. promise[q] \in WorkingOn(q)
    BY <2>1, <1>3 DEF Inv, TypeOK, RunningIsBacked
  <2>3. promise[q] # t
    BY <2>1, <2>2 DEF WorkingOn
  <2>4. QED BY <2>2, <2>3, <1>4 DEF Inv, TypeOK, WorkingOn
<1>10. QED BY <1>5, <1>7, <1>8, <1>9

\* A turn that moves on without settling changes no status.
LEMMA AdvanceKeeps ==
  ASSUME Inv, NEW t \in Turns, UNCHANGED <<status, promise, runOf>>,
         NEW p, pc' = [pc EXCEPT ![t] = p],
         \/ pc[t] \in Working /\ p \in Working
         \/ pc[t] = "persisting" /\ p = "done"
  PROVE  UsedTurnsHaveRuns' /\ RunningIsBacked'
<1>1. UsedTurnsHaveRuns'
  BY DEF Inv, TypeOK, UsedTurnsHaveRuns, Working
<1>2. RunningIsBacked'
  BY DEF Inv, TypeOK, RunningIsBacked, WorkingOn, Working
<1>3. QED BY <1>1, <1>2

-----------------------------------------------------------------------------
LEMMA HostInv == ASSUME Inv, HostStep PROVE Inv'
<1> USE DEF Inv
<1>1. CASE Shutdown
  <2> DEFINE running == {r \in listed : status[r] = "running"}
  <2>1. Stop(running) /\ Dispose(listed \ running)
    BY <1>1 DEF Shutdown
  <2>2. \A r \in Runs : \/ status'[r] = status[r]
                        \/ status[r] # "none" /\ status'[r] = "interrupted"
    BY <2>1 DEF Stop
  <2> HIDE DEF running
  <2>3. UsedTurnsHaveRuns' /\ RunningIsBacked'
    BY <1>1, <2>2, StillKeeps DEF Shutdown
  <2>4. closing' \in [Closers -> [Runs -> CloseType]]
    BY <1>1 DEF Shutdown, TypeOK, Closing, NoClose, Closers, CloseType
  <2>5. TypeOK'
    BY <1>1, <2>1, <2>4, StopType, DisposeType, ForsakeType
    DEF Shutdown, TypeOK, SessionType, CloseType
  <2>6. QED BY <2>3, <2>5
<1>2. ASSUME NEW r \in Runs, StartRun(r) PROVE Inv'
  <2>1. PICK t \in Turns : Launch(r, t)
    BY <1>2 DEF StartRun
  <2>2. TypeOK'
    BY <1>2, <2>1, LaunchType DEF StartRun, callVars, TypeOK, SessionType
  <2>3. QED BY <2>1, <2>2, LaunchKeeps
<1>3. ASSUME NEW r \in Runs, FollowUp(r) PROVE Inv'
  <2>1. PICK t \in Turns : Launch(r, t)
    BY <1>3 DEF FollowUp
  <2>2. TypeOK'
    BY <1>3, <2>1, LaunchType DEF FollowUp, callVars, TypeOK, SessionType
  <2>3. QED BY <2>1, <2>2, LaunchKeeps
<1>4. ASSUME NEW r \in Runs, Interrupt(r) PROVE Inv'
  <2>1. \A q \in Runs : \/ status'[q] = status[q]
                        \/ status[q] # "none" /\ status'[q] = "interrupted"
    BY <1>4 DEF Interrupt, Stop
  <2>2. UsedTurnsHaveRuns' /\ RunningIsBacked'
    BY <1>4, <2>1, StillKeeps DEF Interrupt, turnVars
  <2>3. TypeOK'
    BY <1>4, StopType DEF Interrupt, turnVars, callVars, TypeOK
  <2>4. QED BY <2>2, <2>3
<1>5. ASSUME NEW r \in Runs, Close(r) PROVE Inv'
  <2>1. \A q \in Runs : \/ status'[q] = status[q]
                        \/ status[q] # "none" /\ status'[q] = "interrupted"
    BY <1>5 DEF Close, Stop
  <2>2. UsedTurnsHaveRuns' /\ RunningIsBacked'
    BY <1>5, <2>1, StillKeeps DEF Close
  <2>3. closing' \in [Closers -> [Runs -> CloseType]]
    BY <1>5 DEF Close, TypeOK, Closing, Closers, CloseType
  <2>4. session' \in SessionType
    BY <1>5, DisposeType DEF Close, TypeOK, SessionType
  <2>5. status' \in [Runs -> {"none", "running"} \cup Settled] /\ stopped' \in SUBSET Turns
    BY <1>5, StopType DEF Close, TypeOK
  <2>6. TypeOK'
    BY <1>5, <2>3, <2>4, <2>5, ForsakeType DEF Close, TypeOK, SessionType, CloseType
  <2>7. QED BY <2>2, <2>6
<1>6. ASSUME NEW c \in Calls, NEW r \in Runs, Steer(c, r) PROVE Inv'
  <2>1. UsedTurnsHaveRuns' /\ RunningIsBacked'
    BY <1>6, StillKeeps DEF Steer, runVars
  <2>2. call' \in [Calls -> CallType]
    BY <1>6 DEF Steer, TypeOK, CallType
  <2>3. TypeOK'
    BY <1>6, <2>2 DEF Steer, runVars, history, TypeOK, CallType
  <2>4. QED BY <2>1, <2>3
<1>7. ASSUME NEW c \in Calls, NEW r \in Runs, Wait(c, r) PROVE Inv'
  <2>1. UsedTurnsHaveRuns' /\ RunningIsBacked'
    BY <1>7, StillKeeps DEF Wait, runVars, turnVars
  <2>2. call' \in [Calls -> CallType]
    BY <1>7 DEF Wait, TypeOK, CallType
  <2>3. TypeOK'
    BY <1>7, <2>2 DEF Wait, runVars, turnVars, history, TypeOK, CallType
  <2>4. QED BY <2>1, <2>3
<1>8. ASSUME NEW c \in Calls, WaitAborts(c) PROVE Inv'
  <2>1. UsedTurnsHaveRuns' /\ RunningIsBacked'
    BY <1>8, StillKeeps DEF WaitAborts, runVars, turnVars
  <2>2. TypeOK'
    BY <1>8 DEF WaitAborts, runVars, turnVars, history, TypeOK
  <2>3. QED BY <2>1, <2>2
<1>9. QED BY <1>1, <1>2, <1>3, <1>4, <1>5, <1>6, <1>7, <1>8 DEF HostStep

LEMMA CallInv == ASSUME Inv, NEW c \in Calls, CallStep(c) PROVE Inv'
<1> USE DEF Inv
<1>1. CASE SteerBoots(c)
  <2>1. UsedTurnsHaveRuns' /\ RunningIsBacked'
    BY <1>1, StillKeeps DEF SteerBoots
  <2>2. call' \in [Calls -> CallType]
    BY <1>1 DEF SteerBoots, TypeOK, CallType
  <2>3. call[c].run \in Runs
    BY <1>1 DEF SteerBoots, TypeOK, NoCall
  <2>4. /\ handle' \in [Runs -> Turns \cup Calls \cup {None}]
        /\ session' \in SessionType
    <3>1. CASE Hold(call[c].run, c)
      BY <2>3, <3>1, HoldType
    <3>2. CASE session' = [session EXCEPT ![c] = "none"] /\ handle' = handle
      BY <3>2 DEF TypeOK, SessionType
    <3>3. QED BY <1>1, <3>1, <3>2 DEF SteerBoots
  <2>5. TypeOK'
    BY <1>1, <2>2, <2>4 DEF SteerBoots, history, TypeOK, CallType, SessionType
  <2>6. QED BY <2>1, <2>5
<1>2. CASE WaitReturns(c)
  <2>1. UsedTurnsHaveRuns' /\ RunningIsBacked'
    BY <1>2, StillKeeps DEF WaitReturns, runVars, turnVars
  <2>2. TypeOK'
    BY <1>2 DEF WaitReturns, runVars, turnVars, history, TypeOK
  <2>3. QED BY <2>1, <2>2
<1>3. QED BY <1>1, <1>2 DEF CallStep

LEMMA CloseInv ==
  ASSUME Inv, NEW k \in Closers, NEW r \in Runs, CloseStep(k, r) PROVE Inv'
<1> USE DEF Inv
<1>1. CASE CloseCancelled(k, r)
  <2>1. UsedTurnsHaveRuns' /\ RunningIsBacked'
    BY <1>1, StillKeeps DEF CloseCancelled, runVars, turnVars
  <2>2. TypeOK'
    BY <1>1 DEF CloseCancelled, runVars, turnVars, history, TypeOK
  <2>3. QED BY <2>1, <2>2
<1>2. CASE CloseDisposes(k, r)
  <2>1. UsedTurnsHaveRuns' /\ RunningIsBacked'
    BY <1>2, StillKeeps DEF CloseDisposes, runVars
  <2>2. TypeOK'
    BY <1>2, DisposeType DEF CloseDisposes, runVars, history, TypeOK, SessionType
  <2>3. QED BY <2>1, <2>2
<1>3. CASE CloseReturns(k, r)
  <2>1. UsedTurnsHaveRuns' /\ RunningIsBacked'
    BY <1>3, StillKeeps DEF CloseReturns, turnVars
  <2>2. TypeOK'
    BY <1>3 DEF CloseReturns, turnVars, history, TypeOK, NoClose
  <2>3. QED BY <2>1, <2>2
<1>4. QED BY <1>1, <1>2, <1>3 DEF CloseStep

LEMMA TurnInv == ASSUME Inv, NEW t \in Turns, TurnStep(t) PROVE Inv'
<1> USE DEF Inv
<1>1. CASE SessionCreated(t)
  <2>1. runOf[t] \in Runs
    BY <1>1 DEF SessionCreated, UsedTurnsHaveRuns, Creating
  <2>2. UsedTurnsHaveRuns' /\ RunningIsBacked'
    BY <1>1, AdvanceKeeps DEF SessionCreated, Creating, Working
  <2>3. /\ handle' \in [Runs -> Turns \cup Calls \cup {None}]
        /\ session' \in SessionType
    BY <1>1, <2>1, HoldType DEF SessionCreated
  <2>4. TypeOK'
    BY <1>1, <2>3 DEF SessionCreated, callVars, history, TypeOK, SessionType, InFlight, Working
  <2>5. QED BY <2>2, <2>4
<1>2. CASE CreationFails(t)
  <2>1. /\ UsedTurnsHaveRuns' /\ RunningIsBacked'
        /\ status' \in [Runs -> {"none", "running"} \cup Settled]
        /\ pc' \in [Turns -> InFlight \cup {"unused", "done"}]
        /\ announced' \in SUBSET Turns
    BY <1>2, SettleKeeps DEF CreationFails, Creating, Working
  <2>2. TypeOK'
    BY <1>2, <2>1 DEF CreationFails, Settle, callVars, TypeOK
  <2>3. QED BY <2>1, <2>2
<1>3. CASE Prompt(t)
  <2>1. \/ pc' = [pc EXCEPT ![t] = "recreating"]
        \/ pc' = [pc EXCEPT ![t] = "prompting"]
    BY <1>3 DEF Prompt, Boot
  <2>2. UsedTurnsHaveRuns' /\ RunningIsBacked'
    BY <1>3, <2>1, AdvanceKeeps DEF Prompt, runVars, Working
  <2>3. session' \in SessionType
    BY <1>3 DEF Prompt, Boot, TypeOK, SessionType
  <2>4. TypeOK'
    BY <1>3, <2>1, <2>3 DEF Prompt, runVars, callVars, history, TypeOK, SessionType, InFlight, Working
  <2>5. QED BY <2>2, <2>4
<1>4. CASE PromptSettles(t)
  <2>1. PICK succeeded \in BOOLEAN : Settle(t, succeeded)
    BY <1>4 DEF PromptSettles
  <2>2. /\ UsedTurnsHaveRuns' /\ RunningIsBacked'
        /\ status' \in [Runs -> {"none", "running"} \cup Settled]
        /\ pc' \in [Turns -> InFlight \cup {"unused", "done"}]
        /\ announced' \in SUBSET Turns
    BY <1>4, <2>1, SettleKeeps DEF PromptSettles, Working
  <2>3. TypeOK'
    BY <1>4, <2>2 DEF PromptSettles, Settle, callVars, TypeOK
  <2>4. QED BY <2>2, <2>3
<1>5. CASE Persisted(t)
  <2>1. UsedTurnsHaveRuns' /\ RunningIsBacked'
    BY <1>5, AdvanceKeeps DEF Persisted, runVars
  <2>2. TypeOK'
    BY <1>5 DEF Persisted, runVars, callVars, history, TypeOK
  <2>3. QED BY <2>1, <2>2
<1>6. QED BY <1>1, <1>2, <1>3, <1>4, <1>5 DEF TurnStep

LEMMA NextInv == Inv /\ [Next]_vars => Inv'
<1> SUFFICES ASSUME Inv, [Next]_vars PROVE Inv'
  OBVIOUS
<1>1. CASE HostStep
  BY <1>1, HostInv
<1>2. CASE ShutdownReturns
  <2>1. UsedTurnsHaveRuns' /\ RunningIsBacked'
    BY <1>2, StillKeeps DEF ShutdownReturns, runVars, turnVars
  <2>2. TypeOK'
    BY <1>2 DEF ShutdownReturns, runVars, turnVars, history, Inv, TypeOK
  <2>3. QED BY <2>1, <2>2 DEF Inv
<1>3. ASSUME NEW c \in Calls, CallStep(c) PROVE Inv'
  BY <1>3, CallInv
<1>4. ASSUME NEW k \in Closers, NEW r \in Runs, CloseStep(k, r) PROVE Inv'
  BY <1>4, CloseInv
<1>5. ASSUME NEW t \in Turns, TurnStep(t) PROVE Inv'
  BY <1>5, TurnInv
<1>6. CASE UNCHANGED vars
  BY <1>6 DEF vars, runVars, turnVars, callVars, history, Inv, TypeOK, UsedTurnsHaveRuns,
              RunningIsBacked, WorkingOn
<1>7. QED BY <1>1, <1>2, <1>3, <1>4, <1>5, <1>6 DEF Next

\* The variables keep their types, whatever the host does.
THEOREM LocalTypeCorrect == Spec => []TypeOK
<1>1. Inv => TypeOK
  BY DEF Inv
<1>2. QED BY InitInv, NextInv, <1>1, PTL DEF Spec

\* However calls and continuations of executeChildPrompt() interleave, a run
\* whose status is "running" has its latest turn at work, so that run.promise,
\* which wait() and close() await, is the promise of its outcome.
THEOREM LocalAlwaysBacked == Spec => []RunningIsBacked
<1>1. Inv => RunningIsBacked
  BY DEF Inv
<1>2. QED BY InitInv, NextInv, <1>1, PTL DEF Spec

(***************************************************************************)
(* A stop stays silent, unless the stopped turn is overtaken.  A message   *)
(* puts the run back to "running" under a turn it stopped before, which    *)
(* then settles like any other; nothing else takes a run out of            *)
(* "interrupted".                                                          *)
(***************************************************************************)

AnnouncedAreOver == \A t \in announced : pc[t] \in {"persisting", "done"}

StoppedStaysStopped ==
  \A t \in stopped :
    /\ pc[t] # "unused"
    /\ pc[t] \in Working /\ t \notin overtaken => status[runOf[t]] = "interrupted"

SilentInv == Inv /\ AnnouncedAreOver /\ StoppedStaysStopped /\ StoppedIsSilent

\* At first no turn was stopped.
LEMMA InitSilent == Init => SilentInv
BY InitInv DEF Init, SilentInv, AnnouncedAreOver, StoppedStaysStopped, StoppedIsSilent

\* Launching a turn overtakes the stopped ones of its run.
LEMMA LaunchSilent ==
  ASSUME SilentInv, NEW r \in Runs, NEW t \in Turns, Launch(r, t),
         UNCHANGED <<stopped, announced>>
  PROVE  AnnouncedAreOver' /\ StoppedStaysStopped' /\ StoppedIsSilent'
<1> USE DEF SilentInv
<1>1. /\ pc[t] = "unused"
      /\ \A u \in Turns \ {t} : pc'[u] = pc[u] /\ runOf'[u] = runOf[u]
  BY LaunchFresh DEF Inv, TypeOK, Launch, Boot
<1>2. AnnouncedAreOver'
  BY <1>1 DEF AnnouncedAreOver, Inv, TypeOK
<1>3. overtaken' = overtaken \cup (WorkingOn(r) \cap stopped)
  BY DEF Launch
<1>4. StoppedStaysStopped'
  <2> SUFFICES ASSUME NEW u \in stopped
               PROVE  /\ pc'[u] # "unused"
                      /\ pc'[u] \in Working /\ u \notin overtaken' =>
                           status'[runOf'[u]] = "interrupted"
    BY DEF StoppedStaysStopped
  <2>1. u \in Turns /\ u # t
    BY <1>1 DEF Inv, TypeOK, StoppedStaysStopped
  <2>2. pc'[u] # "unused"
    BY <1>1, <2>1 DEF StoppedStaysStopped
  <2>3. CASE pc'[u] \in Working /\ u \notin overtaken'
    <3>1. /\ pc[u] \in Working /\ runOf'[u] = runOf[u]
          /\ status[runOf[u]] = "interrupted"
      BY <1>1, <1>3, <2>1, <2>3 DEF StoppedStaysStopped
    <3>2. runOf[u] \in Runs /\ runOf[u] # r
      BY <1>3, <2>1, <2>3, <3>1 DEF Inv, UsedTurnsHaveRuns, Working, WorkingOn
    <3>3. QED BY <2>2, <3>1, <3>2 DEF Launch, Inv, TypeOK
  <2>4. QED BY <2>2, <2>3
<1>5. QED BY <1>2, <1>3, <1>4 DEF StoppedIsSilent

\* Stopping runs: their turns at work have announced nothing yet.
LEMMA StopSilent ==
  ASSUME SilentInv, NEW rs \in SUBSET Runs, Stop(rs),
         UNCHANGED <<pc, runOf, announced, overtaken>>
  PROVE  AnnouncedAreOver' /\ StoppedStaysStopped' /\ StoppedIsSilent'
<1> USE DEF SilentInv
<1>1. \A u \in stopped' \ stopped : u \in Turns /\ pc[u] \in Working /\ runOf[u] \in rs
  BY DEF Stop, WorkingOn
<1>2. StoppedStaysStopped'
  <2> SUFFICES ASSUME NEW u \in stopped'
               PROVE  /\ pc[u] # "unused"
                      /\ pc[u] \in Working /\ u \notin overtaken =>
                           status'[runOf[u]] = "interrupted"
    BY DEF StoppedStaysStopped
  <2>1. CASE u \in stopped
    <3>1. CASE pc[u] \in Working
      <4>1. runOf[u] \in Runs
        BY <2>1, <3>1 DEF Inv, TypeOK, UsedTurnsHaveRuns, Working
      <4>2. QED BY <2>1, <3>1, <4>1 DEF Stop, StoppedStaysStopped
    <3>2. QED BY <2>1, <3>1 DEF StoppedStaysStopped
  <2>2. CASE u \notin stopped
    BY <2>2, <1>1 DEF Stop, Working
  <2>3. QED BY <2>1, <2>2
<1>3. AnnouncedAreOver'
  BY DEF AnnouncedAreOver
<1>4. StoppedIsSilent'
  BY <1>1 DEF StoppedIsSilent, AnnouncedAreOver, Working
<1>5. QED BY <1>2, <1>3, <1>4

\* A turn settles: a stopped one that was not overtaken finds its run stopped.
LEMMA SettleSilent ==
  ASSUME SilentInv, NEW t \in Turns, pc[t] \in Working, NEW succeeded \in BOOLEAN,
         Settle(t, succeeded), UNCHANGED runOf
  PROVE  AnnouncedAreOver' /\ StoppedStaysStopped' /\ StoppedIsSilent'
<1> USE DEF SilentInv
<1> DEFINE outcome == AfterTurn(runOf[t], succeeded)
<1>1. runOf[t] \in Runs
  BY DEF Inv, UsedTurnsHaveRuns, Working
<1>2. status[runOf[t]] = "interrupted" => outcome = "interrupted"
  BY DEF AfterTurn
<1>3. /\ status' = [status EXCEPT ![runOf[t]] = outcome]
      /\ pc' = [pc EXCEPT ![t] = "persisting"]
      /\ announced' = IF outcome \in {"completed", "failed"}
                      THEN announced \cup {t} ELSE announced
      /\ UNCHANGED <<stopped, overtaken>>
  BY DEF Settle
<1> HIDE DEF outcome
<1>4. AnnouncedAreOver'
  BY <1>3 DEF AnnouncedAreOver, Inv, TypeOK
<1>5. StoppedIsSilent'
  BY <1>2, <1>3 DEF StoppedIsSilent, StoppedStaysStopped
<1>6. StoppedStaysStopped'
  <2> SUFFICES ASSUME NEW u \in stopped
               PROVE  /\ pc'[u] # "unused"
                      /\ pc'[u] \in Working /\ u \notin overtaken =>
                           status'[runOf[u]] = "interrupted"
    BY <1>3 DEF StoppedStaysStopped
  <2>1. u \in Turns
    BY DEF Inv, TypeOK
  <2>2. CASE u = t
    BY <1>3, <2>1, <2>2 DEF Inv, TypeOK, Working
  <2>3. CASE u # t
    <3>1. pc'[u] = pc[u]
      BY <1>3, <2>1, <2>3 DEF Inv, TypeOK
    <3>2. CASE pc[u] \in Working /\ u \notin overtaken
      <4>1. status[runOf[u]] = "interrupted"
        BY <3>2 DEF StoppedStaysStopped
      <4>2. runOf[u] \in Runs
        BY <2>1, <3>2 DEF Inv, UsedTurnsHaveRuns, Working
      <4>3. QED BY <1>2, <1>3, <3>1, <3>2, <4>1, <4>2 DEF Inv, TypeOK, Working
    <3>3. QED BY <3>1, <3>2 DEF StoppedStaysStopped
  <2>4. QED BY <2>2, <2>3
<1>7. QED BY <1>4, <1>5, <1>6

\* A turn that moves on without settling.
LEMMA AdvanceSilent ==
  ASSUME SilentInv, NEW t \in Turns, UNCHANGED <<status, runOf, history>>,
         NEW p, pc' = [pc EXCEPT ![t] = p],
         \/ pc[t] \in Working /\ p \in Working
         \/ pc[t] = "persisting" /\ p = "done"
  PROVE  AnnouncedAreOver' /\ StoppedStaysStopped' /\ StoppedIsSilent'
BY DEF SilentInv, Inv, TypeOK, AnnouncedAreOver, StoppedStaysStopped, StoppedIsSilent,
       Working, history

\* Nothing it speaks of moves.
LEMMA StillSilent ==
  ASSUME SilentInv, UNCHANGED <<status, pc, runOf, stopped, announced, overtaken>>
  PROVE  AnnouncedAreOver' /\ StoppedStaysStopped' /\ StoppedIsSilent'
BY DEF SilentInv, AnnouncedAreOver, StoppedStaysStopped, StoppedIsSilent, Working

\* Each step keeps the stops silent.
LEMMA NextSilent == ASSUME SilentInv, [Next]_vars PROVE SilentInv'
<1>1. Inv'
  BY NextInv DEF SilentInv
<1> DEFINE Goal == AnnouncedAreOver' /\ StoppedStaysStopped' /\ StoppedIsSilent'
<1>3. ASSUME NEW r \in Runs, StartRun(r) \/ FollowUp(r) PROVE Goal
  <2>1. PICK t \in Turns : Launch(r, t)
    BY <1>3 DEF StartRun, FollowUp
  <2>2. QED BY <1>3, <2>1, LaunchSilent DEF StartRun, FollowUp
<1>5. ASSUME NEW r \in Runs, Interrupt(r) PROVE Goal
  BY <1>5, StopSilent DEF Interrupt, turnVars
<1>6. ASSUME NEW r \in Runs, Close(r) PROVE Goal
  <2>1. CASE Stop({r})
    BY <1>6, <2>1, StopSilent DEF Close
  <2>2. CASE UNCHANGED <<status, stopped>>
    BY StillSilent, <1>6, <2>2 DEF Close
  <2>3. QED BY <1>6, <2>1, <2>2 DEF Close
<1>7. ASSUME Shutdown PROVE Goal
  <2> DEFINE running == {r \in listed : status[r] = "running"}
  <2>1. running \in SUBSET Runs
    BY DEF SilentInv, Inv, TypeOK
  <2>2. Stop(running) /\ UNCHANGED <<pc, runOf, announced, overtaken>>
    BY <1>7 DEF Shutdown
  <2> HIDE DEF running
  <2>3. QED BY <2>1, <2>2, StopSilent DEF Stop
<1>8. ASSUME NEW c \in Calls, NEW r \in Runs, Steer(c, r) \/ Wait(c, r) PROVE Goal
  BY StillSilent, <1>8 DEF Steer, Wait, runVars, turnVars, history
<1>9. ASSUME NEW c \in Calls, WaitAborts(c) \/ CallStep(c) PROVE Goal
  BY StillSilent, <1>9 DEF WaitAborts, CallStep, SteerBoots, WaitReturns, runVars, turnVars, history
<1>10. ASSUME NEW k \in Closers, NEW r \in Runs, CloseStep(k, r) PROVE Goal
  BY StillSilent, <1>10 DEF CloseStep, CloseCancelled, CloseDisposes, CloseReturns,
                     runVars, turnVars, history
<1>11. ASSUME ShutdownReturns PROVE Goal
  BY StillSilent, <1>11 DEF ShutdownReturns, runVars, turnVars, history
<1>12. ASSUME NEW t \in Turns, TurnStep(t) PROVE Goal
  <2>1. CASE SessionCreated(t)
    <3>1. \/ pc' = [pc EXCEPT ![t] = "started"]
          \/ pc' = [pc EXCEPT ![t] = "prompting"]
      BY <2>1 DEF SessionCreated
    <3>2. QED BY <2>1, <3>1, AdvanceSilent DEF SessionCreated, Creating, Working
  <2>2. CASE CreationFails(t)
    BY <2>2, SettleSilent DEF CreationFails, Creating, Working
  <2>3. CASE Prompt(t)
    <3>1. \/ pc' = [pc EXCEPT ![t] = "recreating"]
          \/ pc' = [pc EXCEPT ![t] = "prompting"]
      BY <2>3 DEF Prompt, Boot
    <3>2. QED BY <2>3, <3>1, AdvanceSilent DEF Prompt, runVars, Working
  <2>4. CASE PromptSettles(t)
    BY <2>4, SettleSilent DEF PromptSettles, Working
  <2>5. CASE Persisted(t)
    BY <2>5, AdvanceSilent DEF Persisted, runVars
  <2>6. QED BY <1>12, <2>1, <2>2, <2>3, <2>4, <2>5 DEF TurnStep
<1>13. ASSUME UNCHANGED vars PROVE Goal
  BY StillSilent, <1>13 DEF vars, runVars, turnVars, history
<1>14. Goal
  BY <1>3, <1>5, <1>6, <1>7, <1>8, <1>9, <1>10, <1>11, <1>12, <1>13
  DEF Next, HostStep
<1>15. QED BY <1>1, <1>14 DEF SilentInv

\* No turn that was stopped by interrupt(), close() or closeAllChildRuns() is
\* announced as completed or failed, however calls and continuations
\* interleave, unless a message had started the run's next turn while it was
\* still at work.
THEOREM StopsAreSilent == Spec => []StoppedIsSilent
<1>1. SilentInv /\ [Next]_vars => SilentInv'
  BY NextSilent
<1>2. SilentInv => StoppedIsSilent
  BY DEF SilentInv
<1>3. QED BY InitSilent, <1>1, <1>2, PTL DEF Spec

(***************************************************************************)
(* The portable lifecycle contract.  A run that left the map is closed to  *)
(* a caller, whatever its last status, and so is one on which a message    *)
(* overtook a stopped turn.                                                *)
(***************************************************************************)

\* Runs in the map were started, and what works for a stopped run was stopped.
\* Unless one was overtaken, one turn of a run works at a time, and only while
\* the run is running or stopped.
WorkFits ==
  /\ \A r \in listed : status[r] # "none"
  /\ \A t \in overtaken : pc[t] # "unused"
  /\ \A r \in Runs : status[r] = "interrupted" => WorkingOn(r) \subseteq stopped
  /\ \A r \in Runs : ~Overtook(r) =>
       /\ \A t, u \in WorkingOn(r) : t = u
       /\ WorkingOn(r) # {} => status[r] \in {"running", "interrupted"}

WorkInv == Inv /\ WorkFits

\* What the contract sees of each run.
Shown == [r \in Runs |-> IF Overtook(r) \/ (status[r] # "none" /\ r \notin listed)
                         THEN "closed" ELSE status[r]]
AtWork == [r \in Runs |-> Overtook(r) \/ WorkingOn(r) # {}]

\* A turn begins on a run that nothing works for, or the contract is done with
\* the run.
LEMMA LaunchWorks ==
  ASSUME WorkInv, NEW r \in Runs, NEW t \in Turns, Launch(r, t), UNCHANGED stopped,
         listed' = listed \cup {r}, status[r] # "running", r \in listed \/ status[r] = "none"
  PROVE  WorkFits' /\ [Contract!Next]_(Contract!vars)
<1>1. /\ pc[t] = "unused" /\ pc'[t] \in Working
      /\ \A u \in Turns \ {t} : pc'[u] = pc[u]
      /\ \A u \in Turns : runOf'[u] = IF u = t THEN r ELSE runOf[u]
  BY LaunchFresh DEF WorkInv, Inv, TypeOK, Launch, Boot, Working
<1>2. WorkingOn(r)' = WorkingOn(r) \cup {t}
  BY <1>1 DEF WorkingOn, Working
<1>3. \A q \in Runs \ {r} : WorkingOn(q)' = WorkingOn(q)
  BY <1>1 DEF WorkingOn, Working
<1>4. /\ status' = [status EXCEPT ![r] = "running"]
      /\ status \in [Runs -> {"none", "running"} \cup Settled]
      /\ overtaken' = overtaken \cup (WorkingOn(r) \cap stopped)
      /\ overtaken \in SUBSET Turns /\ listed \in SUBSET Runs
  BY DEF Launch, WorkInv, Inv, TypeOK
<1>5. \A u \in overtaken : u \in Turns \ {t} /\ pc[u] # "unused"
  BY <1>1, <1>4 DEF WorkInv, WorkFits
<1>6. \A u \in WorkingOn(r) : u \in Turns \ {t} /\ pc[u] \in Working /\ runOf[u] = r
  BY <1>1 DEF WorkingOn, Working
<1>7. \A q \in Runs : Overtook(q)' <=> Overtook(q) \/ (q = r /\ WorkingOn(r) \cap stopped # {})
  BY <1>1, <1>4, <1>5, <1>6 DEF Overtook
<1>8. ~Overtook(r)' => WorkingOn(r) = {}
  BY <1>7 DEF WorkInv, WorkFits
<1>9. WorkFits'
  <2>1. \A q \in listed' : status'[q] # "none"
    BY <1>4 DEF WorkInv, WorkFits
  <2>2. \A u \in overtaken' : pc'[u] # "unused"
    BY <1>1, <1>4, <1>5, <1>6 DEF Working
  <2>3. \A q \in Runs : status'[q] = "interrupted" => WorkingOn(q)' \subseteq stopped'
    BY <1>3, <1>4 DEF WorkInv, WorkFits
  <2>4. ASSUME NEW q \in Runs, ~Overtook(q)'
        PROVE  /\ \A u, v \in WorkingOn(q)' : u = v
               /\ WorkingOn(q)' # {} => status'[q] \in {"running", "interrupted"}
    <3>1. CASE q = r
      BY <1>2, <1>4, <1>8, <2>4, <3>1
    <3>2. CASE q # r
      BY <1>3, <1>4, <1>7, <2>4, <3>2 DEF WorkInv, WorkFits
    <3>3. QED BY <3>1, <3>2
  <2>5. QED BY <2>1, <2>2, <2>3, <2>4 DEF WorkFits
<1>10. CASE Overtook(r)
  <2>1. AtWork' = AtWork /\ Shown' = Shown
    BY <1>3, <1>4, <1>7, <1>10 DEF AtWork, Shown
  <2>2. QED BY <1>9, <2>1 DEF Contract!vars, AtWork, Shown
<1>11. CASE ~Overtook(r) /\ Overtook(r)'
  <2>1. WorkingOn(r) # {}
    BY <1>7, <1>11
  <2>2. status[r] = "interrupted" /\ r \in listed
    BY <1>11, <2>1 DEF WorkInv, WorkFits
  <2>3. AtWork' = AtWork
    BY <1>3, <1>7, <1>11, <2>1 DEF AtWork
  <2>4. /\ Shown' = [q \in Runs |-> IF q \in {r} THEN "closed" ELSE Shown[q]]
        /\ Shown[r] = "interrupted"
    BY <1>4, <1>7, <1>11, <2>2 DEF Shown
  <2>5. Contract!Close({r})
    BY <2>3, <2>4 DEF Contract!Close, Shown, AtWork
  <2>6. QED BY <1>9, <2>5 DEF Contract!Next
<1>12. CASE ~Overtook(r)'
  <2>1. AtWork' = [AtWork EXCEPT ![r] = TRUE] /\ ~AtWork[r]
    BY <1>2, <1>3, <1>7, <1>8, <1>12 DEF AtWork
  <2>2. Shown' = [Shown EXCEPT ![r] = "running"] /\ Shown[r] \notin {"running", "closed"}
    BY <1>4, <1>7, <1>12 DEF Shown, Settled
  <2>3. Contract!BeginTurn(r)
    BY <2>1, <2>2 DEF Contract!BeginTurn, Shown, AtWork
  <2>4. QED BY <1>9, <2>3 DEF Contract!Next
<1>13. QED BY <1>10, <1>11, <1>12

\* The turn a run works on settles it, or winds down after a stop.
LEMMA SettleWorks ==
  ASSUME WorkInv, NEW t \in Turns, pc[t] \in Working, NEW succeeded \in BOOLEAN,
         Settle(t, succeeded), UNCHANGED <<runOf, listed>>
  PROVE  WorkFits' /\ [Contract!Next]_(Contract!vars)
<1>0. PICK r \in Runs : r = runOf[t]
  BY DEF WorkInv, Inv, UsedTurnsHaveRuns, Working
<1> DEFINE outcome == AfterTurn(r, succeeded)
<1>1. status[r] # "none" /\ t \in WorkingOn(r)
  BY <1>0 DEF WorkInv, Inv, UsedTurnsHaveRuns, Working, WorkingOn
<1>2. /\ pc' = [pc EXCEPT ![t] = "persisting"]
      /\ status' = [status EXCEPT ![r] = outcome]
      /\ status \in [Runs -> {"none", "running"} \cup Settled]
      /\ pc \in [Turns -> InFlight \cup {"unused", "done"}]
      /\ UNCHANGED <<stopped, overtaken>> /\ overtaken \in SUBSET Turns
  BY <1>0 DEF Settle, WorkInv, Inv, TypeOK
<1>3. /\ status[r] = "running" => outcome \in {"completed", "failed"}
      /\ status[r] = "interrupted" => outcome = status[r]
      /\ outcome = "interrupted" => status[r] = "interrupted"
  BY DEF AfterTurn
<1>4. outcome \in Settled
  BY <1>1, AfterTurnSettles DEF WorkInv, Inv
<1> HIDE DEF outcome
<1>5. WorkingOn(r)' \subseteq WorkingOn(r) \ {t}
  BY <1>2 DEF WorkingOn, Working
<1>6. \A q \in Runs \ {r} : WorkingOn(q)' = WorkingOn(q)
  BY <1>0, <1>2 DEF WorkingOn
<1>7. \A q \in Runs : Overtook(q)' <=> Overtook(q)
  BY <1>2 DEF Overtook
<1>8. ~Overtook(r) => WorkingOn(r)' = {} /\ status[r] \in {"running", "interrupted"}
  BY <1>1, <1>5 DEF WorkInv, WorkFits
<1>9. WorkFits'
  <2>1. /\ \A q \in Runs : status'[q] = IF q = r THEN outcome ELSE status[q]
        /\ listed \in SUBSET Runs /\ listed' = listed /\ outcome # "none"
    BY <1>2, <1>4 DEF WorkInv, Inv, TypeOK, Settled
  <2>2. \A q \in listed' : status'[q] # "none"
    BY <2>1 DEF WorkInv, WorkFits
  <2>3. \A u \in overtaken' : pc'[u] # "unused"
    BY <1>2 DEF WorkInv, WorkFits
  <2>4. \A q \in Runs : status'[q] = "interrupted" => WorkingOn(q)' \subseteq stopped'
    BY <2>1, <1>2, <1>3, <1>5, <1>6 DEF WorkInv, WorkFits
  <2>5. ASSUME NEW q \in Runs, ~Overtook(q)'
        PROVE  /\ \A u, v \in WorkingOn(q)' : u = v
               /\ WorkingOn(q)' # {} => status'[q] \in {"running", "interrupted"}
    BY <2>1, <1>6, <1>7, <1>8, <2>5 DEF WorkInv, WorkFits
  <2>6. QED BY <2>2, <2>3, <2>4, <2>5 DEF WorkFits
<1>10. CASE Overtook(r)
  <2>1. AtWork' = AtWork /\ Shown' = Shown
    BY <1>2, <1>6, <1>7, <1>10 DEF AtWork, Shown
  <2>2. QED BY <1>9, <2>1 DEF Contract!vars, AtWork, Shown
<1>11. CASE ~Overtook(r)
  <2>0. AtWork' = [AtWork EXCEPT ![r] = FALSE] /\ AtWork[r]
    BY <1>1, <1>6, <1>7, <1>8, <1>11 DEF AtWork
  <2>1. CASE r \in listed /\ status[r] = "running"
    <3>1. Shown' = [Shown EXCEPT ![r] = outcome] /\ Shown[r] = "running"
      BY <1>1, <1>2, <1>3, <1>7, <1>11, <2>1 DEF Shown
    <3>2. Contract!Settle(r)
      BY <1>3, <2>0, <2>1, <3>1 DEF Contract!Settle, Shown, AtWork
    <3>3. QED BY <1>9, <3>2 DEF Contract!Next
  <2>2. CASE ~(r \in listed /\ status[r] = "running")
    <3>1. Shown' = Shown /\ Shown[r] \in {"interrupted", "closed"}
      BY <1>1, <1>2, <1>3, <1>4, <1>7, <1>8, <1>11, <2>2 DEF Shown, Settled
    <3>2. Contract!WindDown(r)
      BY <2>0, <3>1 DEF Contract!WindDown, Shown, AtWork
    <3>3. QED BY <1>9, <3>2 DEF Contract!Next
  <2>3. QED BY <2>1, <2>2
<1>12. QED BY <1>10, <1>11

\* A stop of runs that are in the map.
LEMMA StopWorks ==
  ASSUME WorkInv, NEW rs \in SUBSET listed, \A r \in rs : status[r] = "running",
         Stop(rs), UNCHANGED <<pc, runOf, listed, overtaken>>
  PROVE  WorkFits' /\ [Contract!Next]_(Contract!vars)
<1>1. /\ \A r \in Runs : WorkingOn(r)' = WorkingOn(r) /\ (Overtook(r)' <=> Overtook(r))
      /\ status' = [r \in Runs |-> IF r \in rs THEN "interrupted" ELSE status[r]]
      /\ listed \in SUBSET Runs
      /\ \A r \in rs : WorkingOn(r) \subseteq stopped'
      /\ stopped \subseteq stopped'
  BY DEF WorkingOn, Overtook, Stop, WorkInv, Inv, TypeOK
<1>2. WorkFits'
  BY <1>1 DEF WorkInv, WorkFits
<1>3. AtWork' = AtWork
  BY <1>1 DEF AtWork
<1>4. PICK kept \in SUBSET Runs : \A r \in Runs : r \in kept <=> r \in rs /\ ~Overtook(r)
  <2>1. {r \in rs : ~Overtook(r)} \in SUBSET Runs
    BY <1>1
  <2>2. QED BY <1>1, <2>1
<1>5. /\ Shown' = [r \in Runs |-> IF r \in kept THEN "interrupted" ELSE Shown[r]]
      /\ \A r \in kept : Shown[r] = "running"
  BY <1>1, <1>4 DEF Shown
<1>6. Contract!Interrupt(kept)
  BY <1>3, <1>5 DEF Contract!Interrupt, Shown, AtWork
<1>7. QED BY <1>2, <1>6 DEF Contract!Next

\* The turns that work go on.
LEMMA MoveWorks ==
  ASSUME WorkInv, UNCHANGED <<status, runOf, listed, stopped, overtaken>>,
         \A u \in Turns : /\ pc'[u] \in Working <=> pc[u] \in Working
                          /\ pc'[u] = "unused" => pc[u] = "unused"
  PROVE  WorkFits' /\ UNCHANGED Contract!vars
<1>1. \A r \in Runs : WorkingOn(r)' = WorkingOn(r) /\ (Overtook(r)' <=> Overtook(r))
  BY DEF WorkingOn, Overtook
<1>2. WorkFits'
  BY <1>1 DEF WorkInv, WorkFits, Inv, TypeOK
<1>3. AtWork' = AtWork /\ Shown' = Shown
  BY <1>1 DEF AtWork, Shown
<1>4. QED BY <1>2, <1>3 DEF Contract!vars, AtWork, Shown

\* close() returns: the run leaves the map, or has left it.
LEMMA CloseWorks ==
  ASSUME WorkInv, NEW r \in Runs, listed' = listed \ {r},
         UNCHANGED <<status, pc, runOf, stopped, overtaken>>
  PROVE  WorkFits' /\ [Contract!Next]_(Contract!vars)
<1>1. \A q \in Runs : WorkingOn(q)' = WorkingOn(q) /\ (Overtook(q)' <=> Overtook(q))
  BY DEF WorkingOn, Overtook
<1>2. WorkFits' /\ AtWork' = AtWork
  BY <1>1 DEF WorkInv, WorkFits, AtWork
<1>3. CASE r \in listed /\ ~Overtook(r)
  <2>1. status[r] # "none" /\ Shown[r] = status[r] /\ status[r] # "closed"
    BY <1>3 DEF WorkInv, WorkFits, Shown, Inv, TypeOK, Settled
  <2>2. Shown' = [q \in Runs |-> IF q \in {r} THEN "closed" ELSE Shown[q]]
    BY <1>1, <2>1 DEF Shown
  <2>3. Contract!Close({r})
    BY <1>2, <2>1, <2>2 DEF Contract!Close, Shown, AtWork
  <2>4. QED BY <1>2, <2>3 DEF Contract!Next
<1>4. CASE ~(r \in listed /\ ~Overtook(r))
  <2>1. Shown' = Shown
    BY <1>1, <1>4 DEF Shown
  <2>2. QED BY <1>2, <2>1 DEF Contract!vars, AtWork, Shown
<1>5. QED BY <1>3, <1>4

\* Every step is one of the contract, or none.
LEMMA WorkStep ==
  ASSUME WorkInv, [Next]_vars PROVE WorkFits' /\ [Contract!Next]_(Contract!vars)
<1> DEFINE Goal == WorkFits' /\ [Contract!Next]_(Contract!vars)
<1>0. ASSUME UNCHANGED <<status, listed, pc, runOf, stopped, overtaken>> PROVE Goal
  BY <1>0, MoveWorks
<1>1. ASSUME NEW r \in Runs, StartRun(r) \/ FollowUp(r) PROVE Goal
  <2>1. PICK t \in Turns : Launch(r, t)
    BY <1>1 DEF StartRun, FollowUp
  <2>2. /\ listed' = listed \cup {r} /\ status[r] # "running" /\ UNCHANGED stopped
        /\ r \in listed \/ status[r] = "none"
    BY <1>1 DEF StartRun, FollowUp
  <2>3. QED BY <2>1, <2>2, LaunchWorks
<1>3. ASSUME NEW rs \in SUBSET listed, \A r \in rs : status[r] = "running",
             Stop(rs), UNCHANGED <<pc, runOf, listed, overtaken>>
      PROVE  Goal
  BY <1>3, StopWorks
<1>4. ASSUME NEW r \in Runs, Interrupt(r) PROVE Goal
  BY <1>3, <1>4 DEF Interrupt, turnVars
<1>5. ASSUME NEW r \in Runs, Close(r) PROVE Goal
  <2>1. CASE status[r] = "running" /\ Stop({r})
    BY <1>3, <1>5, <2>1 DEF Close
  <2>2. CASE UNCHANGED <<status, stopped>>
    BY <1>0, <1>5, <2>2 DEF Close
  <2>3. QED BY <1>5, <2>1, <2>2 DEF Close
<1>6. CASE Shutdown
  <2> DEFINE running == {r \in listed : status[r] = "running"}
  <2>1. Stop(running) /\ UNCHANGED <<pc, runOf, listed, overtaken>>
    BY <1>6 DEF Shutdown
  <2>2. QED BY <2>1, <1>3
<1>7. ASSUME NEW c \in Calls, NEW r \in Runs, Steer(c, r) \/ Wait(c, r) PROVE Goal
  BY <1>0, <1>7 DEF Steer, Wait, runVars, turnVars, history
<1>8. ASSUME NEW c \in Calls, WaitAborts(c) \/ CallStep(c) PROVE Goal
  BY <1>0, <1>8 DEF WaitAborts, CallStep, SteerBoots, WaitReturns, runVars, turnVars, history
<1>9. ASSUME NEW k \in Closers, NEW r \in Runs, CloseStep(k, r) PROVE Goal
  <2>1. CASE CloseReturns(k, r)
    BY <2>1, CloseWorks DEF CloseReturns, turnVars, history
  <2>2. CASE CloseCancelled(k, r) \/ CloseDisposes(k, r)
    BY <1>0, <2>2 DEF CloseCancelled, CloseDisposes, runVars, turnVars, history
  <2>3. QED BY <1>9, <2>1, <2>2 DEF CloseStep
<1>10. CASE ShutdownReturns \/ UNCHANGED vars
  BY <1>0, <1>10 DEF ShutdownReturns, vars, runVars, turnVars, history
<1>11. ASSUME NEW t \in Turns, TurnStep(t) PROVE Goal
  <2>1. ASSUME NEW p, pc' = [pc EXCEPT ![t] = p], p \in Working <=> pc[t] \in Working,
               p # "unused", UNCHANGED <<status, listed, runOf, stopped, overtaken>>
        PROVE  Goal
    BY <2>1, MoveWorks DEF WorkInv, Inv, TypeOK
  <2>2. CASE SessionCreated(t)
    <3>1. PICK p \in {"started", "prompting"} : pc' = [pc EXCEPT ![t] = p]
      BY <2>2 DEF SessionCreated
    <3>2. QED BY <2>1, <2>2, <3>1 DEF SessionCreated, history, Creating, Working
  <2>3. CASE Prompt(t)
    <3>1. PICK p \in Working : pc' = [pc EXCEPT ![t] = p]
      BY <2>3 DEF Prompt, Boot, Working
    <3>2. QED BY <2>1, <2>3, <3>1 DEF Prompt, runVars, history, Working
  <2>4. CASE Persisted(t)
    BY <2>1, <2>4 DEF Persisted, runVars, history, Working
  <2>5. CASE CreationFails(t)
    BY <2>5, SettleWorks DEF CreationFails, Creating, Working
  <2>6. CASE PromptSettles(t)
    BY <2>6, SettleWorks DEF PromptSettles, Working
  <2>7. QED BY <1>11, <2>2, <2>3, <2>4, <2>5, <2>6 DEF TurnStep
<1>12. QED
  BY <1>1, <1>4, <1>5, <1>6, <1>7, <1>8, <1>9, <1>10, <1>11 DEF Next, HostStep

\* Whatever is called when, the extension's controller implements the portable
\* lifecycle that the in-process one implements: only the turn a run works on
\* settles it, no second turn begins beside it, and a closed run stays closed.
\* The contract holds of a run up to the message that overtakes its stopped
\* turn; message() in pi-extension.ts looks at the status only.
THEOREM LocalImplementsContract == Spec => KeepsContract
<1>1. Init => WorkInv /\ Contract!Init
  <2> SUFFICES ASSUME Init PROVE WorkInv /\ Contract!Init
    OBVIOUS
  <2>1. \A r \in Runs : WorkingOn(r) = {} /\ ~Overtook(r)
    BY DEF Init, WorkingOn, Working, Overtook
  <2>2. QED BY <2>1, InitInv DEF Init, WorkInv, WorkFits, Contract!Init
<1>2. WorkInv /\ [Next]_vars => WorkInv' /\ [Contract!Next]_(Contract!vars)
  BY WorkStep, NextInv DEF WorkInv
<1>3. QED BY <1>1, <1>2, PTL DEF Spec, KeepsContract, Contract!Spec

(***************************************************************************)
(* What closing leaves.  A turn that is in hand works alone for a run that *)
(* closeAllChildRuns() reaches, and every close() of the run awaits it; a  *)
(* session in hand that lives is held by such a run.                       *)
(***************************************************************************)

Sessions == Turns \cup Calls

Made(s) == session[s] \in {"live", "lost", "disposed"}

\* A run whose session closeAllChildRuns() has yet to dispose of.
Reached(r) ==
  /\ r \in listed
  /\ \A k \in Closers : closing[k][r].at # "disposing"
  /\ down # "no" => closing["shutdown"][r].at # "idle"

TurnFits(t) ==
  /\ pc[t] = "unused" => t \notin inHand /\ session[t] = "none"
  /\ t \in inHand /\ pc[t] \in Working =>
       /\ Reached(runOf[t]) /\ promise[runOf[t]] = t
       /\ \A u \in WorkingOn(runOf[t]) : u = t
       /\ \A k \in Closers :
            closing[k][runOf[t]].at = "awaiting" => closing[k][runOf[t]].on = t

\* A runner holds a session that was made for its run, and no turn is about to
\* replace one that is in hand.
HandleFits(r) ==
  /\ handle[r] \in Turns =>
       /\ runOf[handle[r]] = r /\ pc[handle[r]] \notin Creating \cup {"unused"}
       /\ handle[r] \in inHand => \A u \in Turns : runOf[u] = r => pc[u] \notin Creating
  /\ handle[r] \in Calls => Made(handle[r])

CallFits(c) ==
  /\ call[c].at = "booting" => session[c] = "creating"
  /\ c \in inHand => Made(c)

SessionFits(s) ==
  /\ session[s] = "live" => \E r \in Runs : handle[r] = s /\ Reached(r)
  /\ session[s] = "lost" => \E c \in Calls : Made(c)

DownFits == down = "done" => \A r \in Runs : closing["shutdown"][r].at = "idle"

HandFits ==
  /\ \A t \in Turns : TurnFits(t)
  /\ \A r \in Runs : HandleFits(r)
  /\ \A c \in Calls : CallFits(c)
  /\ \A s \in inHand : SessionFits(s)

HandInv == Inv /\ HandFits /\ DownFits

\* What types and assumptions say of one run, turn or call.
LEMMA HandTypes ==
  ASSUME HandInv
  PROVE  /\ listed \in SUBSET Runs /\ inHand \in SUBSET Sessions
         /\ \A r \in Runs : /\ handle[r] \in Turns \cup Calls \cup {None}
                            /\ promise[r] \in Turns \cup {None}
         /\ \A t \in Turns : pc[t] # "unused" => runOf[t] \in Runs
         /\ \A c \in Calls : /\ call[c] \in CallType
                             /\ call[c].at # "idle" => call[c].run \in Runs
         /\ None \notin Runs \cup Turns \cup Calls /\ Turns \cap Calls = {}
         /\ DOMAIN session = Sessions
         /\ \A s \in Sessions : session[s] \in {"none", "creating", "live", "lost", "disposed"}
BY LocalRunsAssumption
DEF HandInv, Inv, TypeOK, UsedTurnsHaveRuns, NoCall, CallType, Sessions

\* Turns come closer to their end and calls move on: sessions stay.
LEMMA HandStill ==
  ASSUME HandInv, UNCHANGED <<session, handle, runOf, listed, promise, closing, inHand>>,
         down' # "no" => down # "no",
         \A t \in Turns : /\ pc'[t] \in Working => pc[t] \in Working
                          /\ pc'[t] \in Creating => pc[t] \in Creating
                          /\ pc'[t] = "unused" => pc[t] = "unused",
         \A c \in Calls : call'[c].at = "booting" => call[c].at = "booting"
  PROVE  HandFits'
<1>1. \A r : Reached(r) => Reached(r)'
  BY DEF Reached
<1>2. \A t \in Turns : TurnFits(t)'
  BY <1>1 DEF HandInv, HandFits, TurnFits, WorkingOn
<1>3. \A r \in Runs : HandleFits(r)'
  BY DEF HandInv, HandFits, HandleFits, Made
<1>4. \A c \in Calls : CallFits(c)'
  BY DEF HandInv, HandFits, CallFits, Made
<1>5. \A s \in inHand' : SessionFits(s)'
  BY <1>1 DEF HandInv, HandFits, SessionFits, Made
<1>6. QED BY <1>2, <1>3, <1>4, <1>5 DEF HandFits

\* Closes begin or move on, and dispose of the sessions of some runs that no
\* turn in hand works for.
LEMMA ClosesMove ==
  ASSUME HandInv, NEW rs \in SUBSET Runs, Dispose(rs), inHand' \subseteq inHand,
         UNCHANGED <<pc, runOf, handle, promise, listed, call>>,
         \A k \in Closers, r \in Runs :
           /\ closing'[k][r].at = "disposing" => closing[k][r].at = "disposing" \/ r \in rs
           /\ closing'[k][r].at = "awaiting" =>
                closing'[k][r] = closing[k][r] \/ closing'[k][r].on = promise[r],
         \A r \in listed :
           down' # "no" /\ closing'["shutdown"][r].at = "idle" =>
             down # "no" /\ closing["shutdown"][r].at = "idle",
         \A r \in rs : WorkingOn(r) \cap inHand' = {}
  PROVE  HandFits'
<1>1. \A s \in Sessions :
        \/ session'[s] = session[s] /\ \A r \in rs : handle[r] # s
        \/ session'[s] = "disposed" /\ \E r \in rs : handle[r] = s
  BY HandTypes DEF Dispose
<1>2. \A r \in Runs \ rs : Reached(r) => Reached(r)'
  BY DEF Reached, Closers
<1>3. \A s \in Sessions : session[s] = "none" \/ session[s] = "creating" =>
        session'[s] = session[s] \/ \E r \in rs : handle[r] = s
  BY <1>1
<1>4. \A s \in Sessions : Made(s) => Made(s)'
  BY <1>1 DEF Made
<1>5. \A t \in Turns : TurnFits(t)'
  <2> SUFFICES ASSUME NEW t \in Turns PROVE TurnFits(t)'
    OBVIOUS
  <2>0. TurnFits(t) /\ t \in Sessions
    BY DEF HandInv, HandFits, Sessions
  <2>1. ASSUME pc[t] = "unused" PROVE t \notin inHand' /\ session'[t] = "none"
    <3>1. \A r \in rs : handle[r] # t
      BY <2>1 DEF HandInv, HandFits, HandleFits
    <3>2. QED BY <1>1, <2>0, <2>1, <3>1 DEF TurnFits
  <2>2. ASSUME t \in inHand', pc[t] \in Working
        PROVE  /\ Reached(runOf[t])' /\ promise[runOf[t]] = t
               /\ \A u \in WorkingOn(runOf[t])' : u = t
               /\ \A k \in Closers :
                    closing'[k][runOf[t]].at = "awaiting" => closing'[k][runOf[t]].on = t
    <3>1. /\ Reached(runOf[t]) /\ promise[runOf[t]] = t
          /\ \A u \in WorkingOn(runOf[t]) : u = t
          /\ \A k \in Closers :
               closing[k][runOf[t]].at = "awaiting" => closing[k][runOf[t]].on = t
      BY <2>0, <2>2 DEF TurnFits
    <3>2. runOf[t] \in Runs /\ t \in WorkingOn(runOf[t])
      BY <2>2, HandTypes DEF WorkingOn, Working
    <3>3. runOf[t] \notin rs
      BY <2>2, <3>2
    <3>4. Reached(runOf[t])'
      BY <1>2, <3>1, <3>2, <3>3
    <3>5. \A u \in WorkingOn(runOf[t])' : u = t
      BY <3>1 DEF WorkingOn
    <3>6. QED BY <3>1, <3>2, <3>4, <3>5
  <2>3. QED BY <2>1, <2>2 DEF TurnFits
<1>6. \A r \in Runs : HandleFits(r)'
  <2>1. \A r \in Runs : handle[r] \in Calls => handle[r] \in Sessions
    BY DEF Sessions
  <2>2. QED BY <1>4, <2>1 DEF HandInv, HandFits, HandleFits
<1>7. \A c \in Calls : CallFits(c)'
  <2> SUFFICES ASSUME NEW c \in Calls PROVE CallFits(c)'
    OBVIOUS
  <2>1. CallFits(c) /\ c \in Sessions
    BY DEF HandInv, HandFits, Sessions
  <2>2. session[c] = "creating" => \A r \in rs : handle[r] # c
    BY DEF HandInv, HandFits, HandleFits, Made
  <2>3. QED BY <1>1, <1>4, <2>1, <2>2 DEF CallFits
<1>8. \A s \in inHand' : SessionFits(s)'
  <2> SUFFICES ASSUME NEW s \in inHand' PROVE SessionFits(s)'
    OBVIOUS
  <2>1. SessionFits(s) /\ s \in Sessions
    BY HandTypes DEF HandInv, HandFits
  <2>2. session'[s] = "live" => \E r \in Runs : handle'[r] = s /\ Reached(r)'
    <3>1. CASE session'[s] # session[s]
      BY <1>1, <2>1, <3>1
    <3>2. CASE session'[s] = "live" /\ session[s] = "live"
      <4>1. PICK r \in Runs : handle[r] = s /\ Reached(r)
        BY <2>1, <3>2 DEF SessionFits
      <4>2. r \notin rs
        BY <1>1, <2>1, <3>2, <4>1
      <4>3. QED BY <1>2, <4>1, <4>2
    <3>3. QED BY <3>1, <3>2
  <2>3. session'[s] = "lost" => \E c \in Calls : Made(c)'
    <3>1. session'[s] = "lost" => session[s] = "lost"
      BY <1>1, <2>1
    <3>2. Calls \subseteq Sessions
      BY DEF Sessions
    <3>3. QED BY <1>4, <2>1, <3>1, <3>2 DEF SessionFits
  <2>4. QED BY <2>2, <2>3 DEF SessionFits
<1>9. QED BY <1>5, <1>6, <1>7, <1>8 DEF HandFits

\* A step of close() as far as the disposal: it has waited for the turn.
LEMMA CloseMoves ==
  ASSUME HandInv, NEW k \in Closers, NEW r \in Runs,
         CloseCancelled(k, r) \/ CloseDisposes(k, r)
  PROVE  HandFits'
<1>1. UNCHANGED <<pc, runOf, handle, promise, listed, call, down, inHand>>
  BY DEF CloseCancelled, CloseDisposes, runVars, turnVars, history
<1>2. \A j \in Closers, q \in Runs : j # k \/ q # r => closing'[j][q] = closing[j][q]
  BY DEF CloseCancelled, CloseDisposes, HandInv, Inv, TypeOK
<1>3. CASE CloseCancelled(k, r)
  <2>1. closing'[k][r] = [at |-> "awaiting", on |-> promise[r]] /\ session' = session
    BY <1>3 DEF CloseCancelled, HandInv, Inv, TypeOK, turnVars
  <2>2. closing'[k][r].at = "awaiting" /\ closing'[k][r].on = promise[r]
    BY <2>1
  <2> DEFINE rs == {}
  <2>3. Dispose(rs) /\ rs \in SUBSET Runs /\ rs = {}
    BY <2>1 DEF Dispose, HandInv, Inv, TypeOK
  <2> HIDE DEF rs
  <2>4. /\ \A j \in Closers, q \in Runs :
             /\ closing'[j][q].at = "disposing" => closing[j][q].at = "disposing" \/ q \in rs
             /\ closing'[j][q].at = "awaiting" =>
                  closing'[j][q] = closing[j][q] \/ closing'[j][q].on = promise[q]
        /\ \A q \in listed : closing'["shutdown"][q].at = "idle" => closing["shutdown"][q].at = "idle"
    BY <1>2, <2>2, HandTypes DEF Closers
  <2>5. QED BY <1>1, <2>3, <2>4, ClosesMove
<1>4. CASE CloseDisposes(k, r)
  <2>1. closing'[k][r] = [at |-> "disposing", on |-> None]
    BY <1>4 DEF CloseDisposes, HandInv, Inv, TypeOK
  <2>2. closing'[k][r].at = "disposing"
    BY <2>1
  <2> DEFINE rs == {r}
  <2>3. /\ Dispose(rs) /\ rs \in SUBSET Runs /\ \A q : q \in rs <=> q = r
        /\ closing[k][r].at = "awaiting" /\ pc[closing[k][r].on] = "done"
    BY <1>4 DEF CloseDisposes
  <2> HIDE DEF rs
  <2>4. WorkingOn(r) \cap inHand = {}
    <3> SUFFICES ASSUME NEW t \in WorkingOn(r), t \in inHand PROVE FALSE
      OBVIOUS
    <3>1. t \in Turns /\ runOf[t] = r /\ pc[t] \in Working
      BY DEF WorkingOn
    <3>2. closing[k][r].on = t
      BY <2>3, <3>1 DEF HandInv, HandFits, TurnFits
    <3>3. QED BY <2>3, <3>1, <3>2 DEF Working
  <2>5. /\ \A j \in Closers, q \in Runs :
             /\ closing'[j][q].at = "disposing" => closing[j][q].at = "disposing" \/ q \in rs
             /\ closing'[j][q].at = "awaiting" =>
                  closing'[j][q] = closing[j][q] \/ closing'[j][q].on = promise[q]
        /\ \A q \in listed : closing'["shutdown"][q].at = "idle" => closing["shutdown"][q].at = "idle"
    BY <1>2, <2>2, <2>3, HandTypes DEF Closers
  <2>6. \A q \in rs : WorkingOn(q) \cap inHand' = {}
    BY <1>1, <2>3, <2>4
  <2>7. QED BY <1>1, <2>3, <2>5, <2>6, ClosesMove
<1>5. QED BY <1>3, <1>4

\* A turn begins: alone and in hand, or out of closeAllChildRuns()'s reach with
\* the turns that were at work.
LEMMA LaunchHands ==
  ASSUME HandInv, NEW r \in Runs, NEW t \in Turns, Launch(r, t),
         listed' = listed \cup {r}, UNCHANGED <<handle, call, closing, down>>
  PROVE  HandFits'
<1>1. /\ pc[t] = "unused" /\ pc'[t] \in {"creating", "started"}
      /\ \A u \in Turns \ {t} : pc'[u] = pc[u]
      /\ \A u \in Turns : runOf'[u] = IF u = t THEN r ELSE runOf[u]
      /\ promise'[r] = t /\ \A q \in Runs \ {r} : promise'[q] = promise[q]
      /\ pc'[t] = "creating" => handle[r] = None
  BY LaunchFresh DEF HandInv, Inv, TypeOK, Launch, Boot
<1>2. t \notin inHand /\ session[t] = "none" /\ \A q \in Runs : handle[q] # t
  BY <1>1 DEF HandInv, HandFits, TurnFits, HandleFits
<1>3. /\ \A s \in Sessions \ {t} : session'[s] = session[s]
      /\ session'[t] \in {"none", "creating"}
  BY <1>2 DEF HandInv, Inv, TypeOK, Launch, Boot, Sessions
<1>4. t \notin WorkingOn(r) /\ \A u \in WorkingOn(r) : u \in Turns /\ pc[u] \in Working
  BY <1>1 DEF WorkingOn, Working
<1>5. /\ \A s \in inHand' : s \in inHand \cup {t} /\ s \notin WorkingOn(r)
      /\ t \in inHand' => ~BeingClosed(r) /\ WorkingOn(r) = {}
  BY <1>2, <1>4 DEF Launch
<1>6. /\ \A q : Reached(q) => Reached(q)'
      /\ t \in inHand' => Reached(r)' /\ \A k \in Closers : closing[k][r].at = "idle"
  BY <1>5 DEF Reached, BeingClosed
<1>7. \A u \in Turns : TurnFits(u)'
  <2> SUFFICES ASSUME NEW u \in Turns PROVE TurnFits(u)'
    OBVIOUS
  <2>1. CASE u = t
    <3>1. t \in inHand' => \A v \in WorkingOn(r)' : v = t
      BY <1>1, <1>5 DEF WorkingOn
    <3>2. QED BY <1>1, <1>6, <2>1, <3>1 DEF TurnFits
  <2>2. CASE u # t
    <3>1. TurnFits(u) /\ u \in Sessions
      BY DEF HandInv, HandFits, Sessions
    <3>2. ASSUME u \in inHand', pc'[u] \in Working
          PROVE  /\ Reached(runOf[u])' /\ promise'[runOf[u]] = u
                 /\ \A v \in WorkingOn(runOf[u])' : v = u
                 /\ \A k \in Closers :
                      closing'[k][runOf[u]].at = "awaiting" => closing'[k][runOf[u]].on = u
      <4>1. u \in inHand /\ pc[u] \in Working /\ runOf[u] \in Runs \ {r}
        BY <1>1, <1>5, <2>2, <3>2, HandTypes DEF WorkingOn, Working
      <4>2. /\ Reached(runOf[u]) /\ promise[runOf[u]] = u
            /\ \A v \in WorkingOn(runOf[u]) : v = u
            /\ \A k \in Closers :
                 closing[k][runOf[u]].at = "awaiting" => closing[k][runOf[u]].on = u
        BY <3>1, <4>1 DEF TurnFits
      <4>3. \A v \in WorkingOn(runOf[u])' : v \in WorkingOn(runOf[u])
        BY <1>1, <2>2, <4>1 DEF WorkingOn
      <4>4. QED BY <1>1, <1>6, <2>2, <4>1, <4>2, <4>3
    <3>3. QED BY <1>1, <1>3, <1>5, <2>2, <3>1, <3>2 DEF TurnFits
  <2>3. QED BY <2>1, <2>2
<1>8. \A q \in Runs : HandleFits(q)'
  <2> SUFFICES ASSUME NEW q \in Runs PROVE HandleFits(q)'
    OBVIOUS
  <2>1. HandleFits(q) /\ handle'[q] = handle[q] /\ handle[q] # t
    BY <1>2 DEF HandInv, HandFits
  <2>2. ASSUME handle[q] \in Turns, handle[q] \in inHand', NEW u \in Turns, runOf'[u] = q
        PROVE  pc'[u] \notin Creating
    <3>1. CASE u = t
      BY <1>1, <2>2, <3>1, HandTypes DEF Creating
    <3>2. CASE u # t
      BY <1>1, <1>5, <2>1, <2>2, <3>2 DEF HandleFits
    <3>3. QED BY <3>1, <3>2
  <2>3. handle[q] \in Calls => Made(handle[q])'
    BY <1>3, <2>1 DEF HandleFits, Made, Sessions
  <2>4. QED BY <1>1, <2>1, <2>2, <2>3 DEF HandleFits
<1>9. \A c \in Calls : CallFits(c)' /\ (Made(c) => Made(c)')
  <2> SUFFICES ASSUME NEW c \in Calls PROVE CallFits(c)' /\ (Made(c) => Made(c)')
    OBVIOUS
  <2>1. CallFits(c) /\ c # t /\ c \in Sessions
    BY HandTypes DEF HandInv, HandFits, Sessions
  <2>2. QED BY <1>3, <1>5, <2>1 DEF CallFits, Made
<1>10. \A s \in inHand' : SessionFits(s)'
  <2> SUFFICES ASSUME NEW s \in inHand' PROVE SessionFits(s)'
    OBVIOUS
  <2>1. CASE s = t
    BY <1>3, <2>1 DEF SessionFits
  <2>2. CASE s # t
    <3>1. s \in inHand /\ s \in Sessions \ {t}
      BY <1>5, <2>2, HandTypes
    <3>2. SessionFits(s) /\ session'[s] = session[s]
      BY <1>3, <3>1 DEF HandInv, HandFits
    <3>3. QED BY <1>6, <1>9, <3>2 DEF SessionFits
  <2>3. QED BY <2>1, <2>2
<1>11. QED BY <1>7, <1>8, <1>9, <1>10 DEF HandFits

\* A session that was being created fails, or one begins to be, for a message.
LEMMA CallTurns ==
  ASSUME HandInv, NEW c \in Calls, ~Made(c), NEW v \in {"none", "creating"},
         session' = [session EXCEPT ![c] = v],
         call'[c].at = "booting" => v = "creating",
         \A d \in Calls \ {c} : call'[d] = call[d],
         UNCHANGED <<pc, runOf, handle, promise, listed, closing, down, inHand>>
  PROVE  HandFits'
<1>1. /\ \A s \in Sessions \ {c} : session'[s] = session[s]
      /\ session'[c] = v /\ c \in Sessions /\ c \notin Turns
  BY HandTypes DEF Sessions
<1>2. c \notin inHand /\ \A r \in Runs : handle[r] # c
  BY DEF HandInv, HandFits, CallFits, HandleFits
<1>3. \A s \in Sessions : Made(s) => Made(s)'
  BY <1>1 DEF Made
<1>4. \A q : Reached(q) => Reached(q)'
  BY DEF Reached
<1>5. \A t \in Turns : TurnFits(t)'
  <2>1. \A t \in Turns : session'[t] = session[t]
    BY <1>1 DEF Sessions
  <2>2. QED BY <1>4, <2>1 DEF HandInv, HandFits, TurnFits, WorkingOn
<1>6. \A r \in Runs : HandleFits(r)'
  <2>1. \A r \in Runs : handle[r] \in Calls => handle[r] \in Sessions
    BY DEF Sessions
  <2>2. QED BY <1>3, <2>1 DEF HandInv, HandFits, HandleFits
<1>7. \A d \in Calls : CallFits(d)'
  <2>1. \A d \in Calls : d \in Sessions
    BY DEF Sessions
  <2>2. QED BY <1>1, <1>2, <1>3, <2>1 DEF HandInv, HandFits, CallFits
<1>8. \A s \in inHand' : SessionFits(s)'
  <2> SUFFICES ASSUME NEW s \in inHand PROVE SessionFits(s)'
    OBVIOUS
  <2>1. SessionFits(s) /\ s \in Sessions /\ session'[s] = session[s]
    BY <1>1, <1>2, HandTypes DEF HandInv, HandFits
  <2>2. Calls \subseteq Sessions
    BY DEF Sessions
  <2>3. QED BY <1>3, <1>4, <2>1, <2>2 DEF SessionFits
<1>9. QED BY <1>5, <1>6, <1>7, <1>8 DEF HandFits

\* The same for a turn: no runner holds a session of its own making, and it
\* makes another only for a runner that holds none.
LEMMA TurnTurns ==
  ASSUME HandInv, NEW t \in Turns, pc[t] \in Working, NEW v \in {"none", "creating"},
         NEW p, pc' = [pc EXCEPT ![t] = p], p # "unused",
         p \in Creating => handle[runOf[t]] = None,
         session' = [session EXCEPT ![t] = v], \A r \in Runs : handle[r] # t,
         UNCHANGED <<runOf, handle, promise, listed, call, closing, down, inHand>>
  PROVE  HandFits'
<1>1. /\ \A s \in Sessions \ {t} : session'[s] = session[s]
      /\ session'[t] = v /\ t \in Sessions /\ t \notin Calls
      /\ \A u \in Turns \ {t} : pc'[u] = pc[u]
      /\ pc'[t] = p
  BY HandTypes DEF Sessions, HandInv, Inv, TypeOK
<1>2. \A c \in Calls : session'[c] = session[c]
  BY <1>1 DEF Sessions
<1>3. \A q : Reached(q) => Reached(q)'
  BY DEF Reached
<1>4. \A u \in Turns : TurnFits(u)'
  <2> SUFFICES ASSUME NEW u \in Turns PROVE TurnFits(u)'
    OBVIOUS
  <2>1. TurnFits(u) /\ u \in Sessions
    BY DEF HandInv, HandFits, Sessions
  <2>2. \A w : w \in WorkingOn(runOf[u])' => w \in WorkingOn(runOf[u])
    BY <1>1 DEF WorkingOn
  <2>3. pc'[u] \in Working => pc[u] \in Working
    BY <1>1
  <2>4. pc'[u] = "unused" => u # t /\ pc[u] = "unused"
    BY <1>1
  <2>5. QED BY <1>1, <1>3, <2>1, <2>2, <2>3, <2>4 DEF TurnFits
<1>5. \A r \in Runs : HandleFits(r)'
  <2> SUFFICES ASSUME NEW r \in Runs PROVE HandleFits(r)'
    OBVIOUS
  <2>1. HandleFits(r) /\ handle[r] # t
    BY DEF HandInv, HandFits
  <2>2. handle[r] \in Turns => \A u \in Turns : runOf[u] = r /\ pc'[u] \in Creating => pc[u] \in Creating
    BY <1>1, HandTypes
  <2>3. QED BY <1>1, <1>2, <2>1, <2>2 DEF HandleFits, Made
<1>6. \A c \in Calls : CallFits(c)'
  BY <1>2 DEF HandInv, HandFits, CallFits, Made
<1>7. \A s \in inHand' : SessionFits(s)'
  <2> SUFFICES ASSUME NEW s \in inHand PROVE SessionFits(s)'
    OBVIOUS
  <2>1. SessionFits(s) /\ s \in Sessions
    BY HandTypes DEF HandInv, HandFits
  <2>2. session'[s] = session[s] \/ session'[s] \in {"none", "creating"}
    BY <1>1, <2>1
  <2>3. QED BY <1>2, <1>3, <2>1, <2>2 DEF SessionFits, Made
<1>8. QED BY <1>4, <1>5, <1>6, <1>7 DEF HandFits

\* What a runner's new session does to the sessions there are.
LEMMA HoldMoves ==
  ASSUME HandInv, NEW r \in Runs, NEW s \in Sessions, Hold(r, s)
  PROVE  /\ handle'[r] = s /\ \A q \in Runs \ {r} : handle'[q] = handle[q]
         /\ session'[s] = "live"
         /\ \A x \in Sessions \ {s} :
              \/ session'[x] = session[x] /\ (session[x] = "live" => x # handle[r])
              \/ x = handle[r] /\ session[x] = "live" /\ session'[x] = "lost"
         /\ \A x \in Sessions : Made(x) => Made(x)'
<1>1. /\ handle' = [handle EXCEPT ![r] = s]
      /\ session' = [x \in Sessions |->
                      IF x = s THEN "live"
                      ELSE IF x = handle[r] /\ session[x] = "live" THEN "lost"
                      ELSE session[x]]
  BY HandTypes DEF Hold
<1>2. handle \in [Runs -> Turns \cup Calls \cup {None}]
  BY DEF HandInv, Inv, TypeOK
<1>3. QED BY <1>1, <1>2 DEF Made

\* A turn has its session: it replaces none that is in hand, save one that a
\* message made.
LEMMA CreatedHands ==
  ASSUME HandInv, NEW t \in Turns, SessionCreated(t)
  PROVE  HandFits'
<1>1. PICK r \in Runs : r = runOf[t]
  BY HandTypes DEF SessionCreated, Creating
<1>2. /\ pc[t] \in Creating /\ pc'[t] \in {"started", "prompting"}
      /\ \A u \in Turns \ {t} : pc'[u] = pc[u]
      /\ UNCHANGED <<runOf, promise, listed, call, closing, down, inHand>>
  BY DEF SessionCreated, HandInv, Inv, TypeOK, callVars, history
<1>3. t \in Sessions /\ t \notin Calls /\ Hold(r, t)
  BY <1>1, HandTypes DEF SessionCreated, Sessions
<1>4. /\ handle'[r] = t /\ \A q \in Runs \ {r} : handle'[q] = handle[q]
      /\ session'[t] = "live"
      /\ \A x \in Sessions \ {t} :
           \/ session'[x] = session[x] /\ (session[x] = "live" => x # handle[r])
           \/ x = handle[r] /\ session[x] = "live" /\ session'[x] = "lost"
      /\ \A x \in Sessions : Made(x) => Made(x)'
  BY <1>3, HoldMoves
<1>5. /\ \A q : Reached(q) => Reached(q)'
      /\ \A q, u : u \in WorkingOn(q)' => u \in WorkingOn(q)
      /\ t \in WorkingOn(r)
  BY <1>1, <1>2 DEF Reached, WorkingOn, Creating, Working
<1>6. t \in inHand => Reached(r) /\ \A u \in Turns : runOf[u] = r /\ u # t => pc[u] \notin Creating
  BY <1>1, <1>2 DEF HandInv, HandFits, TurnFits, WorkingOn, Creating, Working
<1>7. \A u \in Turns : TurnFits(u)'
  <2> SUFFICES ASSUME NEW u \in Turns PROVE TurnFits(u)'
    OBVIOUS
  <2>1. TurnFits(u) /\ u \in Sessions
    BY DEF HandInv, HandFits, Sessions
  <2>2. /\ pc'[u] = "unused" => u # t /\ pc[u] = "unused"
        /\ pc'[u] \in Working => pc[u] \in Working
    BY <1>2 DEF Creating, Working
  <2>3. QED BY <1>2, <1>4, <1>5, <2>1, <2>2 DEF TurnFits
<1>8. \A q \in Runs : HandleFits(q)'
  <2> SUFFICES ASSUME NEW q \in Runs PROVE HandleFits(q)'
    OBVIOUS
  <2>1. CASE q = r
    BY <1>1, <1>2, <1>3, <1>4, <1>6, <2>1 DEF HandleFits, Creating
  <2>2. CASE q # r
    <3>1. HandleFits(q) /\ handle'[q] = handle[q]
      BY <1>4, <2>2 DEF HandInv, HandFits
    <3>2. \A u \in Turns : runOf[u] = q => pc'[u] = pc[u]
      BY <1>1, <1>2, <2>2
    <3>3. handle[q] \in Calls => handle[q] \in Sessions
      BY DEF Sessions
    <3>4. QED BY <1>2, <1>4, <3>1, <3>2, <3>3 DEF HandleFits
  <2>3. QED BY <2>1, <2>2
<1>9. \A c \in Calls : CallFits(c)'
  <2> SUFFICES ASSUME NEW c \in Calls PROVE CallFits(c)'
    OBVIOUS
  <2>1. CallFits(c) /\ c \in Sessions \ {t}
    BY <1>3 DEF HandInv, HandFits, Sessions
  <2>2. QED BY <1>2, <1>4, <2>1 DEF CallFits
<1>10. \A x \in inHand' : SessionFits(x)'
  <2> SUFFICES ASSUME NEW x \in inHand PROVE SessionFits(x)'
    BY <1>2
  <2>0. SessionFits(x) /\ x \in Sessions /\ Calls \subseteq Sessions
    BY HandTypes DEF HandInv, HandFits, Sessions
  <2>1. CASE x = t
    BY <1>4, <1>5, <1>6, <2>1 DEF SessionFits
  <2>2. CASE x # t /\ session'[x] = session[x]
    <3>1. session[x] = "live" => x # handle[r]
      BY <1>4, <2>0, <2>2
    <3>2. QED BY <1>4, <1>5, <2>0, <2>2, <3>1 DEF SessionFits
  <2>3. CASE x # t /\ x = handle[r] /\ session[x] = "live" /\ session'[x] = "lost"
    <3>1. x \notin Turns
      BY <1>1, <1>2, <2>3 DEF HandInv, HandFits, HandleFits
    <3>2. x \in Calls /\ Made(x)
      BY <2>0, <2>3, <3>1 DEF Sessions, Made
    <3>3. QED BY <1>4, <2>0, <2>3, <3>2 DEF SessionFits
  <2>4. QED BY <1>4, <2>0, <2>1, <2>2, <2>3
<1>11. QED BY <1>7, <1>8, <1>9, <1>10 DEF HandFits

\* So has a message that met a child without one: it may replace a turn's.
LEMMA BootsHands ==
  ASSUME HandInv, NEW c \in Calls, SteerBoots(c)
  PROVE  HandFits'
<1>1. PICK r \in Runs : r = call[c].run
  BY HandTypes DEF SteerBoots
<1>2. /\ call[c].at = "booting" /\ call'[c].at = "idle"
      /\ \A d \in Calls \ {c} : call'[d] = call[d]
      /\ UNCHANGED <<pc, runOf, promise, listed, closing, down>>
  BY DEF SteerBoots, HandInv, Inv, TypeOK, NoCall
<1>3. session[c] = "creating" /\ ~Made(c) /\ c \notin inHand
  BY <1>2 DEF HandInv, HandFits, CallFits, Made
<1>4. CASE session' = [session EXCEPT ![c] = "none"] /\ UNCHANGED <<handle, inHand>>
  BY <1>2, <1>3, <1>4, CallTurns
<1>5. CASE Hold(r, c) /\ inHand' = (IF r \notin listed \/ BeingClosed(r) THEN inHand
                                   ELSE inHand \cup {c})
  <2>1. c \in Sessions /\ c \notin Turns
    BY HandTypes DEF Sessions
  <2>2. /\ handle'[r] = c /\ \A q \in Runs \ {r} : handle'[q] = handle[q]
        /\ session'[c] = "live"
        /\ \A x \in Sessions \ {c} :
             \/ session'[x] = session[x] /\ (session[x] = "live" => x # handle[r])
             \/ x = handle[r] /\ session[x] = "live" /\ session'[x] = "lost"
        /\ \A x \in Sessions : Made(x) => Made(x)'
    BY <1>5, <2>1, HoldMoves
  <2>3. /\ \A q : Reached(q) => Reached(q)'
        /\ \A q, u : u \in WorkingOn(q)' => u \in WorkingOn(q)
    BY <1>2 DEF Reached, WorkingOn
  <2>4. /\ \A x : x \in inHand' => x \in inHand \/ x = c
        /\ c \in inHand' => Reached(r)
    BY <1>3, <1>5 DEF Reached, BeingClosed
  <2>5. \A t \in Turns : TurnFits(t)'
    <3> SUFFICES ASSUME NEW t \in Turns PROVE TurnFits(t)'
      OBVIOUS
    <3>1. TurnFits(t) /\ t \in Sessions /\ t # c
      BY <2>1 DEF HandInv, HandFits, Sessions
    <3>2. QED BY <1>2, <2>2, <2>3, <2>4, <3>1 DEF TurnFits
  <2>6. \A q \in Runs : HandleFits(q)'
    <3> SUFFICES ASSUME NEW q \in Runs PROVE HandleFits(q)'
      OBVIOUS
    <3>1. CASE q = r
      BY <2>1, <2>2, <3>1 DEF HandleFits, Made
    <3>2. CASE q # r
      <4>1. HandleFits(q) /\ handle'[q] = handle[q] /\ (handle[q] \in Calls => handle[q] \in Sessions)
        BY <2>2, <3>2 DEF HandInv, HandFits, Sessions
      <4>2. QED BY <1>2, <2>1, <2>2, <2>4, <4>1 DEF HandleFits
    <3>3. QED BY <3>1, <3>2
  <2>7. \A d \in Calls : CallFits(d)'
    <3> SUFFICES ASSUME NEW d \in Calls PROVE CallFits(d)'
      OBVIOUS
    <3>1. CallFits(d) /\ d \in Sessions
      BY DEF HandInv, HandFits, Sessions
    <3>2. QED BY <1>2, <2>2, <2>4, <3>1 DEF CallFits, Made
  <2>8. \A x \in inHand' : SessionFits(x)'
    <3> SUFFICES ASSUME NEW x \in inHand' PROVE SessionFits(x)'
      OBVIOUS
    <3>1. CASE x = c
      BY <2>2, <2>3, <2>4, <3>1 DEF SessionFits
    <3>2. CASE x # c
      <4>1. SessionFits(x) /\ x \in Sessions \ {c} /\ Calls \subseteq Sessions
        BY <2>4, <3>2, HandTypes DEF HandInv, HandFits, Sessions
      <4>2. Made(c)'
        BY <2>2 DEF Made
      <4>3. QED BY <2>2, <2>3, <4>1, <4>2 DEF SessionFits
    <3>3. QED BY <3>1, <3>2
  <2>9. QED BY <2>5, <2>6, <2>7, <2>8 DEF HandFits
<1>6. QED BY <1>1, <1>4, <1>5 DEF SteerBoots

\* The run leaves the map, its session disposed of.
LEMMA ReturnHands ==
  ASSUME HandInv, NEW k \in Closers, NEW r \in Runs, CloseReturns(k, r)
  PROVE  HandFits'
<1>1. /\ closing[k][r].at = "disposing" /\ handle'[r] = None /\ listed' = listed \ {r}
      /\ \A q \in Runs \ {r} : handle'[q] = handle[q]
      /\ \A j \in Closers, q \in Runs \ {r} : closing'[j][q] = closing[j][q]
      /\ UNCHANGED <<pc, runOf, session, promise, call, down, inHand>>
  BY DEF CloseReturns, HandInv, Inv, TypeOK, turnVars, history
<1>2. ~Reached(r) /\ \A q \in Runs : Reached(q) => Reached(q)'
  BY <1>1 DEF Reached, Closers
<1>3. \A t \in Turns : TurnFits(t)'
  <2> SUFFICES ASSUME NEW t \in Turns PROVE TurnFits(t)'
    OBVIOUS
  <2>1. TurnFits(t)
    BY DEF HandInv, HandFits
  <2>2. t \in inHand /\ pc[t] \in Working => runOf[t] \in Runs \ {r}
    BY <1>2, <2>1, HandTypes DEF TurnFits, Working
  <2>3. WorkingOn(runOf[t])' = WorkingOn(runOf[t])
    BY <1>1 DEF WorkingOn
  <2>4. QED BY <1>1, <1>2, <2>1, <2>2, <2>3 DEF TurnFits
<1>4. \A q \in Runs : HandleFits(q)'
  <2> SUFFICES ASSUME NEW q \in Runs PROVE HandleFits(q)'
    OBVIOUS
  <2>1. CASE q = r
    BY <1>1, <2>1, HandTypes DEF HandleFits
  <2>2. CASE q # r
    BY <1>1, <2>2 DEF HandInv, HandFits, HandleFits, Made
  <2>3. QED BY <2>1, <2>2
<1>5. \A c \in Calls : CallFits(c)'
  BY <1>1 DEF HandInv, HandFits, CallFits, Made
<1>6. \A s \in inHand' : SessionFits(s)'
  <2> SUFFICES ASSUME NEW s \in inHand PROVE SessionFits(s)'
    BY <1>1
  <2>1. SessionFits(s)
    BY DEF HandInv, HandFits
  <2>2. QED BY <1>1, <1>2, <2>1 DEF SessionFits, Made
<1>7. QED BY <1>3, <1>4, <1>5, <1>6 DEF HandFits

\* A close that begins leaves a turn in hand only if it is going to await it.
LEMMA CloseHands ==
  ASSUME HandInv, NEW r \in Runs, Close(r)
  PROVE  HandFits'
<1>1. /\ UNCHANGED <<pc, runOf, handle, promise, listed, call, down>>
      /\ \A q \in Runs : closing'["shutdown"][q] = closing["shutdown"][q]
      /\ \A q \in Runs \ {r} : closing'["tool"][q] = closing["tool"][q]
      /\ closing'["tool"][r] = Closing(r)
  BY DEF Close, HandInv, Inv, TypeOK, Closers
<1>2. /\ inHand' \subseteq inHand
      /\ status[r] # "running" => WorkingOn(r) \cap inHand' = {}
  BY DEF Close, Forsake
<1>3. CASE status[r] = "running" /\ session' = session
  <2> DEFINE rs == {}
  <2>1. Dispose(rs) /\ rs \in SUBSET Runs /\ \A q \in rs : WorkingOn(q) \cap inHand' = {}
    BY <1>3 DEF Dispose, HandInv, Inv, TypeOK
  <2> HIDE DEF rs
  <2>2. closing'["tool"][r].at = "cancelling"
    BY <1>1, <1>3 DEF Closing
  <2>3. \A k \in Closers, q \in Runs :
          /\ closing'[k][q].at = "disposing" => closing[k][q].at = "disposing" \/ q \in rs
          /\ closing'[k][q].at = "awaiting" =>
               closing'[k][q] = closing[k][q] \/ closing'[k][q].on = promise[q]
    BY <1>1, <2>2 DEF Closers
  <2>4. QED BY <1>1, <1>2, <2>1, <2>3, HandTypes, ClosesMove
<1>4. CASE status[r] # "running" /\ Dispose({r})
  <2> DEFINE rs == {r}
  <2>1. Dispose(rs) /\ rs \in SUBSET Runs /\ \A q : q \in rs <=> q = r
    BY <1>4
  <2> HIDE DEF rs
  <2>2. closing'["tool"][r].at = "disposing"
    BY <1>1, <1>4 DEF Closing
  <2>3. \A k \in Closers, q \in Runs :
          /\ closing'[k][q].at = "disposing" => closing[k][q].at = "disposing" \/ q \in rs
          /\ closing'[k][q].at = "awaiting" =>
               closing'[k][q] = closing[k][q] \/ closing'[k][q].on = promise[q]
    BY <1>1, <2>1, <2>2 DEF Closers
  <2>4. \A q \in rs : WorkingOn(q) \cap inHand' = {}
    BY <1>2, <1>4, <2>1
  <2>5. QED BY <1>1, <1>2, <2>1, <2>3, <2>4, HandTypes, ClosesMove
<1>5. QED BY <1>3, <1>4 DEF Close

\* So do the closes of closeAllChildRuns(), which reach every run in the map.
LEMMA ShutdownHands ==
  ASSUME HandInv, Shutdown
  PROVE  HandFits'
<1> DEFINE rs == {r \in listed : status[r] # "running"}
<1>1. /\ UNCHANGED <<pc, runOf, handle, promise, listed, call>>
      /\ down = "no" /\ Dispose(rs) /\ rs \in SUBSET Runs
      /\ \A r : r \in rs <=> r \in listed /\ status[r] # "running"
  <2>1. listed \ {r \in listed : status[r] = "running"} = rs
    OBVIOUS
  <2>2. QED BY <2>1, HandTypes DEF Shutdown
<1> HIDE DEF rs
<1>2. \A r \in Runs : /\ closing'["tool"][r] = closing["tool"][r]
                      /\ closing'["shutdown"][r] = IF r \in listed THEN Closing(r) ELSE NoClose
  BY DEF Shutdown, HandInv, Inv, TypeOK, Closers
<1>3. \A r \in Runs : /\ closing'["shutdown"][r].at # "awaiting"
                      /\ closing'["shutdown"][r].at = "disposing" => r \in rs
                      /\ r \in listed => closing'["shutdown"][r].at # "idle"
  <2>1. /\ NoClose.at = "idle"
        /\ \A r \in Runs : Closing(r).at = IF status[r] = "running" THEN "cancelling" ELSE "disposing"
    BY DEF Closing, NoClose
  <2>2. \A r \in Runs : \/ r \in listed /\ closing'["shutdown"][r].at = Closing(r).at
                        \/ r \notin listed /\ closing'["shutdown"][r].at = "idle"
    BY <1>2, <2>1
  <2>3. QED BY <1>1, <2>1, <2>2
<1>4. /\ inHand' \subseteq inHand
      /\ \A r \in listed : status[r] # "running" => WorkingOn(r) \cap inHand' = {}
  BY DEF Shutdown, Forsake
<1>5. \A k \in Closers, r \in Runs :
        /\ closing'[k][r].at = "disposing" => closing[k][r].at = "disposing" \/ r \in rs
        /\ closing'[k][r].at = "awaiting" =>
             closing'[k][r] = closing[k][r] \/ closing'[k][r].on = promise[r]
  BY <1>2, <1>3 DEF Closers
<1>6. \A r \in rs : WorkingOn(r) \cap inHand' = {}
  BY <1>1, <1>4
<1>7. \A r \in listed : closing'["shutdown"][r].at # "idle"
  BY <1>3, HandTypes
<1>8. QED BY <1>1, <1>4, <1>5, <1>6, <1>7, ClosesMove

\* When closeAllChildRuns() has returned, nothing closes a run for it again.
LEMMA DownStep ==
  ASSUME HandInv, [Next]_vars PROVE DownFits'
<1>1. ASSUME UNCHANGED <<closing, down>> PROVE DownFits'
  BY <1>1 DEF HandInv, DownFits
<1>2. CASE Shutdown
  BY <1>2 DEF Shutdown, DownFits
<1>3. CASE ShutdownReturns
  BY <1>3 DEF ShutdownReturns, DownFits
<1>4. ASSUME NEW r \in Runs, Close(r) PROVE DownFits'
  BY <1>4 DEF Close, SessionIsOn, DownFits
<1>5. ASSUME NEW k \in Closers, NEW r \in Runs, CloseStep(k, r) PROVE DownFits'
  <2>1. down' = down /\ closing[k][r].at # "idle"
    BY <1>5 DEF CloseStep, CloseCancelled, CloseDisposes, CloseReturns
  <2>2. \A q \in Runs : k # "shutdown" => closing'["shutdown"][q] = closing["shutdown"][q]
    BY <1>5 DEF CloseStep, CloseCancelled, CloseDisposes, CloseReturns, HandInv, Inv, TypeOK, Closers
  <2>3. QED BY <2>1, <2>2 DEF HandInv, DownFits
<1>6. ASSUME NEW r \in Runs, StartRun(r) \/ FollowUp(r) \/ Interrupt(r) PROVE DownFits'
  BY <1>1, <1>6 DEF StartRun, FollowUp, Interrupt, callVars
<1>7. ASSUME NEW c \in Calls, NEW r \in Runs, Steer(c, r) \/ Wait(c, r) PROVE DownFits'
  BY <1>1, <1>7 DEF Steer, Wait
<1>8. ASSUME NEW c \in Calls, WaitAborts(c) \/ CallStep(c) PROVE DownFits'
  BY <1>1, <1>8 DEF WaitAborts, CallStep, SteerBoots, WaitReturns
<1>9. ASSUME NEW t \in Turns, TurnStep(t) PROVE DownFits'
  BY <1>1, <1>9 DEF TurnStep, SessionCreated, CreationFails, Prompt, PromptSettles, Persisted, callVars
<1>10. CASE UNCHANGED vars
  BY <1>1, <1>10 DEF vars, callVars
<1>11. QED
  BY <1>2, <1>3, <1>4, <1>5, <1>6, <1>7, <1>8, <1>9, <1>10 DEF Next, HostStep

\* A turn moves on.
LEMMA TurnHands ==
  ASSUME HandInv, NEW t \in Turns, TurnStep(t) PROVE HandFits'
<1>1. CASE SessionCreated(t)
  BY <1>1, CreatedHands
<1>2. CASE CreationFails(t)
  <2>1. /\ pc' = [pc EXCEPT ![t] = "persisting"]
        /\ session' = [session EXCEPT ![t] = "none"]
        /\ UNCHANGED <<runOf, handle, promise, listed, call, closing, down, inHand>>
        /\ pc[t] \in Creating
    BY <1>2 DEF CreationFails, Settle, callVars
  <2>2. pc[t] \in Working /\ "persisting" \notin Creating /\ "persisting" # "unused"
    BY <2>1 DEF Creating, Working
  <2>3. \A r \in Runs : handle[r] # t
    BY <2>1 DEF HandInv, HandFits, HandleFits
  <2>4. QED BY <2>1, <2>2, <2>3, TurnTurns
<1>3. CASE Prompt(t)
  <2>1. /\ pc[t] = "started" /\ pc[t] \in Working
        /\ UNCHANGED <<runOf, handle, promise, listed, call, closing, down, inHand>>
    BY <1>3 DEF Prompt, Working, runVars, callVars, history
  <2>2. CASE handle[runOf[t]] = None /\ pc' = [pc EXCEPT ![t] = "recreating"]
             /\ session' = [session EXCEPT ![t] = "creating"]
    <3>1. \A r \in Runs : handle[r] # t
      BY <2>2, HandTypes DEF HandInv, HandFits, HandleFits
    <3>2. QED BY <2>1, <2>2, <3>1, TurnTurns
  <2>3. CASE pc' = [pc EXCEPT ![t] = "prompting"] /\ session' = session
    <3>1. \A u \in Turns : pc'[u] = IF u = t THEN "prompting" ELSE pc[u]
      BY <2>3 DEF HandInv, Inv, TypeOK
    <3>2. QED BY <2>1, <2>3, <3>1, HandStill DEF Working, Creating
  <2>4. QED BY <1>3, <2>2, <2>3 DEF Prompt, Boot
<1>4. ASSUME UNCHANGED <<session, handle, runOf, listed, promise, callVars, inHand>>,
             NEW p \in {"persisting", "done"}, pc' = [pc EXCEPT ![t] = p]
      PROVE  HandFits'
  <2>1. \A u \in Turns : pc'[u] = IF u = t THEN p ELSE pc[u]
    BY <1>4 DEF HandInv, Inv, TypeOK
  <2>2. QED BY <1>4, <2>1, HandStill DEF callVars, Working, Creating
<1>5. CASE PromptSettles(t)
  BY <1>4, <1>5 DEF PromptSettles, Settle
<1>6. CASE Persisted(t)
  BY <1>4, <1>6 DEF Persisted, runVars, history
<1>7. QED BY <1>1, <1>2, <1>3, <1>5, <1>6 DEF TurnStep

\* Every step keeps what closing relies on.
LEMMA HandStep ==
  ASSUME HandInv, [Next]_vars PROVE HandFits'
<1>1. ASSUME UNCHANGED <<session, pc, handle, runOf, listed, promise, closing, inHand>>,
             down' # "no" => down # "no",
             \A c \in Calls : call'[c].at = "booting" => call[c].at = "booting"
      PROVE  HandFits'
  BY <1>1, HandStill
<1>2. ASSUME NEW r \in Runs, StartRun(r) \/ FollowUp(r) PROVE HandFits'
  <2>1. PICK t \in Turns : Launch(r, t)
    BY <1>2 DEF StartRun, FollowUp
  <2>2. listed' = listed \cup {r} /\ UNCHANGED <<handle, call, closing, down>>
    BY <1>2 DEF StartRun, FollowUp, callVars
  <2>3. QED BY <2>1, <2>2, LaunchHands
<1>3. ASSUME NEW r \in Runs, Interrupt(r) PROVE HandFits'
  BY <1>1, <1>3 DEF Interrupt, turnVars, callVars
<1>4. ASSUME NEW r \in Runs, Close(r) PROVE HandFits'
  BY <1>4, CloseHands
<1>5. CASE Shutdown
  BY <1>5, ShutdownHands
<1>6. ASSUME NEW c \in Calls, NEW r \in Runs, Steer(c, r) PROVE HandFits'
  <2>1. /\ session[c] = "none" /\ session' = [session EXCEPT ![c] = "creating"]
        /\ \A d \in Calls \ {c} : call'[d] = call[d]
        /\ UNCHANGED <<pc, runOf, handle, promise, listed, closing, down, inHand>>
    BY <1>6 DEF Steer, runVars, history, HandInv, Inv, TypeOK
  <2>2. QED BY <2>1, CallTurns DEF Made
<1>7. ASSUME NEW c \in Calls, NEW r \in Runs, Wait(c, r) PROVE HandFits'
  <2>1. \A d \in Calls : call'[d].at = "booting" => call[d].at = "booting"
    BY <1>7 DEF Wait, HandInv, Inv, TypeOK
  <2>2. QED BY <1>1, <1>7, <2>1 DEF Wait, runVars, turnVars, history
<1>8. ASSUME NEW c \in Calls, WaitAborts(c) \/ WaitReturns(c) PROVE HandFits'
  <2>1. \A d \in Calls : call'[d].at = "booting" => call[d].at = "booting"
    <3>1. NoCall.at # "booting"
      BY DEF NoCall
    <3>2. \A d \in Calls : call'[d] = NoCall \/ call'[d] = call[d]
      BY <1>8 DEF WaitAborts, WaitReturns, HandInv, Inv, TypeOK
    <3>3. QED BY <3>1, <3>2
  <2>2. QED BY <1>1, <1>8, <2>1 DEF WaitAborts, WaitReturns, runVars, turnVars, history
<1>9. ASSUME NEW c \in Calls, SteerBoots(c) PROVE HandFits'
  BY <1>9, BootsHands
<1>10. ASSUME NEW k \in Closers, NEW r \in Runs, CloseStep(k, r) PROVE HandFits'
  BY <1>10, CloseMoves, ReturnHands DEF CloseStep
<1>11. CASE ShutdownReturns
  BY <1>1, <1>11 DEF ShutdownReturns, runVars, turnVars, history
<1>12. ASSUME NEW t \in Turns, TurnStep(t) PROVE HandFits'
  BY <1>12, TurnHands
<1>13. CASE UNCHANGED vars
  BY <1>1, <1>13 DEF vars, runVars, turnVars, callVars, history
<1>14. QED
  BY <1>2, <1>3, <1>4, <1>5, <1>6, <1>7, <1>8, <1>9, <1>10, <1>11, <1>12, <1>13
  DEF Next, HostStep, CallStep

\* Whatever was called when, no child that closeAllChildRuns() had in hand works
\* or has a session left when it returns, save a session that a message lost by
\* meeting a child without one: close() of a running run awaits its turn before
\* the session is disposed of, also when the run is stopped before there is one.
THEOREM NoChildIsLeft == Spec => []ShutdownReleasesAll
<1>1. Init => HandInv
  <2> SUFFICES ASSUME Init PROVE HandInv
    OBVIOUS
  <2>1. /\ \A t \in Turns : pc[t] = "unused"
        /\ \A s \in Turns \cup Calls : session[s] = "none"
        /\ \A r \in Runs : handle[r] = None
        /\ \A c \in Calls : call[c].at = "idle"
        /\ inHand = {} /\ down = "no"
    BY DEF Init, NoCall
  <2>2. HandFits
    BY <2>1, LocalRunsAssumption
    DEF HandFits, TurnFits, HandleFits, CallFits, SessionFits, Working
  <2>3. QED BY <2>1, <2>2, InitInv DEF HandInv, DownFits
<1>2. HandInv /\ [Next]_vars => HandInv'
  BY HandStep, DownStep, NextInv DEF HandInv
<1>3. HandInv => ShutdownReleasesAll
  <2> SUFFICES ASSUME HandInv, down = "done", NEW s \in inHand
               PROVE  /\ s \in Turns => pc[s] \notin Working
                      /\ session[s] # "live"
                      /\ session[s] = "lost" => \E c \in Calls : session[c] # "none"
    BY DEF ShutdownReleasesAll
  <2>1. \A r \in Runs : ~Reached(r)
    BY DEF HandInv, DownFits, Reached
  <2>2. s \in Turns => pc[s] \notin Working
    BY <2>1, HandTypes DEF HandInv, HandFits, TurnFits, Working
  <2>3. /\ session[s] # "live"
        /\ session[s] = "lost" => \E c \in Calls : session[c] # "none"
    BY <2>1 DEF HandInv, HandFits, SessionFits, Made
  <2>4. QED BY <2>2, <2>3
<1>4. QED BY <1>1, <1>2, <1>3, PTL DEF Spec
=============================================================================
