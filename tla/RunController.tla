--------------------------- MODULE RunController ---------------------------
(***************************************************************************)
(* The in-process subagent controller (src/src/run-controller.ts).         *)
(*                                                                         *)
(* One Node.js thread runs everything, so an action below is the code from *)
(* one resumption to the next `await`, and TLC interleaves the pending     *)
(* continuations.  A turn is one invocation of executePrompt(): it takes a *)
(* concurrency slot, creates the child session if the run has none,        *)
(* prompts it and settles the run.  A child session is named by the turn   *)
(* that created it.                                                        *)
(*                                                                         *)
(* With SerialHost the host issues one call per run at a time, lets a      *)
(* settled turn quiesce before it calls again, and makes no call once it   *)
(* has asked for shutdown.  Without it, it calls whenever it likes: nothing*)
(* in the controller or in the `agent` tool serialises the calls.          *)
(***************************************************************************)
EXTENDS Integers, FiniteSets, Sequences

CONSTANTS
  Runs,         \* the agent runs that may be started
  Turns,        \* identities for invocations of executePrompt
  Calls,        \* slots for wait() and message() calls in flight
  Concurrency,  \* child runs that may execute at once; excess starts queue
  NoTurn,       \* no turn, no session
  NoRun,        \* a free call slot
  SerialHost    \* does the host serialise its calls on a run?

ASSUME RunControllerAssumption ==
  /\ Concurrency \in Nat \ {0}
  /\ IsFiniteSet(Turns)
  /\ NoTurn \notin Turns
  /\ NoRun \notin Runs
  /\ SerialHost \in BOOLEAN

VARIABLES
  status,   \* run.summary.status; "none" before start()
  handle,   \* run.handle: the session the run holds, or NoTurn
  settled,  \* run.settled: the turn whose promise it is, or NoTurn
  active,   \* slots counted as taken
  queue,    \* turns waiting for a slot, oldest first
  pc,       \* where each turn is in executePrompt
  runOf,    \* the run each turn executes for
  session,  \* the child session each turn created, if any
  call,     \* wait() and message() calls in flight
  closing,  \* close() calls in flight, the agent tool's and shutdown's
  down,     \* shutdown(): "no", "closing" or "done"
  stopped   \* history: turns in flight when their run was stopped

turnVars == <<active, queue, pc, runOf, session>>
callVars == <<call, closing, down>>
vars == <<status, handle, settled, turnVars, callVars, stopped>>

Settled == {"completed", "failed", "interrupted", "closed"}
Status == {"none", "running"} \cup Settled
Holding == {"starting", "creating", "discarding", "prompting"}
InFlight == {"queued", "woken"} \cup Holding
Closers == {"tool", "shutdown"}

NoCall == [at |-> "idle", run |-> NoRun, on |-> NoTurn]
NoClose == [at |-> "idle", on |-> NoTurn]

Unused == {t \in Turns : pc[t] = "unused"}
Holders == {t \in Turns : pc[t] \in Holding}
Woken == {t \in Turns : pc[t] = "woken"}
InFlightOn(r) == {t \in Turns : runOf[t] = r /\ pc[t] \in InFlight}

Init ==
  /\ status = [r \in Runs |-> "none"]
  /\ handle = [r \in Runs |-> NoTurn]
  /\ settled = [r \in Runs |-> NoTurn]
  /\ active = 0
  /\ queue = <<>>
  /\ pc = [t \in Turns |-> "unused"]
  /\ runOf = [t \in Turns |-> NoRun]
  /\ session = [t \in Turns |-> "none"]
  /\ call = [c \in Calls |-> NoCall]
  /\ closing = [k \in Closers |-> [r \in Runs |-> NoClose]]
  /\ down = "no"
  /\ stopped = {}

-----------------------------------------------------------------------------
(* What the handlers share.                                                *)

\* touch() with a status other than "running" wakes every waiter of the runs.
WakeWaiters(calls, rs) ==
  [c \in Calls |-> IF calls[c].at = "parked" /\ calls[c].run \in rs
                   THEN [calls[c] EXCEPT !.at = "woken"]
                   ELSE calls[c]]

\* touch(run, {status: "interrupted" | "closed"}) on each run of rs.
Stop(rs, st) ==
  /\ status' = [r \in Runs |-> IF r \in rs THEN st ELSE status[r]]
  /\ call' = WakeWaiters(call, rs)
  /\ stopped' = stopped \cup UNION {InFlightOn(r) : r \in rs}

\* run.settled = executePrompt(run, prompt), as far as the first await:
\* take a slot if one is free, else join the queue.
Launch(r, t) ==
  /\ pc[t] = "unused"
  /\ runOf' = [runOf EXCEPT ![t] = r]
  /\ settled' = [settled EXCEPT ![r] = t]
  /\ \/ /\ active < Concurrency
        /\ active' = active + 1
        /\ pc' = [pc EXCEPT ![t] = "starting"]
        /\ queue' = queue
     \/ /\ active >= Concurrency
        /\ queue' = Append(queue, t)
        /\ pc' = [pc EXCEPT ![t] = "queued"]
        /\ active' = active

\* FAULT: the queue is not woken.
ReleaseWithoutHandOn(t) ==
  /\ active' = active - 1
  /\ pc' = [pc EXCEPT ![t] = "done"]
  /\ UNCHANGED queue

\* The finally block: the turn ends, its slot is given up and the oldest
\* queued turn is woken.  The woken turn counts itself only when it resumes.
ReleaseSlot(t) ==
  /\ active' = active - 1
  /\ \/ /\ queue = <<>>
        /\ queue' = queue
        /\ pc' = [pc EXCEPT ![t] = "done"]
     \/ /\ queue # <<>>
        /\ queue' = Tail(queue)
        /\ pc' = [pc EXCEPT ![t] = "done", ![Head(queue)] = "woken"]

\* What a host that serialises its calls lets happen before the next one.
HostMayCall(r) ==
  /\ down # "done"
  /\ SerialHost =>
       /\ down = "no"
       /\ \A c \in Calls : call[c].run # r
       /\ \A k \in Closers : closing[k][r].at = "idle"
       /\ status[r] = "running" \/ InFlightOn(r) = {}

\* Bound: every held message() keeps a turn in reserve.
SpareTurn ==
  Cardinality({c \in Calls : call[c].at = "held"}) < Cardinality(Unused)

-----------------------------------------------------------------------------
(* Calls of the host and of the `agent` tool.                              *)

StartRun(r) ==
  /\ HostMayCall(r) /\ SpareTurn
  /\ status[r] = "none"
  /\ status' = [status EXCEPT ![r] = "running"]
  /\ \E t \in Unused : Launch(r, t)
  /\ UNCHANGED <<handle, session, callVars, stopped>>

\* message() on a running child that has its session: await steer().
Steer(c, r) ==
  /\ status[r] = "running" /\ handle[r] # NoTurn
  /\ call' = [call EXCEPT ![c] = [at |-> "steering", run |-> r, on |-> NoTurn]]
  /\ UNCHANGED <<status, handle, settled, turnVars, closing, down, stopped>>

\* The last branch of message(): back to running, with a new turn.
FollowUp(c, r) ==
  /\ ~(status[r] = "running" /\ handle[r] # NoTurn)
  /\ status' = [status EXCEPT ![r] = "running"]
  /\ \E t \in Unused : Launch(r, t)
  /\ call' = [call EXCEPT ![c] = NoCall]
  /\ UNCHANGED <<handle, session, closing, down, stopped>>

\* message() on a running child that has no session yet: await run.settled.
HoldMessage(c, r) ==
  /\ status[r] = "running" /\ handle[r] = NoTurn
  /\ call' = [call EXCEPT ![c] = [at |-> "held", run |-> r, on |-> settled[r]]]
  /\ UNCHANGED <<status, handle, settled, turnVars, closing, down, stopped>>

Message(c, r) ==
  /\ HostMayCall(r) /\ SpareTurn
  /\ call[c].at = "idle"
  /\ status[r] \notin {"none", "closed"}
  /\ \/ HoldMessage(c, r)
     \/ Steer(c, r)
     \/ status[r] # "running" /\ FollowUp(c, r)

\* After `await run.settled` only the handle and "running" are looked at.
MessageResumes(c) ==
  /\ call[c].at = "held" /\ pc[call[c].on] = "done"
  /\ Steer(c, call[c].run) \/ FollowUp(c, call[c].run)

SteerReturns(c) ==
  /\ call[c].at = "steering"
  /\ call' = IF status[call[c].run] = "running"
             THEN [call EXCEPT ![c] = NoCall]
             ELSE WakeWaiters([call EXCEPT ![c] = NoCall], {call[c].run})
  /\ UNCHANGED <<status, handle, settled, turnVars, closing, down, stopped>>

Wait(c, r) ==
  /\ HostMayCall(r)
  /\ call[c].at = "idle"
  /\ status[r] = "running"
  /\ call' = [call EXCEPT ![c] = [at |-> "parked", run |-> r, on |-> NoTurn]]
  /\ UNCHANGED <<status, handle, settled, turnVars, closing, down, stopped>>

\* The waiter was woken, or its signal aborted while it was parked.
WaitReturns(c) ==
  /\ call[c].at = "woken"
  /\ call' = [call EXCEPT ![c] = NoCall]
  /\ UNCHANGED <<status, handle, settled, turnVars, closing, down, stopped>>

WaitAborts(c) ==
  /\ call[c].at = "parked"
  /\ call' = [call EXCEPT ![c] = NoCall]
  /\ UNCHANGED <<status, handle, settled, turnVars, closing, down, stopped>>

\* interrupt(): nothing follows `await session.abort()` but the return.
Interrupt(r) ==
  /\ HostMayCall(r)
  /\ status[r] = "running"
  /\ Stop({r}, "interrupted")
  /\ UNCHANGED <<handle, settled, turnVars, closing, down>>

\* await run.handle?.dispose(), on the handle the run has by now.
Dispose(k, r) ==
  /\ closing' = [closing EXCEPT ![k][r] = [at |-> "disposing", on |-> NoTurn]]
  /\ session' = [t \in Turns |-> IF t = handle[r] THEN "disposed" ELSE session[t]]

\* close() up to `await session.abort()`; on a closed run, up to dispose().
Close(r) ==
  /\ HostMayCall(r)
  /\ status[r] # "none" /\ closing["tool"][r].at = "idle"
  /\ \/ /\ status[r] # "closed"
        /\ Stop({r}, "closed")
        /\ closing' = [closing EXCEPT !["tool"][r] = [at |-> "aborting", on |-> NoTurn]]
        /\ session' = session
     \/ /\ status[r] = "closed"
        /\ Dispose("tool", r)
        /\ UNCHANGED <<status, call, stopped>>
  /\ UNCHANGED <<handle, settled, active, queue, pc, runOf, down>>

\* shutdown(): close() on every run that is not closed yet.
Shutdown ==
  LET open == {r \in Runs : status[r] \notin {"none", "closed"}}
  IN /\ down = "no"
     /\ SerialHost => /\ \A c \in Calls : call[c].at = "idle"
                      /\ \A r \in Runs : /\ closing["tool"][r].at = "idle"
                                         /\ status[r] = "running" \/ InFlightOn(r) = {}
     /\ down' = "closing"
     /\ closing' = [closing EXCEPT !["shutdown"] =
                     [r \in Runs |-> IF r \in open
                                     THEN [at |-> "aborting", on |-> NoTurn]
                                     ELSE NoClose]]
     /\ Stop(open, "closed")
     /\ UNCHANGED <<handle, settled, turnVars>>

CloseDisposes(k, r) ==
  /\ closing[k][r].at = "aborting"
  /\ Dispose(k, r)
  /\ UNCHANGED <<status, handle, settled, active, queue, pc, runOf, call, down, stopped>>

\* run.handle = null; await run.settled
CloseDetaches(k, r) ==
  /\ closing[k][r].at = "disposing"
  /\ handle' = [handle EXCEPT ![r] = NoTurn]
  /\ closing' = [closing EXCEPT ![k][r] = [at |-> "settling", on |-> settled[r]]]
  /\ UNCHANGED <<status, settled, turnVars, call, down, stopped>>

CloseReturns(k, r) ==
  /\ closing[k][r].at = "settling" /\ pc[closing[k][r].on] = "done"
  /\ closing' = [closing EXCEPT ![k][r] = NoClose]
  /\ UNCHANGED <<status, handle, settled, turnVars, call, down, stopped>>

ShutdownReturns ==
  /\ down = "closing"
  /\ \A r \in Runs : closing["shutdown"][r].at = "idle"
  /\ down' = "done"
  /\ UNCHANGED <<status, handle, settled, turnVars, call, closing, stopped>>

-----------------------------------------------------------------------------
(* Continuations of a turn.                                                *)

\* The queue promise resolved: acquireSlot() counts the slot now.
ResumeQueued(t) ==
  /\ pc[t] = "woken"
  /\ active' = active + 1
  /\ pc' = [pc EXCEPT ![t] = "starting"]
  /\ UNCHANGED <<status, handle, settled, queue, runOf, session, callVars, stopped>>

\* FAULT: the status is not looked at once the slot is held.
BeginRegardless(t) ==
  /\ pc[t] = "starting"
  /\ pc' = [pc EXCEPT ![t] = IF handle[runOf[t]] = NoTurn
                             THEN "creating" ELSE "prompting"]
  /\ UNCHANGED <<status, handle, settled, active, queue, runOf, session, callVars, stopped>>

\* The slot is held: give up if the run was stopped, else create or prompt.
BeginTurn(t) ==
  /\ pc[t] = "starting"
  /\ \/ /\ status[runOf[t]] # "running"
        /\ ReleaseSlot(t)
     \/ /\ status[runOf[t]] = "running"
        /\ pc' = [pc EXCEPT ![t] = IF handle[runOf[t]] = NoTurn
                                   THEN "creating" ELSE "prompting"]
        /\ UNCHANGED <<active, queue>>
  /\ UNCHANGED <<status, handle, settled, runOf, session, callVars, stopped>>

\* FAULT: the session of a run that was stopped is dropped without dispose().
SessionForgotten(t) ==
  LET live == status[runOf[t]] = "running"
  IN /\ pc[t] = "creating"
     /\ handle' = [handle EXCEPT ![runOf[t]] = IF live THEN t ELSE NoTurn]
     /\ session' = [session EXCEPT ![t] = "live"]
     /\ pc' = [pc EXCEPT ![t] = IF live THEN "prompting" ELSE "discarding"]
     /\ UNCHANGED <<status, settled, active, queue, runOf, callVars, stopped>>

\* The child session exists: prompt it, or dispose it if the run was stopped.
SessionCreated(t) ==
  LET live == status[runOf[t]] = "running"
  IN /\ pc[t] = "creating"
     /\ handle' = [handle EXCEPT ![runOf[t]] = t]
     /\ session' = [session EXCEPT ![t] = IF live THEN "live" ELSE "disposed"]
     /\ pc' = [pc EXCEPT ![t] = IF live THEN "prompting" ELSE "discarding"]
     /\ UNCHANGED <<status, settled, active, queue, runOf, callVars, stopped>>

\* await dispose() returned: run.handle = null, whatever it is by now.
SessionDiscarded(t) ==
  /\ pc[t] = "discarding"
  /\ handle' = [handle EXCEPT ![runOf[t]] = NoTurn]
  /\ ReleaseSlot(t)
  /\ UNCHANGED <<status, settled, runOf, session, callVars, stopped>>

\* FAULT: a turn settles its run whatever the run says by then.
SettleRegardless(t, outcome) ==
  /\ status' = [status EXCEPT ![runOf[t]] = outcome]
  /\ call' = WakeWaiters(call, {runOf[t]})
  /\ ReleaseSlot(t)
  /\ UNCHANGED <<handle, settled, runOf, session, closing, down, stopped>>

\* The rest of executePrompt, if the run still says "running", is the touch
\* that settles it; finally the slot is released.
SettleRun(t, outcome) ==
  /\ \/ /\ status[runOf[t]] = "running"
        /\ status' = [status EXCEPT ![runOf[t]] = outcome]
        /\ call' = WakeWaiters(call, {runOf[t]})
     \/ status[runOf[t]] # "running" /\ UNCHANGED <<status, call>>
  /\ ReleaseSlot(t)
  /\ UNCHANGED <<handle, settled, runOf, session, closing, down, stopped>>

CreationFails(t) ==
  /\ pc[t] = "creating"
  /\ SettleRun(t, "failed")

\* The prompt settled, well or badly.  Without a handle the messages cannot
\* be read and the run fails.
PromptSettles(t) ==
  /\ pc[t] = "prompting"
  /\ \E outcome \in {"completed", "failed"} :
       /\ handle[runOf[t]] = NoTurn => outcome = "failed"
       /\ SettleRun(t, outcome)

-----------------------------------------------------------------------------
HostStep ==
  \/ \E r \in Runs : StartRun(r) \/ Interrupt(r) \/ Close(r)
  \/ \E c \in Calls, r \in Runs : Message(c, r) \/ Wait(c, r)
  \/ \E c \in Calls : WaitAborts(c)
  \/ Shutdown

CallStep(c) == MessageResumes(c) \/ SteerReturns(c) \/ WaitReturns(c)

CloseStep(k, r) ==
  CloseDisposes(k, r) \/ CloseDetaches(k, r) \/ CloseReturns(k, r)

TurnStep(t) ==
  \/ ResumeQueued(t) \/ BeginTurn(t)
  \/ SessionCreated(t) \/ SessionDiscarded(t) \/ CreationFails(t)
  \/ PromptSettles(t)

Next ==
  \/ HostStep
  \/ \E c \in Calls : CallStep(c)
  \/ \E k \in Closers, r \in Runs : CloseStep(k, r)
  \/ \E t \in Turns : TurnStep(t)
  \/ ShutdownReturns

Spec == Init /\ [][Next]_vars

\* Every promise the controller awaits settles: Node runs each continuation,
\* and a child session that is being created or prompted ends in a result or
\* in an error.
Fairness ==
  /\ \A c \in Calls : WF_vars(CallStep(c))
  /\ \A k \in Closers, r \in Runs : WF_vars(CloseStep(k, r))
  /\ \A t \in Turns : WF_vars(TurnStep(t))
  /\ WF_vars(ShutdownReturns)

FairSpec == Spec /\ Fairness

-----------------------------------------------------------------------------
(* Properties that hold however the host calls.                            *)

TypeOK ==
  /\ status \in [Runs -> Status]
  /\ handle \in [Runs -> Turns \cup {NoTurn}]
  /\ settled \in [Runs -> Turns \cup {NoTurn}]
  /\ active \in Int
  /\ queue \in Seq(Turns)
  /\ pc \in [Turns -> InFlight \cup {"unused", "done"}]
  /\ runOf \in [Turns -> Runs \cup {NoRun}]
  /\ session \in [Turns -> {"none", "live", "disposed"}]
  /\ call \in [Calls -> {NoCall} \cup
                         [at : {"held", "steering", "parked", "woken"},
                          run : Runs, on : Turns \cup {NoTurn}]]
  /\ closing \in [Closers -> [Runs ->
                   [at : {"idle", "aborting", "disposing", "settling"},
                    on : Turns \cup {NoTurn}]]]
  /\ down \in {"no", "closing", "done"}
  /\ stopped \in SUBSET Turns

\* Every path out of executePrompt gives its slot back exactly once: the
\* counter is the number of turns between acquireSlot() and releaseSlot().
SlotAccounting == active = Cardinality(Holders)

\* A turn that waits for a slot is in the queue exactly once, and nothing else
\* is: it can neither be forgotten nor be woken twice.
QueuedOnce ==
  /\ \A i \in DOMAIN queue : pc[queue[i]] = "queued"
  /\ \A i, j \in DOMAIN queue : queue[i] = queue[j] => i = j
  /\ \A t \in Turns : pc[t] = "queued" => \E i \in DOMAIN queue : queue[i] = t

\* No turn waits for a slot while one is free and nobody has been woken to
\* take it: a slot given up is handed on.
NoIdleSlotWhileQueued ==
  queue # <<>> => active + Cardinality(Woken) >= Concurrency

\* A run that says "running" always has its latest turn in flight, and not
\* one that is about to leave without settling it: a child cannot wedge the
\* parent that waits for it.
RunningIsBacked ==
  \A r \in Runs : status[r] = "running" =>
    /\ settled[r] \in InFlightOn(r)
    /\ pc[settled[r]] # "discarding"

\* A waiter left in run.waiters waits for a run that is still running:
\* whatever settles the run, by any path, wakes it.
NoStrandedWaiter ==
  \A c \in Calls : call[c].at = "parked" => status[call[c].run] = "running"

\* Nobody waits for what will not come: no turn for a slot that is free, no
\* call for a run that is over.
NobodyWaitsInVain == NoIdleSlotWhileQueued /\ NoStrandedWaiter

-----------------------------------------------------------------------------
(* Properties that need SerialHost.                                        *)

\* A session that was created and not disposed is the one its run holds, so
\* close() will reach it.
NoOrphanSession ==
  \A t \in Turns : session[t] = "live" => handle[runOf[t]] = t

\* A turn whose run was interrupted or closed neither prompts the child
\* afterwards nor settles the run: what a caller stopped stays stopped.
StoppedTurnIsInert ==
  [][\A t \in stopped : pc'[t] # pc[t] =>
        /\ pc'[t] # "prompting"
        /\ status'[runOf[t]] = status[runOf[t]]]_vars

\* When shutdown() returns every child has quiesced and no session is left.
ShutdownReleasesAll ==
  down = "done" => /\ \A t \in Turns : pc[t] \in {"unused", "done"}
                   /\ \A t \in Turns : session[t] # "live"

\* No session is lost sight of while its run lives, and none is left by
\* shutdown().
NoSessionIsLeft == NoOrphanSession /\ ShutdownReleasesAll

Contract == INSTANCE AgentRunContract
  WITH working <- [r \in Runs |-> InFlightOn(r) # {}]

\* Every step of the controller is one of the portable lifecycle contract, or
\* none: only the turn a run works on settles it, no second turn begins beside
\* it, a closed run stays closed, and no run works for ever on one turn.
KeepsContract == Contract!Spec /\ Contract!TurnsEnd
=============================================================================
