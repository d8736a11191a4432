-------------------------- MODULE CompletionQueue --------------------------
(***************************************************************************)
(* How a background run's outcome reaches the parent model: the queue of   *)
(* src/src/child-agent-completions.ts, the deliverer of                    *)
(* src/src/pi-extension.ts, and the `agent` tool's synchronous readers.    *)
(*                                                                         *)
(* A notice <<r, n>> is the outcome of the n-th turn of run r.  Which turns *)
(* queue one is the subject of LocalRuns; here a message() waits for the   *)
(* turn before it (a patient host), and a stopped turn queues nothing.     *)
(* Timers carry no time: an armed one may fire.  The parent session is     *)
(* Pi's, known by isIdle(), agent_end and sendMessage(); its model calls   *)
(* tools, several at once, while it is busy.                               *)
(***************************************************************************)
EXTENDS Integers, FiniteSets

CONSTANTS
  Runs,    \* agent runs
  Waits,   \* wait() calls that may be in flight
  MaxTurns, \* bound: the turns a run takes
  MaxWork   \* bound: the turns that all runs take

ASSUME CompletionQueueAssumption == MaxTurns \in Nat /\ MaxWork \in Nat

VARIABLES
  status,    \* run.status; "none" before start(), "closed" after close()
  turn,      \* the number of the run's latest turn
  pending,   \* completions.pending
  window,    \* completions.flushTimer is armed
  scheduled, \* completions.deliveryScheduled: a microtask is queued
  retry,     \* deliveryRetryTimer is armed
  parent,    \* the parent session: "idle", "busy" or "ending"
  waiting,   \* wait() calls in flight: the notice each one waits for
  failures,  \* history: the notices of failed turns
  seen,      \* history: outcomes that a tool result showed the model
  announced  \* history: outcomes sent to the model in a message

queueVars == <<pending, window, scheduled>>
runVars == <<status, turn, failures>>
parentVars == <<parent, waiting, seen>>
vars == <<queueVars, runVars, parentVars, retry, announced>>

Notices == Runs \X (1 .. MaxTurns)
Outcomes == {"completed", "failed"}
Terminal == Outcomes \cup {"interrupted"}
NotWaiting == <<>>

Of(r) == {n \in Notices : n[1] = r}
Latest(r) == <<r, turn[r]>>

\* What reading a terminal run shows: the output of its latest turn, if any.
Shown(rs) == {Latest(r) : r \in {q \in rs : status[q] \in Outcomes}}

Init ==
  /\ status = [r \in Runs |-> "none"]
  /\ turn = [r \in Runs |-> 0]
  /\ pending = {} /\ window = FALSE /\ scheduled = FALSE /\ retry = FALSE
  /\ parent = "busy"
  /\ waiting = [w \in Waits |-> NotWaiting]
  /\ failures = {} /\ seen = {} /\ announced = {}

-----------------------------------------------------------------------------
(* ChildCompletionQueue.                                                   *)

\* Close the batch window; a second microtask is never queued.
FlushNow == window' = FALSE /\ scheduled' = TRUE

Enqueue(n, outcome) ==
  /\ pending' = pending \cup {n}
  /\ \/ outcome = "failed" /\ FlushNow
     \/ outcome = "completed" /\ window' = TRUE /\ scheduled' = scheduled

\* Envelopes carry the run's id, so every notice of the run is dropped.
Acknowledge(rs) == pending' = pending \ UNION {Of(r) : r \in rs}

-----------------------------------------------------------------------------
(* deliverCompletions()                                                    *)

\* FAULT: delivery is not tried again when the parent turns out to be busy.
DeliverOnce ==
  /\ retry' = FALSE
  /\ \/ pending = {} /\ UNCHANGED <<pending, announced, parent>>
     \/ /\ pending # {} /\ parent # "idle"
        /\ UNCHANGED <<pending, announced, parent>>
     \/ /\ pending # {} /\ parent = "idle"
        /\ pending' = {} /\ announced' = announced \cup pending
        /\ parent' = "busy"

\* Nothing to tell; or hold the batch and retry; or wake the parent with it.
Deliver ==
  \/ /\ pending = {}
     /\ retry' = FALSE
     /\ UNCHANGED <<pending, announced, parent>>
  \/ /\ pending # {} /\ parent # "idle"
     /\ retry' = TRUE
     /\ UNCHANGED <<pending, announced, parent>>
  \/ /\ pending # {} /\ parent = "idle"
     /\ retry' = FALSE
     /\ pending' = {} /\ announced' = announced \cup pending
     /\ parent' = "busy"

WindowCloses ==
  /\ window
  /\ FlushNow
  /\ UNCHANGED <<pending, runVars, parentVars, retry, announced>>

MicrotaskDelivers ==
  /\ scheduled
  /\ scheduled' = FALSE
  /\ Deliver
  /\ UNCHANGED <<window, runVars, waiting, seen>>

RetryDelivers ==
  /\ retry
  /\ Deliver
  /\ UNCHANGED <<window, scheduled, runVars, waiting, seen>>

-----------------------------------------------------------------------------
(* The child runs, as far as the queue can tell.                           *)

Settle(r) ==
  /\ status[r] = "running"
  /\ \E outcome \in Outcomes :
       /\ status' = [status EXCEPT ![r] = outcome]
       /\ failures' = IF outcome = "failed" THEN failures \cup {Latest(r)} ELSE failures
       /\ Enqueue(Latest(r), outcome)
  /\ UNCHANGED <<turn, parentVars, retry, announced>>

-----------------------------------------------------------------------------
(* The `agent` tool, called by a busy parent.                              *)

\* start, or message on a settled run.  Neither touches the queue.
Prompt(r) ==
  /\ parent = "busy"
  /\ status[r] \in {"none"} \cup Terminal
  /\ turn[r] < MaxTurns /\ Cardinality({n \in Notices : n[2] <= turn[n[1]]}) < MaxWork
  /\ status' = [status EXCEPT ![r] = "running"]
  /\ turn' = [turn EXCEPT ![r] = @ + 1]
  /\ UNCHANGED <<failures, queueVars, parentVars, retry, announced>>

Interrupt(r) ==
  /\ parent = "busy" /\ status[r] = "running"
  /\ status' = [status EXCEPT ![r] = "interrupted"]
  /\ UNCHANGED <<turn, failures, queueVars, parentVars, retry, announced>>

\* FAULT: what the model was shown stays queued.
ReportOnly(rs) ==
  /\ parent = "busy"
  /\ seen' = seen \cup Shown(rs)
  /\ UNCHANGED <<queueVars, runVars, parent, retry, announced>>

\* The result shows the terminal runs of rs, whose notices are then dropped.
Report(rs) ==
  /\ parent = "busy"
  /\ seen' = seen \cup Shown(rs)
  /\ Acknowledge({r \in rs : status[r] \in Terminal})
  /\ UNCHANGED <<window, scheduled, runVars, parent, retry, announced>>

\* status, of one run or of all that are listed.
ReadStatus(rs) ==
  /\ rs # {} /\ \A r \in rs : status[r] \notin {"none", "closed"}
  /\ Report(rs)
  /\ UNCHANGED waiting

\* wait on a run that has settled reads it; on a running one it is parked.
Wait(w, r) ==
  /\ parent = "busy"
  /\ waiting[w] = NotWaiting /\ status[r] = "running"
  /\ waiting' = [waiting EXCEPT ![w] = Latest(r)]
  /\ UNCHANGED <<queueVars, runVars, parent, seen, retry, announced>>

\* The turn is over; the run is read as it is by now.  The few microtasks
\* between the controller's answer and the tool's are one step here.
WaitReturns(w) ==
  \E r \in Runs, n \in 1 .. MaxTurns :
    /\ waiting[w] = <<r, n>>
    /\ turn[r] > n \/ status[r] # "running"
    /\ waiting' = [waiting EXCEPT ![w] = NotWaiting]
    /\ Report({r} \ {q \in Runs : status[q] = "closed"})

\* The call is abandoned; a terminal run is acknowledged all the same.
WaitAborts(w) ==
  \E r \in Runs, n \in 1 .. MaxTurns :
    /\ waiting[w] = <<r, n>>
    /\ waiting' = [waiting EXCEPT ![w] = NotWaiting]
    /\ Report({r} \ {q \in Runs : status[q] = "closed"})

\* close, which stops a running child and waits for its turn first.
Close(r) ==
  /\ parent = "busy"
  /\ status[r] \notin {"none", "closed"}
  /\ status' = [status EXCEPT ![r] = "closed"]
  /\ Acknowledge({r})
  /\ UNCHANGED <<turn, failures, window, scheduled, parentVars, retry, announced>>

-----------------------------------------------------------------------------
(* The parent session, Pi's.                                               *)

\* The user prompts.
ParentStarts ==
  /\ parent = "idle"
  /\ parent' = "busy"
  /\ UNCHANGED <<queueVars, runVars, waiting, seen, retry, announced>>

\* FAULT: the poke drops the batch window and tries just once.
PokeOnce ==
  /\ parent = "busy" /\ \A w \in Waits : waiting[w] = NotWaiting
  /\ parent' = "ending"
  /\ window' = FALSE
  /\ UNCHANGED <<pending, scheduled, runVars, waiting, seen, retry, announced>>

\* agent_end: poke() delivers past an open window, and is told to hold: the
\* session is not idle at this boundary.
ParentEnds ==
  /\ parent = "busy" /\ \A w \in Waits : waiting[w] = NotWaiting
  /\ parent' = "ending"
  /\ \/ pending = {} /\ UNCHANGED <<window, retry>>
     \/ pending # {} /\ window' = FALSE /\ retry' = TRUE
  /\ UNCHANGED <<pending, scheduled, runVars, waiting, seen, announced>>

ParentIdles ==
  /\ parent = "ending"
  /\ parent' = "idle"
  /\ UNCHANGED <<queueVars, runVars, waiting, seen, retry, announced>>

-----------------------------------------------------------------------------
ToolStep ==
  \/ \E r \in Runs : Prompt(r) \/ Interrupt(r) \/ Close(r)
  \/ \E rs \in SUBSET Runs : ReadStatus(rs)
  \/ \E w \in Waits, r \in Runs : Wait(w, r)
  \/ \E w \in Waits : WaitAborts(w)

Next ==
  \/ WindowCloses \/ MicrotaskDelivers \/ RetryDelivers
  \/ \E r \in Runs : Settle(r)
  \/ ToolStep
  \/ \E w \in Waits : WaitReturns(w)
  \/ ParentStarts \/ ParentEnds \/ ParentIdles

Spec == Init /\ [][Next]_vars

\* Timers and microtasks fire, children settle, waits return and turns of the
\* parent end.  The parent rests for longer than the retry interval now and
\* then, so that a retry does not find it busy every time.
Fairness ==
  /\ WF_vars(WindowCloses) /\ WF_vars(MicrotaskDelivers)
  /\ SF_vars(RetryDelivers /\ parent = "idle")
  /\ \A r \in Runs : WF_vars(Settle(r))
  /\ \A w \in Waits : WF_vars(WaitReturns(w))
  /\ SF_vars(ParentEnds) /\ WF_vars(ParentIdles)

FairSpec == Spec /\ Fairness

-----------------------------------------------------------------------------
TypeOK ==
  /\ status \in [Runs -> {"none", "running", "closed"} \cup Terminal]
  /\ turn \in [Runs -> 0 .. MaxTurns]
  /\ pending \in SUBSET Notices
  /\ window \in BOOLEAN /\ scheduled \in BOOLEAN /\ retry \in BOOLEAN
  /\ parent \in {"idle", "busy", "ending"}
  /\ waiting \in [Waits -> {NotWaiting} \cup Notices]
  /\ failures \in SUBSET Notices
  /\ seen \in SUBSET Notices /\ announced \in SUBSET Notices

\* A queued notice has something armed that will try to deliver it: the batch
\* window, a microtask or the retry timer.  The last two alternate through
\* busy turns, pokes and acknowledgements, and none may drop the thread.
PendingIsArmed == pending # {} => window \/ scheduled \/ retry

\* A failure is never left to the batch window: delivery is due at once, or
\* was tried and is being retried.
FailuresSkipTheWindow == pending \cap failures # {} => scheduled \/ retry

\* Whatever is queued has something armed that is as urgent as it is.
EveryNoticeIsArmed == PendingIsArmed /\ FailuresSkipTheWindow

\* A message to the model only tells it outcomes that no tool result showed it
\* and no message told it before, and only an idle parent is woken.
NoticeIsNews ==
  [][announced' # announced =>
       /\ parent = "idle"
       /\ pending \cap (seen \cup announced) = {}
       /\ announced' = announced \cup pending]_vars

\* A queued outcome does not stay queued for ever.
NoticesDrain == \A n \in Notices : n \in pending ~> n \notin pending
=============================================================================
