----------------------------- MODULE LocalRuns -----------------------------
(***************************************************************************)
(* The run controller of the Pi extension (src/src/pi-extension.ts), with  *)
(* the child runner it drives (src/src/child-agent.ts).                    *)
(*                                                                         *)
(* As in RunController an action is the code between two awaits, a turn is *)
(* one invocation of executeChildPrompt(), and a child session is named by *)
(* what created it: a turn, or the message() call that found none.  What   *)
(* happens to a notice once it is queued is in CompletionQueue.            *)
(*                                                                         *)
(* The host and its `agent` tool may make any call at any time: a second   *)
(* one while the first is under way, a message or a close() to a run whose *)
(* stopped turn is still at work, and all of them while the runs are being *)
(* closed.  Where the code keeps less than its promise then, the history   *)
(* variables say which turns and sessions it is about.                     *)
(***************************************************************************)
EXTENDS Integers, FiniteSets

CONSTANTS
  Runs,   \* the agent runs that may be started
  Turns,  \* identities for invocations of executeChildPrompt
  Calls,  \* slots for wait() and message() calls in flight
  None    \* no turn, no session, no run

ASSUME LocalRunsAssumption ==
  /\ IsFiniteSet(Turns)
  /\ None \notin Runs \cup Turns \cup Calls
  /\ Turns \cap Calls = {}

VARIABLES
  status,    \* run.status; "none" before start()
  listed,    \* keys of childRuns
  promise,   \* run.promise: the turn whose promise it is
  handle,    \* the runner's handle and session, or None
  pc,        \* where each turn is in executeChildPrompt
  runOf,     \* the run each turn executes for
  session,   \* the last child session each turn or call created, if any;
             \* "lost" is a live one that its runner has replaced
  call,      \* calls in flight
  closing,   \* close() calls in flight, the agent tool's and shutdown's
  down,      \* closeAllChildRuns(): "no", "closing" or "done"
  stopped,   \* history: turns at work when their run was stopped
  announced, \* history: turns that queued a completion notice
  overtaken, \* history: stopped turns at work when a message started another
  inHand     \* history: turns, and calls that made a session, which no call
             \* has put beyond the reach of closeAllChildRuns()

runVars == <<status, listed, promise, handle>>
turnVars == <<pc, runOf, session>>
callVars == <<call, closing, down>>
history == <<stopped, announced, overtaken, inHand>>
vars == <<runVars, turnVars, callVars, history>>

Creating == {"creating", "recreating"}
Working == {"creating", "started", "recreating", "prompting"}
InFlight == Working \cup {"persisting"}
Settled == {"completed", "failed", "interrupted"}
Closers == {"tool", "shutdown"}
NoCall == [at |-> "idle", run |-> None, on |-> None]
NoClose == [at |-> "idle", on |-> None]

WorkingOn(r) == {t \in Turns : runOf[t] = r /\ pc[t] \in Working}

Init ==
  /\ status = [r \in Runs |-> "none"]
  /\ listed = {}
  /\ promise = [r \in Runs |-> None]
  /\ handle = [r \in Runs |-> None]
  /\ pc = [t \in Turns |-> "unused"]
  /\ runOf = [t \in Turns |-> None]
  /\ session = [s \in Turns \cup Calls |-> "none"]
  /\ call = [c \in Calls |-> NoCall]
  /\ closing = [k \in Closers |-> [r \in Runs |-> NoClose]]
  /\ down = "no"
  /\ stopped = {} /\ announced = {} /\ overtaken = {} /\ inHand = {}

-----------------------------------------------------------------------------
(* What the handlers share.                                                *)

\* Bound: calls after closeAllChildRuns() has returned are the next session's.
SessionIsOn == down # "done"

BeingClosed(r) == down # "no" \/ \E k \in Closers : closing[k][r].at # "idle"

\* runner.start(): create the session if the runner has none yet.
Boot(r, t, creating, otherwise) ==
  \/ /\ handle[r] = None
     /\ pc' = [pc EXCEPT ![t] = creating]
     /\ session' = [session EXCEPT ![t] = "creating"]
  \/ /\ handle[r] # None
     /\ pc' = [pc EXCEPT ![t] = otherwise]
     /\ session' = session

\* this.handle = the new session, whatever the runner holds by then.
Hold(r, s) ==
  /\ handle' = [handle EXCEPT ![r] = s]
  /\ session' = [x \in DOMAIN session |->
                  IF x = s THEN "live"
                  ELSE IF x = handle[r] /\ session[x] = "live" THEN "lost"
                  ELSE session[x]]

\* A turn's name does not matter: one that was not used yet.
IsNext(t) == pc[t] = "unused" /\ t = CHOOSE u \in Turns : pc[u] = "unused"

\* run.promise = executeChildPrompt(run, prompt, cwd)
Launch(r, t) ==
  /\ IsNext(t)
  /\ status' = [status EXCEPT ![r] = "running"]
  /\ promise' = [promise EXCEPT ![r] = t]
  /\ runOf' = [runOf EXCEPT ![t] = r]
  /\ Boot(r, t, "creating", "started")
  /\ overtaken' = overtaken \cup (WorkingOn(r) \cap stopped)
  /\ inHand' = IF BeingClosed(r) \/ WorkingOn(r) # {}
               THEN inHand \ WorkingOn(r) ELSE inHand \cup {t}

\* run.status = "interrupted", on each running run of rs.
Stop(rs) ==
  /\ status' = [r \in Runs |-> IF r \in rs THEN "interrupted" ELSE status[r]]
  /\ stopped' = stopped \cup UNION {WorkingOn(r) : r \in rs}

\* runner.shutdown() of each run of rs, as far as await dispose().
Dispose(rs) ==
  session' = [s \in DOMAIN session |->
               IF \E r \in rs : handle[r] = s THEN "disposed" ELSE session[s]]

\* close() awaits the turn of a running run, and no turn of a stopped one.
Forsake(rs) ==
  inHand' = inHand \ UNION {WorkingOn(r) : r \in {q \in rs : status[q] # "running"}}

-----------------------------------------------------------------------------
(* Calls of the host and of the `agent` tool.                              *)

StartRun(r) ==
  /\ SessionIsOn
  /\ status[r] = "none"
  /\ listed' = listed \cup {r}
  /\ \E t \in Turns : Launch(r, t)
  /\ UNCHANGED <<handle, callVars, stopped, announced>>

\* FAULT: a message always starts a turn, whatever the run is doing.
FollowUpRegardless(r) ==
  /\ SessionIsOn
  /\ r \in listed
  /\ \E t \in Turns : Launch(r, t)
  /\ UNCHANGED <<listed, handle, callVars, stopped, announced>>

\* message() on a run that is not running: a follow-up turn.
FollowUp(r) ==
  /\ SessionIsOn
  /\ r \in listed /\ status[r] # "running"
  /\ \E t \in Turns : Launch(r, t)
  /\ UNCHANGED <<listed, handle, callVars, stopped, announced>>

\* message() on a running run without a session: runner.steer() starts one.
\* With a session the message is passed on and nothing changes here.
\* Bound: a call slot creates one session.
Steer(c, r) ==
  /\ SessionIsOn
  /\ call[c].at = "idle" /\ session[c] = "none"
  /\ r \in listed /\ status[r] = "running" /\ handle[r] = None
  /\ call' = [call EXCEPT ![c] = [at |-> "booting", run |-> r, on |-> None]]
  /\ session' = [session EXCEPT ![c] = "creating"]
  /\ UNCHANGED <<runVars, pc, runOf, closing, down, history>>

\* The session a steering message created replaces whatever is there.
SteerBoots(c) ==
  LET r == call[c].run
  IN /\ call[c].at = "booting"
     /\ call' = [call EXCEPT ![c] = NoCall]
     /\ \/ /\ Hold(r, c)
           /\ inHand' = IF r \notin listed \/ BeingClosed(r) THEN inHand ELSE inHand \cup {c}
        \/ /\ session' = [session EXCEPT ![c] = "none"]
           /\ UNCHANGED <<handle, inHand>>
     /\ UNCHANGED <<status, listed, promise, pc, runOf, closing, down>>
     /\ UNCHANGED <<stopped, announced, overtaken>>

\* wait() awaits run.promise as it is now.
Wait(c, r) ==
  /\ SessionIsOn
  /\ call[c].at = "idle"
  /\ r \in listed /\ status[r] = "running"
  /\ call' = [call EXCEPT ![c] = [at |-> "waiting", run |-> r, on |-> promise[r]]]
  /\ UNCHANGED <<runVars, turnVars, closing, down, history>>

WaitReturns(c) ==
  /\ call[c].at = "waiting" /\ pc[call[c].on] = "done"
  /\ call' = [call EXCEPT ![c] = NoCall]
  /\ UNCHANGED <<runVars, turnVars, closing, down, history>>

\* The signal won the race.
WaitAborts(c) ==
  /\ call[c].at = "waiting"
  /\ call' = [call EXCEPT ![c] = NoCall]
  /\ UNCHANGED <<runVars, turnVars, closing, down, history>>

\* interrupt(): runner.cancel() aborts nothing while the session is being
\* created, and nothing but persistence follows it.
Interrupt(r) ==
  /\ SessionIsOn
  /\ r \in listed /\ status[r] = "running"
  /\ Stop({r})
  /\ UNCHANGED <<listed, promise, handle, turnVars, callVars>>
  /\ UNCHANGED <<announced, overtaken, inHand>>

-----------------------------------------------------------------------------
(* close() and closeAllChildRuns().                                        *)

\* close() as far as its first await: a running child is cancelled first.
Closing(r) ==
  [at |-> IF status[r] = "running" THEN "cancelling" ELSE "disposing", on |-> None]

Close(r) ==
  /\ SessionIsOn
  /\ r \in listed /\ closing["tool"][r].at = "idle"
  /\ closing' = [closing EXCEPT !["tool"][r] = Closing(r)]
  /\ \/ status[r] = "running" /\ Stop({r}) /\ session' = session
     \/ status[r] # "running" /\ Dispose({r}) /\ UNCHANGED <<status, stopped>>
  /\ Forsake({r})
  /\ UNCHANGED <<listed, promise, handle, pc, runOf, call, down, announced, overtaken>>

\* closeAllChildRuns(): close() on every run in the map.
Shutdown ==
  LET running == {r \in listed : status[r] = "running"}
  IN /\ down = "no"
     /\ down' = "closing"
     /\ closing' = [closing EXCEPT !["shutdown"] =
                     [r \in Runs |-> IF r \in listed THEN Closing(r) ELSE NoClose]]
     /\ Stop(running)
     /\ Dispose(listed \ running)
     /\ Forsake(listed)
     /\ UNCHANGED <<listed, promise, handle, pc, runOf, call, announced, overtaken>>

\* await runner.cancel(), then await run.promise, as it is by then.
CloseCancelled(k, r) ==
  /\ closing[k][r].at = "cancelling"
  /\ closing' = [closing EXCEPT ![k][r] = [at |-> "awaiting", on |-> promise[r]]]
  /\ UNCHANGED <<runVars, turnVars, call, down, history>>

\* FAULT: the run has to reach an outcome, and a stopped run has none.
CloseForOutcome(k, r) ==
  /\ closing[k][r].at = "awaiting" /\ status[r] \in {"completed", "failed"}
  /\ closing' = [closing EXCEPT ![k][r] = [at |-> "disposing", on |-> None]]
  /\ Dispose({r})
  /\ UNCHANGED <<runVars, pc, runOf, call, down, history>>

CloseDisposes(k, r) ==
  /\ closing[k][r].at = "awaiting" /\ pc[closing[k][r].on] = "done"
  /\ closing' = [closing EXCEPT ![k][r] = [at |-> "disposing", on |-> None]]
  /\ Dispose({r})
  /\ UNCHANGED <<runVars, pc, runOf, call, down, history>>

\* The runner drops its session and the run leaves the map.
CloseReturns(k, r) ==
  /\ closing[k][r].at = "disposing"
  /\ closing' = [closing EXCEPT ![k][r] = NoClose]
  /\ handle' = [handle EXCEPT ![r] = None]
  /\ listed' = listed \ {r}
  /\ UNCHANGED <<status, promise, turnVars, call, down, history>>

ShutdownReturns ==
  /\ down = "closing"
  /\ \A r \in Runs : closing["shutdown"][r].at = "idle"
  /\ down' = "done"
  /\ UNCHANGED <<runVars, turnVars, call, closing, history>>

-----------------------------------------------------------------------------
(* Continuations of a turn.                                                *)

\* FAULT: the outcome of a prompt is the status, whatever happened to the run.
AfterTurnFlat(r, succeeded) == IF succeeded THEN "completed" ELSE "failed"

\* The status a turn leaves: a success counts while the run is running, and
\* only an interrupt outlives a failure.
AfterTurn(r, succeeded) ==
  CASE succeeded /\ status[r] = "running" -> "completed"
    [] ~succeeded /\ status[r] # "interrupted" -> "failed"
    [] OTHER -> status[r]

\* As far as await persistRun(): queue a notice if there is an outcome to tell.
Settle(t, succeeded) ==
  LET outcome == AfterTurn(runOf[t], succeeded)
  IN /\ status' = [status EXCEPT ![runOf[t]] = outcome]
     /\ announced' = IF outcome \in {"completed", "failed"}
                     THEN announced \cup {t} ELSE announced
     /\ pc' = [pc EXCEPT ![t] = "persisting"]
     /\ UNCHANGED <<stopped, overtaken, inHand>>

\* The new session replaces whatever the runner holds, and is prompted at once
\* if it was prompt() that asked for it.
SessionCreated(t) ==
  /\ pc[t] \in Creating
  /\ Hold(runOf[t], t)
  /\ pc' = [pc EXCEPT ![t] = IF pc[t] = "creating" THEN "started" ELSE "prompting"]
  /\ UNCHANGED <<status, listed, promise, runOf, callVars, history>>

CreationFails(t) ==
  /\ pc[t] \in Creating
  /\ Settle(t, FALSE)
  /\ session' = [session EXCEPT ![t] = "none"]
  /\ UNCHANGED <<listed, promise, handle, runOf, callVars>>

\* runner.prompt(): start() once more, then prompt what the runner holds.
Prompt(t) ==
  /\ pc[t] = "started"
  /\ Boot(runOf[t], t, "recreating", "prompting")
  /\ UNCHANGED <<runVars, runOf, callVars, history>>

\* Without a session the messages cannot be read, which is an error too.
PromptSettles(t) ==
  /\ pc[t] = "prompting"
  /\ \E succeeded \in BOOLEAN :
       /\ handle[runOf[t]] = None => ~succeeded
       /\ Settle(t, succeeded)
  /\ UNCHANGED <<listed, promise, handle, runOf, session, callVars>>

Persisted(t) ==
  /\ pc[t] = "persisting"
  /\ pc' = [pc EXCEPT ![t] = "done"]
  /\ UNCHANGED <<runVars, runOf, session, callVars, history>>

-----------------------------------------------------------------------------
HostStep ==
  \/ Shutdown
  \/ \E r \in Runs : StartRun(r) \/ FollowUp(r) \/ Interrupt(r) \/ Close(r)
  \/ \E c \in Calls, r \in Runs : Steer(c, r) \/ Wait(c, r)
  \/ \E c \in Calls : WaitAborts(c)

CallStep(c) == SteerBoots(c) \/ WaitReturns(c)

CloseStep(k, r) ==
  CloseCancelled(k, r) \/ CloseDisposes(k, r) \/ CloseReturns(k, r)

TurnStep(t) ==
  SessionCreated(t) \/ CreationFails(t) \/ Prompt(t) \/ PromptSettles(t) \/ Persisted(t)

Next ==
  \/ HostStep \/ ShutdownReturns
  \/ \E c \in Calls : CallStep(c)
  \/ \E k \in Closers, r \in Runs : CloseStep(k, r)
  \/ \E t \in Turns : TurnStep(t)

Spec == Init /\ [][Next]_vars

\* Promises settle: sessions are created or fail, and prompts end.
Fairness ==
  /\ \A c \in Calls : WF_vars(CallStep(c))
  /\ \A k \in Closers, r \in Runs : WF_vars(CloseStep(k, r))
  /\ \A t \in Turns : WF_vars(TurnStep(t))
  /\ WF_vars(ShutdownReturns)

FairSpec == Spec /\ Fairness

-----------------------------------------------------------------------------
(* Properties, whatever is called when.                                    *)

TypeOK ==
  /\ status \in [Runs -> {"none", "running"} \cup Settled]
  /\ listed \in SUBSET Runs
  /\ promise \in [Runs -> Turns \cup {None}]
  /\ handle \in [Runs -> Turns \cup Calls \cup {None}]
  /\ pc \in [Turns -> InFlight \cup {"unused", "done"}]
  /\ runOf \in [Turns -> Runs \cup {None}]
  /\ session \in [Turns \cup Calls -> {"none", "creating", "live", "lost", "disposed"}]
  /\ call \in [Calls -> {NoCall} \cup [at : {"booting", "waiting"},
                                       run : Runs, on : Turns \cup {None}]]
  /\ closing \in [Closers -> [Runs ->
                   [at : {"idle", "cancelling", "awaiting", "disposing"},
                    on : Turns \cup {None}]]]
  /\ down \in {"no", "closing", "done"}
  /\ stopped \in SUBSET Turns /\ announced \in SUBSET Turns
  /\ overtaken \in SUBSET Turns /\ inHand \in SUBSET (Turns \cup Calls)

\* A run that says "running" has its latest turn still at work, so waiting for
\* run.promise is waiting for the outcome.
RunningIsBacked ==
  \A r \in Runs : status[r] = "running" => promise[r] \in WorkingOn(r)

\* A turn that was interrupted or closed is not announced: an intentional stop
\* never comes back as a completion or a failure, unless a message had started
\* the next turn of the run while the stopped one was still at work.
StoppedIsSilent == stopped \cap announced \subseteq overtaken

\* When closeAllChildRuns() returns, no child it had in hand works or has a
\* session left, save one that was lost because a message met a child without
\* a session.
ShutdownReleasesAll ==
  down = "done" =>
    \A s \in inHand :
      /\ s \in Turns => pc[s] \notin Working
      /\ session[s] # "live"
      /\ session[s] = "lost" => \E c \in Calls : session[c] # "none"

\* It does return: no close waits for a turn that cannot end.
ShutdownCompletes == []ShutdownReleasesAll /\ (down = "closing" ~> down = "done")

\* A message overtook a stopped turn of r: the contract forbids that, and says
\* no more of the run from then on, as of a closed one.
Overtook(r) == \E t \in overtaken : runOf[t] = r

Contract == INSTANCE AgentRunContract
  WITH status <- [r \in Runs |->
                   IF Overtook(r) \/ (status[r] # "none" /\ r \notin listed)
                   THEN "closed" ELSE status[r]],
       working <- [r \in Runs |-> Overtook(r) \/ WorkingOn(r) # {}]

\* This controller keeps the portable lifecycle contract that the in-process
\* one keeps, on every run up to the message that overtakes a stopped turn.
KeepsContract == Contract!Spec
=============================================================================
