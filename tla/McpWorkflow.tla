---------------------------- MODULE McpWorkflow ----------------------------
(***************************************************************************)
(* One `mcp run`: runMcpJavaScript(), createTools() and ToolCallQueue of   *)
(* src/src/mcp-cli-core.ts, in the worker that executeRun() of             *)
(* src/src/mcp-daemon.ts gives it ("daemon") or in the command's own       *)
(* process ("cli").                                                        *)
(*                                                                         *)
(* The script is any JavaScript: it calls tools when it likes, also from   *)
(* parts that nobody awaits and that go on after its main part is over.    *)
(* An action is what one event loop does in one turn; a call that was      *)
(* given a slot goes on in the same turn (Turn).                           *)
(***************************************************************************)
EXTENDS Integers, Sequences, FiniteSets

CONSTANTS
  Calls,  \* the tool calls a script may make
  Limit   \* maxConcurrentCalls

ASSUME LimitAssumption == Limit \in Nat \ {0}

VARIABLES
  place,      \* where the script runs: "daemon" or "cli"
  phase,      \* how far the request is
  worker,     \* what runs the script: "none", "alive" or "gone"
  aborted,    \* the request's controller was aborted
  exit,       \* the exit code that was told, or None
  frozen,     \* the script does not yield
  late,       \* the deadline of the workflow has passed
  error,      \* how the main part of the script ended, then how the workflow did
  unsafe,     \* unsafeAtExit
  counted,    \* calls made when the main part ended
  stage,      \* of each call
  observed,   \* calls with a handler
  outcome,    \* of each call
  reached,    \* calls the server was asked to run
  remote,     \* calls the server is running
  waiting,    \* the queue of ToolCallQueue
  active,     \* its count of slots taken
  cancelled   \* cancel() was called

hostVars == <<place, phase, worker, aborted, exit>>
scriptVars == <<frozen, late, error, unsafe, counted>>
callVars == <<stage, observed, outcome, reached, remote>>
queueVars == <<waiting, active, cancelled>>
workflowVars == <<hostVars, scriptVars, callVars, queueVars>>

None == -1

InitAs(where, how) ==
  /\ place = where /\ phase = how
  /\ worker = IF where = "cli" THEN "alive" ELSE "none"
  /\ aborted = FALSE /\ exit = None
  /\ frozen = FALSE /\ late = FALSE
  /\ error = "none" /\ unsafe = {} /\ counted = {}
  /\ stage = [c \in Calls |-> "unused"]
  /\ outcome = [c \in Calls |-> "pending"]
  /\ observed = {} /\ reached = {} /\ remote = {}
  /\ waiting = <<>> /\ active = 0 /\ cancelled = FALSE

Made == {c \in Calls : stage[c] # "unused"}
Pending(c) == outcome[c] = "pending"

\* The loop that runs the script takes its next turn.
Runs == worker = "alive" /\ ~frozen
Turn == Runs /\ \A c \in Calls : stage[c] # "granted"

-----------------------------------------------------------------------------
(* Tool calls: createTools() and ToolCallQueue                             *)

\* The script calls a tool; one that the session policy, the limit on calls
\* or its arguments forbid throws instead, which ScriptEnds covers.
Issue(c) ==
  /\ Turn /\ phase \in {"script", "settling", "closing", "ended", "cut", "lost"}
  /\ stage[c] = "unused"
  /\ \E handled \in SUBSET {c} : observed' = observed \cup handled
  /\ \/ /\ cancelled
        /\ stage' = [stage EXCEPT ![c] = "settled"]
        /\ outcome' = [outcome EXCEPT ![c] = "not_started"]
        /\ UNCHANGED queueVars
     \/ /\ ~cancelled /\ active < Limit
        /\ active' = active + 1
        /\ stage' = [stage EXCEPT ![c] = "granted"]
        /\ UNCHANGED <<outcome, waiting, cancelled>>
     \/ /\ ~cancelled /\ active >= Limit
        /\ waiting' = Append(waiting, c)
        /\ stage' = [stage EXCEPT ![c] = "waiting"]
        /\ UNCHANGED <<outcome, active, cancelled>>
  /\ UNCHANGED <<hostVars, scriptVars, reached, remote>>

\* FAULT: a slot that is released is free, whoever waits.
FinishAlone(c, how) ==
  /\ outcome' = [outcome EXCEPT ![c] = how]
  /\ stage' = [stage EXCEPT ![c] = "settled"]
  /\ active' = active - 1
  /\ UNCHANGED <<waiting, cancelled>>

\* The call settles and its slot goes to the call that waits longest.
Finish(c, how) ==
  /\ outcome' = [outcome EXCEPT ![c] = how]
  /\ IF waiting # <<>> /\ ~cancelled
     THEN /\ stage' = [stage EXCEPT ![c] = "settled", ![Head(waiting)] = "granted"]
          /\ waiting' = Tail(waiting)
          /\ UNCHANGED active
     ELSE /\ stage' = [stage EXCEPT ![c] = "settled"]
          /\ active' = active - 1
          /\ UNCHANGED waiting
  /\ UNCHANGED cancelled

\* acquire() resolved: a call that has no time left is not started.
Start(c) ==
  /\ Runs /\ stage[c] = "granted"
  /\ IF late
     THEN Finish(c, "not_started")
     ELSE stage' = [stage EXCEPT ![c] = "sent"] /\ UNCHANGED <<outcome, queueVars>>
  /\ UNCHANGED <<hostVars, scriptVars, observed, reached, remote>>

\* The request leaves the process: the transport writes it, or the toolCall
\* message of the worker is handled, also one it left when it was terminated.
Reach(c) ==
  /\ stage[c] = "sent" /\ c \notin reached /\ (worker = "alive" \/ place = "daemon")
  /\ reached' = reached \cup {c} /\ remote' = remote \cup {c}
  /\ UNCHANGED <<hostVars, scriptVars, queueVars, stage, observed, outcome>>

\* The server answers, or the call's timeout fires in the runtime.
RemoteEnds(c) ==
  /\ c \in remote
  /\ remote' = remote \ {c}
  /\ UNCHANGED <<hostVars, scriptVars, queueVars, stage, observed, outcome, reached>>

\* The answer is back: a result, an error, or a timeout that says it is one.
Settle(c) ==
  /\ Turn /\ stage[c] = "sent" /\ c \in reached \ remote
  /\ Finish(c, "answered")
  /\ UNCHANGED <<hostVars, scriptVars, observed, reached, remote>>

-----------------------------------------------------------------------------
(* The workflow: runMcpJavaScript() and runCode()                          *)

Freeze == Turn /\ phase = "script" /\ frozen' = TRUE
          /\ UNCHANGED <<hostVars, callVars, queueVars, late, error, unsafe, counted>>

DeadlinePasses ==
  /\ phase \in {"script", "settling"} /\ ~late
  /\ late' = TRUE
  /\ UNCHANGED <<hostVars, callVars, queueVars, frozen, error, unsafe, counted>>

Unawaited(c) == c \notin observed \/ Pending(c)

\* What is thrown when calls were unsafe, after the wait for them.
Judge(calls, how) ==
  /\ error' = IF how = "tool" /\ ~\E c \in calls : Unawaited(c) THEN "tool" ELSE "usage"
  /\ outcome' = [c \in Calls |-> IF c \in calls /\ Pending(c) THEN "unknown" ELSE outcome[c]]
  /\ unsafe' = {} /\ phase' = "closing"

\* FAULT: a call with a handler counts as awaited.
ScriptEndsTrusting(how) ==
  LET calls == Made \ observed IN
  /\ Turn /\ phase = "script"
  /\ counted' = Made
  /\ \/ calls = {} /\ error' = how /\ phase' = "closing" /\ UNCHANGED <<outcome, unsafe>>
     \/ calls # {} /\ ~late /\ error' = how /\ unsafe' = calls /\ phase' = "settling"
        /\ UNCHANGED outcome
     \/ calls # {} /\ late /\ Judge(calls, how)
  /\ UNCHANGED <<place, worker, aborted, exit, frozen, late, stage, observed, reached, remote,
                 queueVars>>

\* The main part of the script returns or throws: a tool's error, a usage
\* error or its own.  Past the deadline there is no time to wait for calls.
ScriptEnds(how) ==
  LET calls == {c \in Made : Unawaited(c)} IN
  /\ Turn /\ phase = "script"
  /\ counted' = Made
  /\ \/ calls = {} /\ error' = how /\ phase' = "closing" /\ UNCHANGED <<outcome, unsafe>>
     \/ calls # {} /\ ~late /\ error' = how /\ unsafe' = calls /\ phase' = "settling"
        /\ UNCHANGED outcome
     \/ calls # {} /\ late /\ Judge(calls, how)
  /\ UNCHANGED <<place, worker, aborted, exit, frozen, late, stage, observed, reached, remote,
                 queueVars>>

\* Those calls settled, or 15 seconds or the rest of the time went by.
SettleEnds ==
  /\ Turn /\ phase = "settling"
  /\ Judge(unsafe, error)
  /\ UNCHANGED <<place, worker, aborted, exit, frozen, late, counted, stage,
                 observed, reached, remote, queueVars>>

\* FAULT: what the deadline cut off counts as not started.
TimeoutForAll ==
  /\ Turn /\ late /\ phase = "script"
  /\ cancelled' = TRUE /\ waiting' = <<>>
  /\ stage' = [c \in Calls |-> IF stage[c] = "waiting" THEN "settled" ELSE stage[c]]
  /\ outcome' = [c \in Calls |-> IF c \in Made /\ Pending(c) THEN "not_started" ELSE outcome[c]]
  /\ error' = "timeout" /\ counted' = Made /\ phase' = "closing"
  /\ UNCHANGED <<place, worker, aborted, exit, frozen, late, unsafe, observed, reached,
                 remote, active>>

\* The timer wins the race: calls in the queue are rejected, the others are
\* cut off.  The script is not stopped.
Timeout ==
  /\ Turn /\ late /\ phase = "script"
  /\ cancelled' = TRUE /\ waiting' = <<>>
  /\ stage' = [c \in Calls |-> IF stage[c] = "waiting" THEN "settled" ELSE stage[c]]
  /\ outcome' = [c \in Calls |->
       CASE stage[c] = "waiting" -> "not_started"
         [] stage[c] = "sent" /\ Pending(c) -> "unknown"
         [] OTHER -> outcome[c]]
  /\ error' = "timeout" /\ counted' = Made /\ phase' = "closing"
  /\ UNCHANGED <<place, worker, aborted, exit, frozen, late, unsafe, observed, reached,
                 remote, active>>

Code(how) == CASE how = "returned" -> 0 [] how = "usage" -> 2 [] OTHER -> 1

\* A runtime of its own is closed, and what it was doing torn down; a close
\* that fails is told when nothing else failed.  The daemon's is shared.
Close ==
  /\ Turn /\ phase = "closing"
  /\ \/ UNCHANGED error
     \/ place = "cli" /\ error = "returned" /\ error' = "failed"
  /\ phase' = "ended"
  /\ IF place = "cli" THEN exit' = Code(error') /\ remote' = {} ELSE UNCHANGED <<exit, remote>>
  /\ UNCHANGED <<place, worker, aborted, frozen, late, unsafe, counted, stage, observed,
                 outcome, reached, queueVars>>

\* FAULT: the hard limit is a timer of the thread that runs the script.
KillPolite ==
  /\ Turn /\ late /\ phase # "ended"
  /\ worker' = "gone"
  /\ exit' = IF place = "cli" THEN 137 ELSE exit
  /\ UNCHANGED <<place, phase, aborted, scriptVars, callVars, queueVars>>

\* Two seconds past the deadline: the watchdog of the process, which is
\* stopped when the workflow has ended, or the daemon's hard timeout.
Kill ==
  /\ worker = "alive" /\ late /\ (place = "cli" => phase # "ended")
  /\ worker' = "gone"
  /\ exit' = IF place = "cli" THEN 137 ELSE exit
  /\ UNCHANGED <<place, phase, aborted, scriptVars, callVars, queueVars>>

\* A process of its own ends when nothing of the script is left.
ProcessEnds ==
  /\ place = "cli" /\ phase = "ended" /\ Turn
  /\ worker' = "gone"
  /\ UNCHANGED <<place, phase, aborted, exit, scriptVars, callVars, queueVars>>

-----------------------------------------------------------------------------
(* The daemon: executeRequest() and executeRun()                           *)

Respond(code) == exit' = code /\ UNCHANGED <<place, aborted, scriptVars, callVars, queueVars>>

\* joinCatalogPreload() is over.
Joined ==
  /\ phase = "joining"
  /\ \/ aborted /\ phase' = "ended" /\ Respond(130)
     \/ ~aborted /\ phase' = "opening" /\ Respond(None)
  /\ UNCHANGED worker

\* runtime() settles.  An abort that came meanwhile is not looked at, and
\* nothing listens for it: the listener is added to a signal already aborted.
Opened ==
  /\ phase = "opening"
  /\ \/ phase' = "ended" /\ Respond(1) /\ UNCHANGED worker
     \/ phase' = "script" /\ worker' = "alive" /\ Respond(None)

\* The "complete" message, posted before the worker is terminated.
Complete ==
  /\ place = "daemon" /\ phase = "ended" /\ error # "none" /\ exit = None
  /\ worker' = "gone"
  /\ Respond(Code(error))
  /\ UNCHANGED phase

\* The exit event of a worker that did not complete.
WorkerExits ==
  /\ place = "daemon" /\ worker = "gone" /\ exit = None
  /\ phase' = "cut"
  /\ Respond(IF aborted THEN 130 ELSE 1)
  /\ UNCHANGED worker

\* A cancel request, the end of the connection or of the daemon; a signal
\* ends a process of its own.
Abort ==
  /\ phase # "none" /\ exit = None /\ ~aborted
  /\ aborted' = TRUE
  /\ worker' = IF worker = "alive" THEN "gone" ELSE worker
  /\ exit' = IF place = "cli" THEN 130 ELSE exit
  /\ UNCHANGED <<place, phase, scriptVars, callVars, queueVars>>

-----------------------------------------------------------------------------
Script ==
  \/ \E c \in Calls : Issue(c)
  \/ \E how \in {"returned", "tool", "usage", "failed"} : ScriptEnds(how)
  \/ Freeze \/ ProcessEnds

Progress ==
  \/ \E c \in Calls : Start(c) \/ Reach(c) \/ RemoteEnds(c) \/ Settle(c)
  \/ SettleEnds \/ Timeout \/ Close \/ Joined \/ Opened \/ Complete \/ WorkerExits

-----------------------------------------------------------------------------
\* The limit on concurrent calls is kept and no slot idles: active counts the
\* calls that hold one, and calls wait only while all slots are taken.
Holding == {c \in Calls : stage[c] \in {"granted", "sent"}}

SlotsAreKept ==
  /\ active = Cardinality(Holding) /\ active <= Limit
  /\ waiting # <<>> => active = Limit

\* "not_started" is true: such a call did not reach the server and never will,
\* so that it can be made again.
NotStartedIsTrue == \A c \in reached : outcome[c] # "not_started"

\* A workflow that ends well, or with the error of a tool alone, cuts nothing
\* off: each call its script had made was settled.
NothingIsCutOff ==
  phase \in {"closing", "ended"} /\ error \in {"returned", "tool"} =>
    \A c \in counted : stage[c] = "settled"
=============================================================================
