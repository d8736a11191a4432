------------------------------ MODULE PiTurn ------------------------------
(*************************************************************************)
(* Pi's agent loop as its extensions see it (external: Pi itself is a      *)
(* dependency).  A prompt fires before_agent_start once; the loop then     *)
(* fires agent_start, message_start for each message it takes up and       *)
(* agent_end when the model stops.  A message queued as a follow-up is     *)
(* taken up by the running loop, or, when it was queued while agent_end    *)
(* was handled, by a new loop that starts without before_agent_start.      *)
(*************************************************************************)
EXTENDS Naturals, Sequences

CONSTANT MaxQueued        \* bound: follow-ups waiting at once

VARIABLES
  turn,       \* idle, starting, message (to be taken up), working, ended
  queue,      \* follow-ups: "user" or "corrective" (a custom message)
  cur,        \* the message at work
  aborted,    \* ctx.signal.aborted
  stop        \* the stop reason of the last assistant message

turnVars == <<turn, queue, cur, aborted, stop>>

TurnInit ==
  /\ turn = "idle" /\ queue = <<>> /\ cur = "none"
  /\ aborted = FALSE /\ stop = "none"

\* A user prompt of an idle session; before_agent_start is handled.
PromptSent ==
  /\ turn = "idle"
  /\ turn' = "starting" /\ cur' = "user" /\ queue' = <<>>
  /\ aborted' = FALSE /\ stop' = "none"

\* agent_start; abort: a handler called ctx.abort().
LoopStarts(abort) ==
  /\ turn = "starting"
  /\ turn' = "message" /\ aborted' = (aborted \/ abort)
  /\ UNCHANGED <<queue, cur, stop>>

MessageStarts ==
  /\ turn = "message" /\ turn' = "working"
  /\ UNCHANGED <<queue, cur, aborted, stop>>

UserAborts ==
  /\ turn \in {"starting", "message", "working"} /\ ~aborted
  /\ aborted' = TRUE
  /\ UNCHANGED <<turn, queue, cur, stop>>

\* The model stops and a follow-up waits: the loop goes on with it.
GoesOn ==
  /\ turn = "working" /\ ~aborted /\ queue /= <<>>
  /\ turn' = "message" /\ cur' = Head(queue) /\ queue' = Tail(queue)
  /\ UNCHANGED <<aborted, stop>>

\* The loop ends; agent_end is handled next.
Stops(reason) ==
  /\ turn = "working"
  /\ (reason = "aborted") <=> aborted
  /\ reason = "stop" => queue = <<>>
  /\ turn' = "ended" /\ stop' = reason
  /\ UNCHANGED <<queue, cur, aborted>>

\* A user's follow-up while the session is busy.
FollowUp ==
  /\ turn /= "idle" /\ Len(queue) < MaxQueued
  /\ queue' = Append(queue, "user")
  /\ UNCHANGED <<turn, cur, aborted, stop>>

\* After agent_end: a message queued meanwhile starts a loop of its own.
Settles ==
  /\ turn = "settling"
  /\ IF queue /= <<>> /\ stop = "stop"
     THEN turn' = "starting" /\ cur' = Head(queue) /\ queue' = Tail(queue)
     ELSE turn' = "idle" /\ cur' = "none" /\ queue' = <<>>
  /\ UNCHANGED <<aborted, stop>>

===========================================================================
