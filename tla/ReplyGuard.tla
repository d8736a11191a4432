----------------------------- MODULE ReplyGuard -----------------------------
(*************************************************************************)
(* The channel reply guard (registerChannelTools with requireReply): a run *)
(* that answers a channel must deliver a final reply; a run that ends      *)
(* without one is sent back once and then reported as failed.              *)
(*************************************************************************)
EXTENDS PiTurn

VARIABLES
  origin,         \* resolveTarget() finds the bound conversation
  replyRequired, replied, corrected,
  answered,       \* history: a final reply since the last user message
  nudges,         \* history: corrective messages since the last user message
  failures        \* history: failures shown since before_agent_start

guardVars == <<origin, replyRequired, replied, corrected, answered, nudges, failures>>

GuardInit ==
  /\ origin \in BOOLEAN
  /\ replyRequired = FALSE /\ replied = FALSE /\ corrected = FALSE
  /\ answered = FALSE /\ nudges = 0 /\ failures = 0

\* before_agent_start.
Guarded ==
  /\ replyRequired' = origin
  /\ replied' = FALSE /\ corrected' = FALSE
  /\ answered' = FALSE /\ nudges' = 0 /\ failures' = 0
  /\ UNCHANGED origin

NewRequest == answered' = FALSE /\ nudges' = 0

\* FAULT: every message resets the guard, the corrective one too.
GuardMessageAny ==
  /\ MessageStarts
  /\ replied' = FALSE /\ corrected' = FALSE
  /\ IF cur = "user" THEN NewRequest ELSE UNCHANGED <<answered, nudges>>
  /\ UNCHANGED <<origin, replyRequired, failures>>

\* FAULT: only a prompt resets the guard, never a follow-up.
GuardMessageNever ==
  /\ MessageStarts
  /\ IF cur = "user" THEN NewRequest ELSE UNCHANGED <<answered, nudges>>
  /\ UNCHANGED <<origin, replyRequired, replied, corrected, failures>>

\* message_start: a user message opens a request of its own.
GuardMessage ==
  /\ MessageStarts
  /\ IF cur = "user"
     THEN replied' = FALSE /\ corrected' = FALSE /\ NewRequest
     ELSE UNCHANGED <<replied, corrected, answered, nudges>>
  /\ UNCHANGED <<origin, replyRequired, failures>>

\* The reply command: only a final reply that the adapter delivered counts.
Reply(final, delivered) ==
  /\ turn = "working" /\ origin /\ ~aborted
  /\ replied' = (replied \/ (final /\ delivered))
  /\ answered' = (answered \/ (final /\ delivered))
  /\ UNCHANGED <<origin, replyRequired, corrected, nudges, failures>>
  /\ UNCHANGED turnVars

\* agent_end.
Unanswered == replyRequired /\ ~replied /\ ~aborted /\ stop = "stop"

Correct ==
  /\ turn = "ended" /\ Unanswered /\ ~corrected
  /\ corrected' = TRUE /\ nudges' = nudges + 1
  /\ queue' = Append(queue, "corrective") /\ turn' = "settling"
  /\ UNCHANGED <<origin, replyRequired, replied, answered, failures, cur, aborted, stop>>

ReportFailure ==
  /\ turn = "ended" /\ Unanswered /\ corrected
  /\ replyRequired' = FALSE /\ failures' = failures + 1
  /\ turn' = "settling"
  /\ UNCHANGED <<origin, replied, corrected, answered, nudges>>
  /\ UNCHANGED <<queue, cur, aborted, stop>>

LetEnd ==
  /\ turn = "ended" /\ ~Unanswered
  /\ turn' = "settling"
  /\ UNCHANGED <<queue, cur, aborted, stop>> /\ UNCHANGED guardVars

-----------------------------------------------------------------------------
\* A request is sent back at most once and reported failed at most once, and
\* neither happens after a final reply was delivered to it.
NudgedOnce ==
  [][/\ nudges' > nudges => nudges = 0 /\ ~answered
     /\ failures' > failures => failures = 0 /\ nudges = 1 /\ ~answered]_guardVars

\* A run for a channel that ends normally has delivered a final reply to its
\* last request, or has shown the user that the delivery failed.
RequestsAreSettled ==
  turn = "idle" /\ stop = "stop" /\ origin => answered \/ failures > 0

=============================================================================
