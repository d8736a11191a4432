---------------------------- MODULE Interactions ----------------------------
(*************************************************************************)
(* One askUser() request of a tool: who decides it (the user in a dialog,  *)
(* the host on resume, or nobody), the dialogs it walks through, and the   *)
(* outcome the model is told.  A dialog resolves undefined when the user   *)
(* dismisses it, when it times out and when the turn is aborted; the code  *)
(* after it runs later, and the abort may come in between.                 *)
(*************************************************************************)
EXTENDS Naturals, FiniteSets

CONSTANTS
  Options,      \* the options of a request
  Typed         \* an answer the user types

ASSUME OptionsAssumption == IsFiniteSet(Options) /\ Typed \notin Options

VARIABLES
  request,      \* approval, choice, multiple, text, or empty: multiple, no option
  interactive,  \* the tool brings a dialog of its own
  channel,      \* child, automatic, tui, rpc, resume or nothing
  dialog,       \* the dialog awaited, or "none" before and "over" after
  value,        \* what it resolved to, or Open
  ticked,       \* the options marked so far
  signal,       \* the turn is aborted
  outcome,      \* what the tool call returns, or Pending
  meant,        \* history: what the user decided, if they did
  prompted      \* history: a dialog was opened

askVars == <<request, interactive, channel, dialog, value, ticked, signal, outcome, meant,
             prompted>>

Open == [is |-> "open"]
Undefined == [is |-> "undefined"]
Pending == [type |-> "pending"]
Aborted == [type |-> "aborted"]
Approved(feedback) == [type |-> "approved", feedback |-> feedback]
Revision(feedback) == [type |-> "revision_requested", feedback |-> feedback]
Declined == [type |-> "declined"]
Answered(answers) == [type |-> "answered", answers |-> answers]
AnsweredOrDeclined(answers) == IF answers = {} THEN Declined ELSE Answered(answers)

AskInit ==
  /\ request \in {"approval", "choice", "multiple", "text", "empty"}
  /\ interactive \in BOOLEAN
  /\ channel \in {"child", "automatic", "tui", "rpc", "resume", "nothing"}
  /\ dialog = "none" /\ value = Open /\ ticked = {} /\ signal = FALSE
  /\ outcome = Pending /\ meant = Pending /\ prompted = FALSE

settings == <<request, interactive, channel>>

\* finishedResult(), and an exception.
Finish(result) ==
  /\ outcome' = result /\ dialog' = "over" /\ value' = Open
  /\ UNCHANGED <<ticked, prompted>>

\* The next dialog is opened; one that is aborted already resolves at once.
OpenDialog(next) ==
  /\ dialog' = next /\ prompted' = TRUE
  /\ value' = IF signal THEN Undefined ELSE Open
  /\ UNCHANGED outcome

FirstDialog ==
  CASE request = "approval" -> "approve"
    [] request = "choice" -> "choose"
    [] request = "text" -> "ask"
    [] request = "multiple" -> IF channel = "tui" THEN "tick" ELSE "pick"

\* askUser(): a child session and the automatic switch decide for the user.
AskUser ==
  /\ dialog = "none"
  /\ CASE request = "empty" -> Finish([type |-> "error"])
       [] request # "empty" /\ channel \in {"child", "automatic"} ->
            Finish(IF request = "approval" THEN Approved(FALSE) ELSE Declined)
       [] request # "empty" /\ channel \in {"tui", "rpc"} ->
            OpenDialog(IF interactive THEN "tool" ELSE FirstDialog) /\ UNCHANGED ticked
       [] request # "empty" /\ channel = "resume" -> Finish([type |-> "awaiting_user"])
       [] request # "empty" /\ channel = "nothing" -> Finish([type |-> "unavailable"])
  /\ UNCHANGED <<settings, signal, meant>>

-----------------------------------------------------------------------------
\* The user, at the dialog that is open.  In the terminal's own list marks are
\* toggled inside the dialog; elsewhere each mark closes it and opens another.
Awaiting(dialogs) == dialog \in dialogs /\ value = Open

Resolve(v) == value' = v /\ UNCHANGED <<settings, dialog, ticked, signal, outcome, prompted>>
Toggle(o) == IF o \in ticked THEN ticked \ {o} ELSE ticked \cup {o}

UserApproves ==
  /\ Awaiting({"approve"})
  /\ Resolve([is |-> "approve"]) /\ meant' = Approved(FALSE)

UserWantsChanges ==
  /\ Awaiting({"approve"})
  /\ Resolve([is |-> "changes"]) /\ meant' = Revision(FALSE)

\* The tool's own dialog gives an outcome, or leaves the request to the walk.
UserDecides(decision) ==
  /\ Awaiting({"tool"})
  /\ Resolve([is |-> "outcome", outcome |-> decision]) /\ meant' = decision

UserChooses(o) ==
  /\ Awaiting({"choose"})
  /\ Resolve([is |-> "option", option |-> o]) /\ meant' = Answered({o})

UserPicks(o) ==
  /\ Awaiting({"pick"})
  /\ Resolve([is |-> "option", option |-> o]) /\ UNCHANGED meant

UserTicks(o) ==
  /\ Awaiting({"tick"})
  /\ ticked' = Toggle(o)
  /\ UNCHANGED <<settings, dialog, value, signal, outcome, meant, prompted>>

UserCompletes ==
  /\ Awaiting({"pick", "tick"})
  /\ Resolve([is |-> "complete"]) /\ meant' = AnsweredOrDeclined(ticked)

UserWantsOther ==
  /\ Awaiting({"choose", "pick", "tick"})
  /\ Resolve([is |-> "other"]) /\ UNCHANGED meant

UserTypes ==
  /\ Awaiting({"ask", "feedback", "other"})
  /\ Resolve([is |-> "text"])
  /\ meant' = IF dialog = "feedback" THEN Revision(TRUE)
              ELSE Answered(ticked \cup {Typed})

\* Nothing typed, Escape, or the dialog's time is up.
UserDismisses ==
  /\ Awaiting({"tool", "approve", "choose", "pick", "tick", "ask", "feedback", "other"})
  /\ Resolve(Undefined)
  /\ meant' = CASE dialog \in {"tool", "feedback"} -> meant
                [] dialog = "other" /\ channel = "tui" -> AnsweredOrDeclined(ticked)
                [] dialog = "other" /\ channel # "tui" /\ request = "multiple" -> meant
                [] OTHER -> Declined

\* The abort of the turn resolves the dialog that is open; one that the user
\* has just answered is settled, but its request is not yet.
Abort ==
  /\ ~signal /\ outcome = Pending
  /\ signal' = TRUE
  /\ value' = IF value = Open /\ dialog # "none" THEN Undefined ELSE value
  /\ UNCHANGED <<settings, dialog, ticked, outcome, meant, prompted>>

-----------------------------------------------------------------------------
\* The code after a dialog.
Resolved(which) == dialog = which /\ value # Open
Asked == UNCHANGED <<settings, signal, meant>>

ToolDialog ==
  /\ Resolved("tool") /\ Asked
  /\ CASE signal -> Finish(Aborted)
       [] ~signal /\ value.is = "outcome" -> Finish(value.outcome)
       [] ~signal /\ value.is = "undefined" -> OpenDialog(FirstDialog) /\ UNCHANGED ticked

Approval ==
  /\ Resolved("approve") /\ Asked
  /\ CASE signal -> Finish(Aborted)
       [] ~signal /\ value.is = "undefined" -> Finish(Declined)
       [] ~signal /\ value.is = "approve" -> Finish(Approved(FALSE))
       [] ~signal /\ value.is = "changes" -> OpenDialog("feedback") /\ UNCHANGED ticked

\* FAULT: no look at the signal after the second dialog.
FeedbackRegardless ==
  /\ Resolved("feedback") /\ Asked
  /\ Finish(Revision(value.is = "text"))

Feedback ==
  /\ Resolved("feedback") /\ Asked
  /\ Finish(IF signal THEN Aborted
            ELSE Revision(value.is = "text"))

Choice ==
  /\ Resolved("choose") /\ Asked
  /\ CASE signal -> Finish(Aborted)
       [] ~signal /\ value.is = "undefined" -> Finish(Declined)
       [] ~signal /\ value.is = "option" -> Finish(Answered({value.option}))
       [] ~signal /\ value.is = "other" -> OpenDialog("other") /\ UNCHANGED ticked

FreeText ==
  /\ Resolved("ask") /\ Asked
  /\ Finish(CASE signal -> Aborted
              [] ~signal /\ value.is = "text" -> Answered({Typed})
              [] OTHER -> Declined)

\* multiSelectFallback(): one select after another.
Pick ==
  /\ Resolved("pick") /\ Asked
  /\ CASE signal -> Finish(Aborted)
       [] ~signal /\ value.is = "undefined" -> Finish(Declined)
       [] ~signal /\ value.is = "complete" -> Finish(AnsweredOrDeclined(ticked))
       [] ~signal /\ value.is = "other" -> OpenDialog("other") /\ UNCHANGED ticked
       [] ~signal /\ value.is = "option" -> OpenDialog("pick") /\ ticked' = Toggle(value.option)

\* showMultiSelectTui(), settled once by a key or by the abort.
Tick ==
  /\ Resolved("tick") /\ Asked
  /\ CASE signal -> Finish(Aborted)
       [] ~signal /\ value.is = "undefined" -> Finish(Declined)
       [] ~signal /\ value.is = "complete" -> Finish(AnsweredOrDeclined(ticked))
       [] ~signal /\ value.is = "other" -> OpenDialog("other") /\ UNCHANGED ticked

\* The answer of the user's own, alone or beside the marks.
Other ==
  /\ Resolved("other") /\ Asked
  /\ CASE signal -> Finish(Aborted)
       [] ~signal /\ value.is = "text" -> Finish(Answered(ticked \cup {Typed}))
       [] ~signal /\ value.is # "text" /\ request = "choice" -> Finish(Declined)
       [] ~signal /\ value.is # "text" /\ request = "multiple" ->
            IF channel = "tui" THEN Finish(AnsweredOrDeclined(ticked))
            ELSE OpenDialog("pick") /\ UNCHANGED ticked

\* The host resumes a paused run with a response for what the user decided.
Responses(decision) ==
  CASE decision = Declined -> {[status |-> "cancelled"]}
    [] decision.type = "answered" ->
         {[status |-> "resolved", answers |-> decision.answers]}
           \cup {[status |-> "resolved", answer |-> a] :
                    a \in IF Cardinality(decision.answers) = 1 THEN decision.answers ELSE {}}
    [] OTHER -> {[status |-> "resolved", approved |-> decision.type = "approved",
                  feedback |-> decision.feedback]}

\* formatInteractionResume(): the envelope that replaces the paused result.
InteractionResume(response) ==
  CASE response.status = "cancelled" -> Declined
    [] response.status # "cancelled" /\ "answer" \in DOMAIN response -> Answered({response.answer})
    [] response.status # "cancelled" /\ "answers" \in DOMAIN response -> Answered(response.answers)
    [] response.status # "cancelled" /\ "approved" \in DOMAIN response ->
         IF response.approved THEN Approved(response.feedback) ELSE Revision(response.feedback)

Decisions ==
  {Declined} \cup {Answered(a) : a \in (SUBSET (Options \cup {Typed})) \ {{}}}
    \cup {Approved(f) : f \in BOOLEAN} \cup {Revision(f) : f \in BOOLEAN}

Resume ==
  /\ outcome.type = "awaiting_user"
  /\ \E decision \in Decisions : \E response \in Responses(decision) :
       meant' = decision /\ outcome' = InteractionResume(response)
  /\ UNCHANGED <<settings, dialog, value, ticked, signal, prompted>>

AskNext ==
  \/ AskUser \/ Abort
  \/ UserApproves \/ UserWantsChanges \/ UserCompletes \/ UserWantsOther
  \/ UserTypes \/ UserDismisses
  \/ \E o \in Options : UserChooses(o) \/ UserPicks(o) \/ UserTicks(o)
  \/ \E decision \in {Approved(TRUE), Declined} : UserDecides(decision)
  \/ ToolDialog \/ Approval \/ Feedback \/ Choice \/ FreeText \/ Pick \/ Tick \/ Other
  \/ Resume

-----------------------------------------------------------------------------
\* The outcome the model reads is what the user decided, in a dialog or, once
\* the run is resumed, with the host; no outcome of a dialog follows an abort;
\* and the request of a child session prompts nobody.
OutcomeIsTheUsers ==
  /\ outcome.type \in {"approved", "revision_requested", "answered", "declined", "received"} =>
       channel \in {"child", "automatic"} \/ (outcome = meant /\ (prompted => ~signal))
  /\ channel \in {"child", "automatic"} => ~prompted
  /\ outcome = Aborted => signal

=============================================================================
