------------------------------ MODULE PiSession ------------------------------
(*************************************************************************)
(* A Pi session with a Recipe: the launch, reload and shutdown of the      *)
(* Recipe with the agent loop and the channel reply guard around it, and   *)
(* the commands of one channel and one request to the user.  What a turn   *)
(* does with the channel or the user does not touch the launch: "scene"    *)
(* says which of them a behaviour exercises.                               *)
(*************************************************************************)
EXTENDS RecipeLaunch, ReplyGuard, ChannelThread, Interactions

VARIABLE scene

launch == <<launchVars, turnVars, guardVars>>
vars == <<scene, launch, threadVars, askVars>>

Init ==
  /\ scene \in {"launch", "thread", "ask"}
  /\ LaunchInit /\ TurnInit /\ GuardInit /\ ThreadInit /\ AskInit
  /\ scene # "launch" => disk = "absent" /\ ~origin
  /\ scene # "thread" => begun = 1
  /\ scene # "ask" => request = "empty" /\ channel = "nothing" /\ ~interactive

-----------------------------------------------------------------------------
\* What the extensions do at the events of the agent loop.
\* Prompts are taken at any time but while a session_start or a
\* session_shutdown is handled.
AcceptsPrompts == at = "none" \/ Reloading

\* before_agent_start, of the channel too once its connector is installed.
Prompt ==
  /\ AcceptsPrompts
  /\ PromptSent /\ LookUp
  /\ IF installed THEN Guarded ELSE UNCHANGED guardVars

\* agent_start.
AgentStart ==
  /\ LoopStarts(sessionConfigurationError)
  /\ UNCHANGED <<launchVars, guardVars>>

\* The channels tool is active in a session that was configured.
ReplyTool ==
  /\ tools = model /\ tools # Host
  /\ \E final, delivered \in BOOLEAN : Reply(final, delivered)
  /\ UNCHANGED launchVars

TurnStep ==
  \/ Prompt \/ AgentStart \/ ReplyTool
  \/ (GuardMessage \/ Correct \/ ReportFailure \/ LetEnd) /\ UNCHANGED launchVars
  \/ (UserAborts \/ GoesOn \/ FollowUp \/ Settles) /\ UNCHANGED <<launchVars, guardVars>>
  \/ \E reason \in {"stop", "error", "aborted"} :
       Stops(reason) /\ UNCHANGED <<launchVars, guardVars>>

\* Pi starts, resumes or ends a session, and reloads it, when no turn runs;
\* the /recipe command is taken at any time.
LaunchStep ==
  /\ \/ turn = "idle" /\ (SessionStart \/ ShutdownBegins)
     \/ LoadRecipeExtensions \/ ConfigureMcp \/ ConfigurePrivateMcp \/ ConfigureSession
     \/ LateMcpSession
     \/ at = "none" /\ LookUp
     \/ ReloadBegins \/ ReloadClosesChildren \/ ReloadClosesRuntime
     \/ ShutdownClosesChildren \/ ShutdownClosesRuntime \/ ShutdownRestoresEnv \/ ShutdownRejects
     \/ NewInstance \/ EditRecipe
  /\ UNCHANGED <<turnVars, guardVars>>

Next ==
  /\ UNCHANGED scene
  /\ \/ scene = "launch" /\ (TurnStep \/ LaunchStep) /\ UNCHANGED <<threadVars, askVars>>
     \/ scene = "thread" /\ ThreadNext /\ UNCHANGED <<launch, askVars>>
     \/ scene = "ask" /\ AskNext /\ UNCHANGED <<launch, threadVars>>

Spec == Init /\ [][Next]_vars

-----------------------------------------------------------------------------
\* A prompt that a turn works on goes to the model of the Recipe, with the
\* tools of that Recipe or none, and its payload policy unless a reload has
\* dropped the state: a session that could not be set up never answers.
NoForeignModel ==
  turn = "working" /\ ~aborted =>
    /\ model \in Versions /\ tools \in {model, Nothing}
    /\ Reloading \/ state.version = model

=============================================================================
