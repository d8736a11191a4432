---------------------------- MODULE RecipeLaunch ----------------------------
(*************************************************************************)
(* A Recipe session of Pi, as createRecipesExtension() sets it up, reloads *)
(* it and shuts it down: the launch state, the session's model and tools,  *)
(* the private MCP runtime and the process environment.  An action is the  *)
(* code of one handler between two awaits.                                 *)
(*************************************************************************)
EXTENDS Naturals

CONSTANTS
  Versions,     \* versions of the Recipe on disk
  McpMode,      \* what the root agent of each says of MCP: "cli", "tools" (a
                \* private runtime), or "bare" (tools, and no server selected)
  MaxStarts,    \* bound: session_start events
  MaxReloads,   \* bound: instances of the extension after the first
  MaxEdits      \* bound: edits of the Recipe's folder

ASSUME VersionsAssumption ==
  /\ Versions \cap {"bad", "absent", "none", "host"} = {}
  /\ McpMode \in [Versions -> {"cli", "tools", "bare"}]

VARIABLES
  disk,         \* the Recipe's folder: a version, "bad" or "absent"
  state,        \* the launch state, or NoState
  sessionConfigurationError,
  model,        \* the active model: a version's, or Host
  tools,        \* the active tools: a version's, Host or Nothing
  agentEnv,     \* PI_RECIPE_DIR and PI_AGENT_NAME: the user's or "resolved"
  inputs,       \* what this instance captured of them
  mcporterEnv,  \* MCPORTER_CONFIG: the user's, "session" or "none"
  lateWrites,   \* materializeMcpSession() calls that go on after the other half
                \* of their Promise.all rejected, and will set MCPORTER_CONFIG
  installed,    \* this instance's runner has the Recipe's extensions
  runtimes,     \* private MCP runtimes alive
  at,           \* the await of the handler under way, or "none", or "gone"
  quitting,     \* the session_shutdown under way is the last one
  starts, reloads, edits,
  cli,          \* history: a configureMcp() in cli mode set MCPORTER_CONFIG,
                \* or left a call behind that will
  spoiled       \* history: what a close that rejected did not give back, and
                \* what a configureMcp() that failed, or the one after it, lost

launchVars == <<disk, state, sessionConfigurationError, model, tools, agentEnv, inputs, mcporterEnv,
                lateWrites, cli, installed, runtimes, at, quitting, starts, reloads, edits, spoiled>>
session == <<sessionConfigurationError, model, tools>>
world == <<disk, starts, reloads, edits>>
mcporter == <<mcporterEnv, lateWrites, cli>>
environment == <<agentEnv, inputs, mcporter, installed, runtimes>>

Host == "host"
Nothing == "none"
NoState == [version |-> "none", extensions |-> "none", mcpConfigured |-> FALSE, private |-> FALSE,
            ambient |-> "none", configured |-> FALSE]

LaunchInit ==
  /\ disk \in Versions \cup {"bad", "absent"}
  /\ state = NoState /\ sessionConfigurationError = FALSE
  /\ model = Host /\ tools = Host
  /\ agentEnv = "user" /\ inputs = "user" /\ mcporterEnv = "user"
  /\ lateWrites = 0 /\ cli = FALSE /\ runtimes = 0 /\ installed = FALSE /\ at = "new" /\ quitting = FALSE
  /\ starts = 0 /\ reloads = 0 /\ edits = 0 /\ spoiled = {}

\* failRecipeSession(), and the same lines of configureMcp()'s caller.
FailSession == sessionConfigurationError' = TRUE /\ tools' = Nothing

-----------------------------------------------------------------------------
\* The folder must exist even for a state that is kept; a new state is
\* resolved from it, exports what it chose and forgets nothing else.
Loadable == disk # "absent" /\ (state = NoState => disk # "bad")

Loaded == IF state = NoState THEN [NoState EXCEPT !.version = disk] ELSE state

\* FAULT: a load that succeeds takes the error of an earlier one back.
SafeLoadStateForgiving ==
  IF Loadable
  THEN /\ state' = Loaded /\ agentEnv' = IF state = NoState THEN "resolved" ELSE agentEnv
       /\ sessionConfigurationError' = FALSE /\ UNCHANGED tools
  ELSE FailSession /\ UNCHANGED <<state, agentEnv>>

\* safeLoadState(): loadState(), whose failure blocks the session.
SafeLoadState ==
  IF Loadable
  THEN /\ state' = Loaded /\ agentEnv' = IF state = NoState THEN "resolved" ELSE agentEnv
       /\ UNCHANGED <<sessionConfigurationError, tools>>
  ELSE FailSession /\ UNCHANGED <<state, agentEnv>>

\* before_agent_start, resources_discover and /recipe only look the state up.
LookUp == SafeLoadState /\ UNCHANGED <<world, model, inputs, mcporter, installed, runtimes, at,
                                      quitting, spoiled>>

-----------------------------------------------------------------------------
\* session_start: Pi starts, resumes or reloads a session, with the model and
\* the tools that session has in Pi.
SessionStart ==
  /\ at \in {"none", "new"} /\ starts < MaxStarts
  /\ starts' = starts + 1
  /\ IF Loadable
     THEN /\ state' = [Loaded EXCEPT !.configured = FALSE] /\ at' = "extensions"
          /\ agentEnv' = IF state = NoState THEN "resolved" ELSE agentEnv
          /\ tools' = Host /\ UNCHANGED sessionConfigurationError
     ELSE FailSession /\ at' = "none" /\ UNCHANGED <<state, agentEnv>>
  /\ model' \in {model, Host}
  /\ UNCHANGED <<disk, reloads, edits, inputs, installed, mcporter, runtimes,
                 quitting, spoiled>>

\* loadRecipeExtensions(): the factories run once for a state, and a closure
\* that failed half-way stays failed.
LoadRecipeExtensions ==
  /\ at = "extensions"
  /\ \/ /\ state.extensions # "failed"
        /\ state' = [state EXCEPT !.extensions = "loaded"] /\ at' = "mcp"
        /\ UNCHANGED <<sessionConfigurationError, tools>>
     \/ /\ state.extensions # "loaded"
        /\ state' = [state EXCEPT !.extensions = "failed"] /\ at' = "none"
        /\ FailSession
  /\ installed' = TRUE
  /\ UNCHANGED <<world, agentEnv, inputs, mcporter, runtimes, model, quitting, spoiled>>

\* cli mode: materializeSessionMcpCli() and materializeMcpSession() at a time,
\* or clearMcpSession() when no server is selected; MCPORTER_CONFIG is set last.
\* When one of the two rejects the other has ended, never will, or goes on.
ConfigureCli ==
  /\ McpMode[state.version] = "cli"
  /\ \/ /\ state' = [state EXCEPT !.mcpConfigured = TRUE] /\ at' = "session"
        /\ mcporterEnv' = "session" /\ cli' = TRUE
        /\ UNCHANGED <<sessionConfigurationError, tools, lateWrites>>
     \/ /\ FailSession /\ at' = "none" /\ UNCHANGED state
        /\ \/ UNCHANGED mcporter
           \/ mcporterEnv' = "session" /\ cli' = TRUE /\ UNCHANGED lateWrites
           \/ lateWrites' = lateWrites + 1 /\ cli' = TRUE /\ UNCHANGED mcporterEnv
  /\ UNCHANGED <<runtimes, spoiled>>

\* What a call that was left behind does in the end.
LateMcpSession ==
  /\ lateWrites > 0 /\ lateWrites' = lateWrites - 1 /\ mcporterEnv' = "session"
  /\ UNCHANGED <<world, state, session, agentEnv, inputs, cli, installed, runtimes, at, quitting,
                 spoiled>>

\* clearSessionMcpCli() takes MCPORTER_CONFIG away, and only once it has also
\* removed the files is the value noted, over an earlier one.
Cleared == [state EXCEPT !.ambient = mcporterEnv]
LostByClearing == IF state.ambient # "none" THEN {"mcporter"} ELSE {}

\* tools mode: clear, then createIsolatedMcpEnvironment().
ConfigureTools ==
  /\ McpMode[state.version] \in {"tools", "bare"}
  /\ \/ \* the daemon does not stop
        /\ FailSession /\ at' = "none" /\ UNCHANGED <<state, mcporterEnv, runtimes, spoiled>>
     \/ \* a file cannot be removed
        /\ FailSession /\ at' = "none" /\ mcporterEnv' = "none"
        /\ spoiled' = IF mcporterEnv # "none" /\ state.ambient = "none"
                      THEN spoiled \cup {"mcporter"} ELSE spoiled
        /\ UNCHANGED <<state, runtimes>>
     \/ \* no private runtime is needed
        /\ McpMode[state.version] = "bare"
        /\ state' = [Cleared EXCEPT !.mcpConfigured = TRUE] /\ at' = "session"
        /\ mcporterEnv' = "none" /\ spoiled' = spoiled \cup LostByClearing
        /\ UNCHANGED <<sessionConfigurationError, tools, runtimes>>
     \/ \* its directory cannot be made
        /\ McpMode[state.version] = "tools"
        /\ FailSession /\ at' = "none" /\ state' = Cleared
        /\ mcporterEnv' = "none" /\ spoiled' = spoiled \cup LostByClearing
        /\ UNCHANGED runtimes
     \/ /\ McpMode[state.version] = "tools"
        /\ state' = [Cleared EXCEPT !.private = TRUE] /\ at' = "private"
        /\ mcporterEnv' = "none" /\ runtimes' = runtimes + 1
        /\ spoiled' = spoiled \cup LostByClearing \cup IF state.private THEN {"runtime"} ELSE {}
        /\ UNCHANGED <<sessionConfigurationError, tools>>
  /\ UNCHANGED <<lateWrites, cli>>

\* configureMcp(), up to its outcome where nothing private was created.
ConfigureMcp ==
  /\ at = "mcp"
  /\ \/ state.mcpConfigured /\ at' = "session"
        /\ UNCHANGED <<state, sessionConfigurationError, tools, mcporter, runtimes, spoiled>>
     \/ ~state.mcpConfigured /\ (ConfigureCli \/ ConfigureTools)
  /\ UNCHANGED <<world, model, agentEnv, inputs, installed, quitting>>

\* The private runtime discovers its tools and registers them; when that
\* fails it is taken down again, unless its daemon does not stop either.
ConfigurePrivateMcp ==
  /\ at = "private"
  /\ \/ /\ state' = [state EXCEPT !.mcpConfigured = TRUE] /\ at' = "session"
        /\ UNCHANGED <<sessionConfigurationError, tools, runtimes>>
     \/ /\ state' = [state EXCEPT !.private = FALSE] /\ runtimes' = runtimes - 1
        /\ FailSession /\ at' = "none"
     \/ FailSession /\ at' = "none" /\ UNCHANGED <<state, runtimes>>
  /\ UNCHANGED <<world, model, agentEnv, inputs, installed, mcporter, quitting, spoiled>>

\* configureSession(): it fails before or after the model is set.
ConfigureSession ==
  /\ at = "session" /\ at' = "none"
  /\ \/ state.configured /\ UNCHANGED <<state, model, tools, sessionConfigurationError>>
     \/ ~state.configured /\ FailSession /\ model' \in {model, state.version} /\ UNCHANGED state
     \/ /\ ~state.configured
        /\ state' = [state EXCEPT !.configured = TRUE]
        /\ model' = state.version /\ tools' = state.version
        /\ sessionConfigurationError' = FALSE
  /\ UNCHANGED <<world, environment, quitting, spoiled>>

-----------------------------------------------------------------------------
\* closeRootMcpRuntime(), when the daemon stops: what the state holds of a
\* private runtime goes, and the ambient MCPORTER_CONFIG comes back.
RuntimeCloses ==
  /\ runtimes' = IF state.private THEN runtimes - 1 ELSE runtimes
  /\ mcporterEnv' = IF state.ambient # "none" THEN state.ambient ELSE mcporterEnv

RuntimeRejects == state.private

\* /recipe reload: the child runs are closed, then the private runtime, then
\* the state is dropped; the reload itself waits until the session is idle.
ReloadBegins ==
  /\ at = "none" /\ reloads < MaxReloads
  /\ SafeLoadState
  /\ at' = IF Loadable THEN "reloadChildren" ELSE "none"
  /\ UNCHANGED <<world, model, inputs, installed, mcporter, runtimes, quitting, spoiled>>

ReloadClosesChildren ==
  /\ at = "reloadChildren" /\ at' \in {"reloadRuntime", "none"}
  /\ UNCHANGED <<world, state, session, environment, quitting, spoiled>>

\* FAULT: the state is dropped first.
ReloadDropsState ==
  /\ at = "reloadRuntime" /\ state' = NoState /\ at' = "reloadIdle"
  /\ UNCHANGED <<mcporterEnv, runtimes>>
  /\ UNCHANGED <<world, session, agentEnv, inputs, lateWrites, cli, installed, quitting, spoiled>>

ReloadClosesRuntime ==
  /\ at = "reloadRuntime"
  /\ \/ RuntimeCloses /\ state' = NoState /\ at' = "reloadIdle"
     \/ RuntimeRejects /\ at' = "none" /\ UNCHANGED <<state, mcporterEnv, runtimes>>
  /\ UNCHANGED <<world, session, agentEnv, inputs, lateWrites, cli, installed, quitting, spoiled>>

\* session_shutdown, before a reload or at the end of the process.
ShutdownBegins ==
  /\ \/ at = "reloadIdle" /\ UNCHANGED quitting
     \/ at = "none" /\ quitting' = TRUE
  /\ at' = "shutdownChildren"
  /\ UNCHANGED <<world, state, session, environment, spoiled>>

\* Where the handler ends, Pi goes on, whether or not it was rejected.
AfterShutdown == IF quitting THEN "gone" ELSE "over"

\* What a close that rejects keeps from being given back.
Losses == {"env", "runtime", "mcporter"}

ShutdownRejects ==
  /\ \/ at = "shutdownChildren"
     \/ at = "shutdownRuntime" /\ RuntimeRejects
     \/ at = "shutdownDaemon"
  /\ at' = AfterShutdown
  /\ spoiled' = IF at = "shutdownDaemon" THEN spoiled \cup {"env"} ELSE Losses
  /\ UNCHANGED <<world, state, session, environment, quitting>>

ShutdownClosesChildren ==
  /\ at = "shutdownChildren" /\ at' = "shutdownRuntime"
  /\ UNCHANGED <<world, state, session, environment, quitting, spoiled>>

ShutdownClosesRuntime ==
  /\ at = "shutdownRuntime" /\ RuntimeCloses
  /\ state' = [state EXCEPT !.private = FALSE, !.ambient = "none"] /\ at' = "shutdownDaemon"
  /\ UNCHANGED <<world, session, agentEnv, inputs, lateWrites, cli, installed, quitting, spoiled>>

ShutdownRestoresEnv ==
  /\ at = "shutdownDaemon" /\ at' = AfterShutdown
  /\ agentEnv' = inputs
  /\ UNCHANGED <<world, state, session, inputs, installed, mcporter, runtimes,
                 quitting, spoiled>>

\* The reload makes a new instance of the extension; its session_start is next.
NewInstance ==
  /\ at = "over" /\ at' = "new" /\ reloads' = reloads + 1
  /\ state' = NoState /\ sessionConfigurationError' = FALSE
  /\ inputs' = agentEnv /\ installed' = FALSE
  /\ UNCHANGED <<disk, starts, edits, model, tools, agentEnv, mcporter, runtimes,
                 quitting, spoiled>>

\* The user edits, breaks, removes or restores the Recipe's folder; an edit may
\* change what the root agent says of MCP, which the next launch state follows.
EditRecipe ==
  /\ edits < MaxEdits /\ edits' = edits + 1
  /\ disk' \in (Versions \cup {"bad", "absent"}) \ {disk}
  /\ UNCHANGED <<starts, reloads, state, session, environment, at,
                 quitting, spoiled>>

-----------------------------------------------------------------------------
Reloading == at \in {"reloadChildren", "reloadRuntime", "reloadIdle"}

\* An instance takes the user's own launch selection for its inputs, never
\* what an earlier load resolved; and the process ends with the user's
\* selection, with no private MCP runtime and with a MCPORTER_CONFIG, the user's
\* own unless cli mode, which never gives it back, has replaced it: each but for
\* the losses listed at "spoiled".
HandsBackTheProcess ==
  /\ "env" \notin spoiled => inputs = "user" /\ (at = "gone" => agentEnv = "user")
  /\ at = "gone" /\ "runtime" \notin spoiled => runtimes = 0
  /\ at = "gone" /\ "mcporter" \notin spoiled =>
       mcporterEnv # "none" /\ (~cli => mcporterEnv = "user")

=============================================================================
