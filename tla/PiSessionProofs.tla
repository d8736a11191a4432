-------------------------- MODULE PiSessionProofs --------------------------
(***************************************************************************)
(* What a Pi session with a Recipe keeps, for any versions of the Recipe,  *)
(* any number of starts, reloads and edits, any channel and any request:   *)
(* its model, its environment, its replies and what the user decided.      *)
(***************************************************************************)
EXTENDS PiSession, FiniteSetTheorems, TLAPS

-----------------------------------------------------------------------------
(* The launch                                                              *)

USE DEF mcporter

States ==
  [version : Versions \cup {"none"}, extensions : {"none", "loaded", "failed"},
   mcpConfigured : BOOLEAN, private : BOOLEAN, ambient : {"none", "user", "session"},
   configured : BOOLEAN]

Places ==
  {"new", "none", "extensions", "mcp", "private", "session", "reloadChildren", "reloadRuntime",
   "reloadIdle", "shutdownChildren", "shutdownRuntime", "shutdownDaemon", "over", "gone"}

LaunchTypeOK ==
  /\ disk \in Versions \cup {"bad", "absent"}
  /\ state \in States /\ sessionConfigurationError \in BOOLEAN
  /\ model \in Versions \cup {Host} /\ tools \in Versions \cup {Host, Nothing}
  /\ agentEnv \in {"user", "resolved"} /\ inputs \in {"user", "resolved"}
  /\ mcporterEnv \in {"user", "session", "none"} /\ installed \in BOOLEAN
  /\ lateWrites \in Nat /\ cli \in BOOLEAN
  /\ runtimes \in Int /\ at \in Places /\ quitting \in BOOLEAN /\ spoiled \subseteq Losses

\* A state was resolved from a version of the Recipe, and the steps of
\* session_start find one.
StateFits ==
  /\ state.version = "none" => state = NoState
  /\ at \in {"extensions", "mcp", "private", "session"} => state.version \in Versions
  /\ at = "private" => state.private

\* What has not been spoiled is noted in the state, or is as the user left it;
\* the state has let go of it before it is dropped for good.
NotedEnv == inputs = "user" /\ (at \in {"over", "gone"} => agentEnv = "user")

NotedRuntime ==
  /\ runtimes = IF state.private THEN 1 ELSE 0
  /\ at \in {"shutdownDaemon", "over", "gone"} => ~state.private

NotedMcporter ==
  /\ state.ambient = "none" => mcporterEnv # "none"
  /\ ~cli => \/ state.ambient = "none" /\ mcporterEnv = "user"
             \/ state.ambient = "user" /\ mcporterEnv = "none"
  /\ at \in {"shutdownDaemon", "over", "gone"} => state.ambient = "none"

Noted ==
  /\ "env" \notin spoiled => NotedEnv
  /\ "runtime" \notin spoiled => NotedRuntime
  /\ "mcporter" \notin spoiled => NotedMcporter
  /\ lateWrites > 0 => cli

LaunchInv == LaunchTypeOK /\ StateFits /\ Noted

LEMMA NoStateType == NoState \in States /\ NoState.version = "none" /\ ~NoState.private
                       /\ NoState.ambient = "none"
  BY DEF NoState, States

LEMMA LoadedType ==
  ASSUME LaunchInv, Loadable
  PROVE  /\ Loaded \in States /\ Loaded.version \in Versions
         /\ Loaded.private = state.private /\ Loaded.ambient = state.ambient
         /\ state # NoState => Loaded = state
BY VersionsAssumption, NoStateType
DEF LaunchInv, LaunchTypeOK, StateFits, Loadable, Loaded, NoState, States

\* The look at the state that several handlers begin with.
LEMMA SafeLoadKeeps ==
  ASSUME LaunchInv, SafeLoadState
  PROVE  /\ state' \in States /\ sessionConfigurationError' \in BOOLEAN
         /\ tools' \in Versions \cup {Host, Nothing} /\ agentEnv' \in {"user", "resolved"}
         /\ state'.version = "none" => state' = NoState
         /\ state.version \in Versions => state' = state
         /\ state'.private = state.private /\ state'.ambient = state.ambient
         /\ Loadable => state'.version \in Versions /\ state' = Loaded
<1>1. CASE Loadable
  BY <1>1, LoadedType, VersionsAssumption, NoStateType
  DEF SafeLoadState, LaunchInv, LaunchTypeOK, StateFits
<1>2. CASE ~Loadable
  BY <1>2 DEF SafeLoadState, FailSession, LaunchInv, LaunchTypeOK, StateFits
<1> QED
  BY <1>1, <1>2

LEMMA LookUpKeeps == ASSUME LaunchInv, AcceptsPrompts, LookUp PROVE LaunchInv'
<1>1. /\ UNCHANGED <<disk, model, inputs, mcporter, installed, runtimes, at, quitting,
                     spoiled>>
      /\ SafeLoadState /\ at \notin {"extensions", "mcp", "private", "session", "over", "gone"}
  BY DEF LookUp, world, AcceptsPrompts, Reloading
<1>2. LaunchTypeOK' /\ StateFits'
  BY <1>1, SafeLoadKeeps DEF LaunchInv, LaunchTypeOK, StateFits
<1>3. Noted'
  BY <1>1, SafeLoadKeeps DEF LaunchInv, Noted, NotedEnv, NotedRuntime, NotedMcporter
<1> QED
  BY <1>2, <1>3 DEF LaunchInv

LEMMA SessionStartKeeps == ASSUME LaunchInv, SessionStart PROVE LaunchInv'
<1> USE DEF SessionStart, FailSession
<1>1. at \in {"none", "new"} /\ UNCHANGED <<disk, inputs, installed, mcporter, runtimes,
                                            quitting, spoiled>>
  OBVIOUS
<1>2. model' \in Versions \cup {Host}
  BY DEF LaunchInv, LaunchTypeOK
<1>3. CASE Loadable
  <2>1. /\ state' = [Loaded EXCEPT !.configured = FALSE] /\ at' = "extensions"
        /\ agentEnv' \in {"user", "resolved"} /\ tools' = Host
        /\ sessionConfigurationError' = sessionConfigurationError
    BY <1>3 DEF LaunchInv, LaunchTypeOK
  <2>2. /\ state' \in States /\ state'.version \in Versions
        /\ state'.private = state.private /\ state'.ambient = state.ambient
    BY <1>3, <2>1, LoadedType DEF States
  <2>3. LaunchTypeOK'
    BY <1>1, <1>2, <2>1, <2>2 DEF LaunchInv, LaunchTypeOK, Places
  <2>4. StateFits'
    BY <2>1, <2>2, VersionsAssumption DEF StateFits
  <2>5. Noted'
    BY <1>1, <2>1, <2>2 DEF LaunchInv, Noted, NotedEnv, NotedRuntime, NotedMcporter
  <2> QED
    BY <2>3, <2>4, <2>5 DEF LaunchInv
<1>4. CASE ~Loadable
  BY <1>1, <1>2, <1>4 DEF LaunchInv, LaunchTypeOK, StateFits, Noted, NotedEnv, NotedRuntime, NotedMcporter, Places
<1> QED
  BY <1>3, <1>4

\* A step of session_start that changes fields of the state, none of its version.
LEMMA LoadRecipeExtensionsKeeps == ASSUME LaunchInv, LoadRecipeExtensions PROVE LaunchInv'
<1> USE DEF LoadRecipeExtensions, FailSession, world
<1>1. /\ at = "extensions" /\ at' \in {"mcp", "none"}
      /\ \E e \in {"loaded", "failed"} : state' = [state EXCEPT !.extensions = e]
      /\ sessionConfigurationError' \in BOOLEAN /\ tools' \in Versions \cup {Host, Nothing}
      /\ installed' = TRUE
      /\ UNCHANGED <<disk, agentEnv, inputs, mcporter, runtimes, model, quitting, spoiled>>
  BY DEF LaunchInv, LaunchTypeOK
<1>2. /\ state' \in States /\ state'.version = state.version
      /\ state'.private = state.private /\ state'.ambient = state.ambient
  BY <1>1 DEF LaunchInv, LaunchTypeOK, States
<1>3. LaunchTypeOK'
  BY <1>1, <1>2 DEF LaunchInv, LaunchTypeOK, Places
<1>4. StateFits'
  BY <1>1, <1>2, VersionsAssumption DEF LaunchInv, StateFits
<1>5. Noted'
  BY <1>1, <1>2 DEF LaunchInv, Noted, NotedEnv, NotedRuntime, NotedMcporter
<1> QED
  BY <1>3, <1>4, <1>5 DEF LaunchInv

\* In cli mode the state notes nothing of MCPORTER_CONFIG, and what was noted
\* of a private runtime stays.
LEMMA ConfigureCliKeeps ==
  ASSUME LaunchInv, at = "mcp", ConfigureCli,
         UNCHANGED <<world, model, agentEnv, inputs, installed, quitting>>
  PROVE  LaunchInv'
<1> USE DEF ConfigureCli, FailSession, world
<1>1. /\ at = "mcp" /\ at' \in {"session", "none"}
      /\ sessionConfigurationError' \in BOOLEAN /\ tools' \in Versions \cup {Host, Nothing}
      /\ lateWrites' \in {lateWrites, lateWrites + 1} /\ mcporterEnv' \in {mcporterEnv, "session"}
      /\ cli' = TRUE \/ UNCHANGED mcporter
      /\ state' = state \/ state' = [state EXCEPT !.mcpConfigured = TRUE]
      /\ UNCHANGED <<disk, agentEnv, inputs, model, installed, runtimes, quitting, spoiled>>
      /\ state \in States /\ state.version \in Versions
  BY DEF LaunchInv, LaunchTypeOK, StateFits
<1>2. /\ state' \in States /\ state'.version = state.version
      /\ state'.private = state.private /\ state'.ambient = state.ambient
  BY <1>1 DEF States
<1>3. LaunchTypeOK'
  <2>1. lateWrites' \in Nat /\ mcporterEnv' \in {"user", "session", "none"}
    BY <1>1 DEF LaunchInv, LaunchTypeOK
  <2>2. cli' \in BOOLEAN
    <3>1. cli \in BOOLEAN
      BY DEF LaunchInv, LaunchTypeOK
    <3> HIDE DEF ConfigureCli
    <3> QED
      BY <1>1, <3>1, Zenon
  <2> QED
    BY <1>1, <1>2, <2>1, <2>2 DEF LaunchInv, LaunchTypeOK, Places
<1>4. StateFits'
  BY <1>1, <1>2, VersionsAssumption DEF LaunchInv, StateFits
<1>5. Noted'
  <2>1. CASE cli' = TRUE
    BY <1>1, <1>2, <2>1
    DEF LaunchInv, LaunchTypeOK, Noted, NotedEnv, NotedRuntime, NotedMcporter
  <2>2. CASE UNCHANGED mcporter
    BY <1>1, <1>2, <2>2 DEF LaunchInv, Noted, NotedEnv, NotedRuntime, NotedMcporter
  <2> QED
    BY <1>1, <2>1, <2>2
<1> QED
  BY <1>3, <1>4, <1>5 DEF LaunchInv

\* In tools mode MCPORTER_CONFIG is taken away, and noted unless the step is
\* one that loses it.
LEMMA ConfigureToolsKeeps ==
  ASSUME LaunchInv, at = "mcp", ConfigureTools,
         UNCHANGED <<world, model, agentEnv, inputs, installed, quitting>>
  PROVE  LaunchInv'
<1> USE DEF ConfigureTools, FailSession, world
<1>1. /\ at = "mcp" /\ at' \in {"session", "private", "none"}
      /\ sessionConfigurationError' \in BOOLEAN /\ tools' \in Versions \cup {Host, Nothing}
      /\ UNCHANGED <<disk, agentEnv, inputs, lateWrites, cli, model, installed, quitting>>
      /\ state \in States /\ state.version \in Versions /\ mcporterEnv \in {"user", "session", "none"}
      /\ runtimes \in Int /\ spoiled \subseteq Losses
  BY DEF LaunchInv, LaunchTypeOK, StateFits
<1>2. CASE at' = "none" /\ UNCHANGED <<state, mcporterEnv, runtimes, spoiled>>
  BY <1>1, <1>2, VersionsAssumption
  DEF LaunchInv, LaunchTypeOK, StateFits, Noted, NotedEnv, NotedRuntime, NotedMcporter, Places
<1>3. CASE /\ at' = "none" /\ mcporterEnv' = "none" /\ UNCHANGED <<state, runtimes>>
           /\ spoiled' = IF mcporterEnv # "none" /\ state.ambient = "none"
                         THEN spoiled \cup {"mcporter"} ELSE spoiled
  <2>1. spoiled' \subseteq Losses /\ spoiled \subseteq spoiled'
    BY <1>1, <1>3 DEF Losses
  <2>2. "mcporter" \notin spoiled' => "mcporter" \notin spoiled /\ (mcporterEnv = "none" \/ state.ambient # "none")
    BY <1>3
  <2>3. LaunchTypeOK' /\ StateFits'
    BY <1>1, <1>3, <2>1, VersionsAssumption DEF LaunchInv, LaunchTypeOK, StateFits, Places
  <2>4. Noted'
    BY <1>1, <1>3, <2>1, <2>2 DEF LaunchInv, Noted, NotedEnv, NotedRuntime, NotedMcporter
  <2> QED
    BY <2>3, <2>4 DEF LaunchInv
<1>4. CASE /\ mcporterEnv' = "none" /\ spoiled' = spoiled \cup LostByClearing
           /\ UNCHANGED runtimes /\ at' \in {"none", "session"}
           /\ state' = Cleared \/ state' = [Cleared EXCEPT !.mcpConfigured = TRUE]
  <2>1. /\ state' \in States /\ state'.version = state.version
        /\ state'.private = state.private /\ state'.ambient = mcporterEnv
    BY <1>1, <1>4 DEF States, Cleared
  <2>2. /\ spoiled' \subseteq Losses /\ spoiled \subseteq spoiled'
        /\ "mcporter" \notin spoiled' => state.ambient = "none"
    BY <1>1, <1>4 DEF Losses, LostByClearing
  <2>3. LaunchTypeOK' /\ StateFits'
    BY <1>1, <1>4, <2>1, <2>2, VersionsAssumption DEF LaunchInv, LaunchTypeOK, StateFits, Places
  <2>4. Noted'
    BY <1>1, <1>4, <2>1, <2>2 DEF LaunchInv, Noted, NotedEnv, NotedRuntime, NotedMcporter
  <2> QED
    BY <2>3, <2>4 DEF LaunchInv
<1>5. CASE /\ state' = [Cleared EXCEPT !.private = TRUE] /\ at' = "private"
           /\ mcporterEnv' = "none" /\ runtimes' = runtimes + 1
           /\ spoiled' = (spoiled \cup LostByClearing) \cup IF state.private THEN {"runtime"} ELSE {}
  <2>1. /\ state' \in States /\ state'.version = state.version
        /\ state'.private = TRUE /\ state'.ambient = mcporterEnv
    BY <1>1, <1>5 DEF States, Cleared
  <2>2. /\ spoiled' \subseteq Losses /\ spoiled \subseteq spoiled'
        /\ "mcporter" \notin spoiled' => state.ambient = "none"
        /\ "runtime" \notin spoiled' => ~state.private
    BY <1>1, <1>5 DEF Losses, LostByClearing
  <2>3. LaunchTypeOK' /\ StateFits'
    BY <1>1, <1>5, <2>1, <2>2, VersionsAssumption DEF LaunchInv, LaunchTypeOK, StateFits, Places
  <2>4. Noted'
    BY <1>1, <1>5, <2>1, <2>2 DEF LaunchInv, Noted, NotedEnv, NotedRuntime, NotedMcporter
  <2> QED
    BY <2>3, <2>4 DEF LaunchInv
<1> QED
  BY <1>2, <1>3, <1>4, <1>5

LEMMA ConfigureMcpKeeps == ASSUME LaunchInv, ConfigureMcp PROVE LaunchInv'
<1>1. CASE /\ at = "mcp" /\ at' = "session"
           /\ UNCHANGED <<state, sessionConfigurationError, tools, mcporter, runtimes, spoiled>>
           /\ UNCHANGED <<world, model, agentEnv, inputs, installed, quitting>>
  BY <1>1, VersionsAssumption
  DEF world, LaunchInv, LaunchTypeOK, StateFits, Noted, NotedEnv, NotedRuntime, NotedMcporter, Places
<1> QED
  BY <1>1, ConfigureCliKeeps, ConfigureToolsKeeps DEF ConfigureMcp

LEMMA LateMcpSessionKeeps == ASSUME LaunchInv, LateMcpSession PROVE LaunchInv'
<1>1. /\ mcporterEnv' = "session" /\ lateWrites' \in Nat /\ cli
      /\ UNCHANGED <<disk, state, sessionConfigurationError, model, tools, agentEnv, inputs, cli,
                     installed, runtimes, at, quitting, spoiled>>
  BY DEF LateMcpSession, world, session, LaunchInv, LaunchTypeOK, Noted
<1> QED
  BY <1>1 DEF LaunchInv, LaunchTypeOK, StateFits, Noted, NotedEnv, NotedRuntime, NotedMcporter

LEMMA ConfigurePrivateMcpKeeps == ASSUME LaunchInv, ConfigurePrivateMcp PROVE LaunchInv'
<1> USE DEF ConfigurePrivateMcp, FailSession, world
<1>1. /\ at = "private" /\ at' \in {"session", "none"}
      /\ sessionConfigurationError' \in BOOLEAN /\ tools' \in Versions \cup {Host, Nothing}
      /\ UNCHANGED <<disk, agentEnv, inputs, mcporter, model, installed, quitting, spoiled>>
      /\ state \in States /\ state.version \in Versions
  BY DEF LaunchInv, LaunchTypeOK, StateFits
<1>2. CASE UNCHANGED runtimes /\ (state' = state \/ state' = [state EXCEPT !.mcpConfigured = TRUE])
  <2>1. /\ state' \in States /\ state'.version = state.version
        /\ state'.private = state.private /\ state'.ambient = state.ambient
    BY <1>1, <1>2 DEF States
  <2> QED
    BY <1>1, <1>2, <2>1, VersionsAssumption
    DEF LaunchInv, LaunchTypeOK, StateFits, Noted, NotedEnv, NotedRuntime, NotedMcporter, Places
<1>3. CASE /\ state' = [state EXCEPT !.private = FALSE] /\ runtimes' = runtimes - 1
           /\ at' = "none"
  <2>1. /\ state' \in States /\ state'.version = state.version
        /\ state'.private = FALSE /\ state'.ambient = state.ambient
    BY <1>1, <1>3 DEF States
  <2>2. state.private
    BY <1>1 DEF LaunchInv, StateFits
  <2> QED
    BY <1>1, <1>3, <2>1, <2>2, VersionsAssumption
    DEF LaunchInv, LaunchTypeOK, StateFits, Noted, NotedEnv, NotedRuntime, NotedMcporter, Places
<1>4. CASE /\ state' = [state EXCEPT !.mcpConfigured = TRUE] /\ at' = "session"
           /\ UNCHANGED runtimes
  BY <1>2, <1>4
<1> QED
  BY <1>1, <1>2, <1>3, <1>4

LEMMA ConfigureSessionKeeps == ASSUME LaunchInv, ConfigureSession PROVE LaunchInv'
<1> USE DEF ConfigureSession, FailSession, world, environment
<1>1. /\ at = "session" /\ at' = "none"
      /\ sessionConfigurationError' \in BOOLEAN /\ tools' \in Versions \cup {Host, Nothing}
      /\ model' \in Versions \cup {Host}
      /\ state' = state \/ state' = [state EXCEPT !.configured = TRUE]
      /\ UNCHANGED <<disk, agentEnv, inputs, mcporter, runtimes, installed, quitting,
                     spoiled>>
      /\ state \in States /\ state.version \in Versions
  BY DEF LaunchInv, LaunchTypeOK, StateFits
<1>2. /\ state' \in States /\ state'.version = state.version
      /\ state'.private = state.private /\ state'.ambient = state.ambient
  BY <1>1 DEF States
<1> QED
  BY <1>1, <1>2, VersionsAssumption DEF LaunchInv, LaunchTypeOK, StateFits, Noted, NotedEnv, NotedRuntime, NotedMcporter, Places

\* The steps of a reload and of a shutdown that leave the state alone.
LEMMA WaitKeeps ==
  ASSUME LaunchInv,
         ReloadClosesChildren \/ ShutdownBegins \/ ShutdownRejects \/ ShutdownClosesChildren
           \/ ShutdownRestoresEnv \/ EditRecipe
  PROVE  LaunchInv'
<1> USE DEF world, session, environment
<1>1. UNCHANGED <<state, sessionConfigurationError, model, tools, inputs, mcporter,
                  installed, runtimes>>
  BY DEF ReloadClosesChildren, ShutdownBegins, ShutdownRejects, ShutdownClosesChildren,
         ShutdownRestoresEnv, EditRecipe
<1>2. CASE ReloadClosesChildren \/ ShutdownBegins \/ ShutdownClosesChildren
  <2>1. /\ at' \in {"reloadRuntime", "none", "shutdownChildren", "shutdownRuntime"}
        /\ UNCHANGED <<disk, agentEnv, spoiled>> /\ quitting' \in BOOLEAN
    BY <1>2 DEF ReloadClosesChildren, ShutdownBegins, ShutdownClosesChildren, LaunchInv, LaunchTypeOK
  <2> QED
    BY <1>1, <2>1 DEF LaunchInv, LaunchTypeOK, StateFits, Noted, NotedEnv, NotedRuntime, NotedMcporter, Places
<1>3. CASE ShutdownRejects
  <2>1. /\ at' \in {"over", "gone"} /\ UNCHANGED <<disk, agentEnv, quitting>>
        /\ spoiled' = Losses \/ (at = "shutdownDaemon" /\ spoiled' = spoiled \cup {"env"})
        /\ spoiled \subseteq Losses
    BY <1>3 DEF ShutdownRejects, AfterShutdown, LaunchInv, LaunchTypeOK
  <2>2. /\ spoiled' \subseteq Losses /\ "env" \in spoiled'
        /\ "runtime" \notin spoiled' => "runtime" \notin spoiled /\ at = "shutdownDaemon"
        /\ "mcporter" \notin spoiled' => "mcporter" \notin spoiled /\ at = "shutdownDaemon"
    BY <2>1 DEF Losses
  <2> QED
    BY <1>1, <2>1, <2>2 DEF LaunchInv, LaunchTypeOK, StateFits, Noted, NotedEnv, NotedRuntime, NotedMcporter, Places
<1>4. CASE ShutdownRestoresEnv
  <2>1. /\ at = "shutdownDaemon" /\ at' \in {"over", "gone"} /\ agentEnv' = inputs
        /\ UNCHANGED <<disk, spoiled, quitting>>
    BY <1>4 DEF ShutdownRestoresEnv, AfterShutdown
  <2> QED
    BY <1>1, <2>1 DEF LaunchInv, LaunchTypeOK, StateFits, Noted, NotedEnv, NotedRuntime, NotedMcporter, Places
<1>5. CASE EditRecipe
  <2>1. disk' \in Versions \cup {"bad", "absent"} /\ UNCHANGED <<at, agentEnv, spoiled, quitting>>
    BY <1>5 DEF EditRecipe
  <2> QED
    BY <1>1, <2>1 DEF LaunchInv, LaunchTypeOK, StateFits, Noted, NotedEnv, NotedRuntime, NotedMcporter, Places
<1> QED
  BY <1>2, <1>3, <1>4, <1>5

LEMMA ReloadBeginsKeeps == ASSUME LaunchInv, ReloadBegins PROVE LaunchInv'
<1>1. /\ UNCHANGED <<disk, model, inputs, mcporter, installed, runtimes, quitting, spoiled>>
      /\ SafeLoadState /\ at = "none" /\ at' \in {"reloadChildren", "none"}
  BY DEF ReloadBegins, world
<1>2. LaunchTypeOK' /\ StateFits'
  BY <1>1, SafeLoadKeeps DEF LaunchInv, LaunchTypeOK, StateFits, Places
<1>3. Noted'
  BY <1>1, SafeLoadKeeps DEF LaunchInv, Noted, NotedEnv, NotedRuntime, NotedMcporter
<1> QED
  BY <1>2, <1>3 DEF LaunchInv

\* The private runtime is closed: nothing of it is left, or the close rejects.
LEMMA RuntimeClosesKeeps ==
  ASSUME LaunchInv, ReloadClosesRuntime \/ ShutdownClosesRuntime
  PROVE  LaunchInv'
<1> USE DEF world, session
<1>1. UNCHANGED <<disk, sessionConfigurationError, model, tools, agentEnv, inputs, installed,
                  lateWrites, cli, quitting, spoiled>>
  BY DEF ReloadClosesRuntime, ShutdownClosesRuntime
<1>2. /\ at \in {"reloadRuntime", "shutdownRuntime"} /\ state \in States
      /\ at' \in {"reloadIdle", "none", "shutdownDaemon"}
  BY DEF ReloadClosesRuntime, ShutdownClosesRuntime, LaunchInv, LaunchTypeOK
<1>3. CASE UNCHANGED <<state, mcporter, runtimes>> /\ at' = "none"
  BY <1>1, <1>2, <1>3 DEF LaunchInv, LaunchTypeOK, StateFits, Noted, NotedEnv, NotedRuntime, NotedMcporter, Places
<1>4. CASE /\ RuntimeCloses
           /\ state' = NoState \/ state' = [state EXCEPT !.private = FALSE, !.ambient = "none"]
  <2>1. /\ state' \in States /\ state'.private = FALSE /\ state'.ambient = "none"
        /\ state'.version = "none" => state' = NoState
    BY <1>2, <1>4, NoStateType DEF LaunchInv, StateFits, States, NoState
  <2>2. runtimes' = IF state.private THEN runtimes - 1 ELSE runtimes
    BY <1>4 DEF RuntimeCloses
  <2>3. mcporterEnv' = IF state.ambient # "none" THEN state.ambient ELSE mcporterEnv
    BY <1>4 DEF RuntimeCloses
  <2>4. state.ambient \in {"none", "user", "session"} /\ state.private \in BOOLEAN
    BY <1>2 DEF States
  <2>5. LaunchTypeOK'
    BY <1>1, <1>2, <2>1, <2>2, <2>3, <2>4 DEF LaunchInv, LaunchTypeOK, Places
  <2>6. StateFits'
    BY <1>2, <2>1 DEF StateFits
  <2>7. Noted'
    BY <1>1, <1>2, <2>1, <2>2, <2>3, <2>4 DEF LaunchInv, Noted, NotedEnv, NotedRuntime, NotedMcporter
  <2> QED
    BY <2>5, <2>6, <2>7 DEF LaunchInv
<1> QED
  BY <1>3, <1>4 DEF ReloadClosesRuntime, ShutdownClosesRuntime

LEMMA NewInstanceKeeps == ASSUME LaunchInv, NewInstance PROVE LaunchInv'
<1>1. /\ at = "over" /\ at' = "new" /\ state' = NoState /\ sessionConfigurationError' = FALSE
      /\ inputs' = agentEnv /\ installed' = FALSE
      /\ UNCHANGED <<disk, model, tools, agentEnv, mcporter, runtimes, quitting, spoiled>>
  BY DEF NewInstance
<1>2. LaunchTypeOK' /\ StateFits'
  BY <1>1, NoStateType DEF LaunchInv, LaunchTypeOK, StateFits, Places
<1>3. Noted'
  BY <1>1, NoStateType
  DEF LaunchInv, LaunchTypeOK, Noted, NotedEnv, NotedRuntime, NotedMcporter
<1> QED
  BY <1>2, <1>3 DEF LaunchInv

LEMMA LaunchStepKeeps == ASSUME LaunchInv, LaunchStep PROVE LaunchInv'
  BY LookUpKeeps, SessionStartKeeps, LoadRecipeExtensionsKeeps, ConfigureMcpKeeps, LateMcpSessionKeeps,
     ConfigurePrivateMcpKeeps, ConfigureSessionKeeps, WaitKeeps, ReloadBeginsKeeps,
     RuntimeClosesKeeps, NewInstanceKeeps
  DEF LaunchStep, AcceptsPrompts

LEMMA LaunchInitially == ASSUME LaunchInit PROVE LaunchInv
<1>1. /\ state = NoState /\ at = "new" /\ inputs = "user" /\ runtimes = 0 /\ mcporterEnv = "user"
      /\ model = Host /\ tools = Host /\ agentEnv = "user"
  BY DEF LaunchInit
<1>2. /\ disk \in Versions \cup {"bad", "absent"} /\ lateWrites = 0 /\ ~cli /\ cli \in BOOLEAN
      /\ sessionConfigurationError \in BOOLEAN /\ installed \in BOOLEAN
      /\ quitting \in BOOLEAN /\ spoiled = {}
  BY DEF LaunchInit
<1>3. LaunchTypeOK
  BY <1>1, <1>2, NoStateType DEF LaunchTypeOK, Places, Losses
<1> QED
  BY <1>1, <1>2, <1>3, NoStateType
  DEF LaunchInv, StateFits, Noted, NotedEnv, NotedRuntime, NotedMcporter

-----------------------------------------------------------------------------
(* The model and the tools of a turn                                       *)

Starting == {"extensions", "mcp", "private", "session"}

\* The session goes to the model of its Recipe, with these tools.
Fits(active) ==
  /\ model \in Versions /\ tools \in active
  /\ at # "reloadIdle" => state.version = model

ModelInv ==
  /\ at \in Starting => ~state.configured
  /\ at \in {"mcp", "private", "session"} => installed
  /\ turn # "idle" => AcceptsPrompts
  /\ AcceptsPrompts /\ ~sessionConfigurationError => installed /\ Fits({model})
  /\ turn \in {"message", "working"} /\ ~aborted => Fits({model, Nothing})

\* A look at the state, at any time: it fails, or it finds what is there.
LEMMA SafeLoadFits ==
  ASSUME LaunchInv, ModelInv, AcceptsPrompts, SafeLoadState, AcceptsPrompts',
         UNCHANGED <<model, installed>>,
         at = "reloadIdle" => at' = "reloadIdle"
  PROVE  /\ at' \notin Starting
         /\ ~sessionConfigurationError' => installed' /\ Fits({model})'
         /\ Fits({model, Nothing}) => Fits({model, Nothing})'
<1>1. at' \notin Starting
  BY DEF AcceptsPrompts, Reloading, Starting
<1>2. at' # "reloadIdle" /\ model \in Versions /\ Fits({model, Nothing}) => state'.version = model
  BY SafeLoadKeeps DEF Fits
<1>3. CASE Loadable
  BY <1>1, <1>2, <1>3 DEF SafeLoadState, ModelInv, Fits
<1>4. CASE ~Loadable
  BY <1>1, <1>2, <1>4 DEF SafeLoadState, FailSession, Fits
<1> QED
  BY <1>3, <1>4

\* The steps of session_start, which no turn sees.
LEMMA SessionStartsFit ==
  ASSUME LaunchInv, ModelInv, UNCHANGED <<turn, aborted>>,
         \/ turn = "idle" /\ SessionStart
         \/ LoadRecipeExtensions \/ ConfigureMcp \/ ConfigurePrivateMcp \/ ConfigureSession
  PROVE  ModelInv'
<1> USE DEF FailSession, Starting
<1>1. turn = "idle" /\ turn' = "idle"
  BY DEF ModelInv, AcceptsPrompts, Reloading, LoadRecipeExtensions, ConfigureMcp,
         ConfigurePrivateMcp, ConfigureSession
<1>2. CASE SessionStart
  <2>1. CASE Loadable
    <3>1. at' = "extensions" /\ state' = [Loaded EXCEPT !.configured = FALSE]
      BY <1>2, <2>1 DEF SessionStart
    <3>2. state'.configured = FALSE
      BY <3>1, <2>1, LoadedType DEF States
    <3> QED
      BY <1>1, <3>1, <3>2 DEF ModelInv, AcceptsPrompts, Reloading
  <2>2. CASE ~Loadable
    <3>1. at' = "none" /\ sessionConfigurationError'
      BY <1>2, <2>2 DEF SessionStart
    <3> QED
      BY <1>1, <3>1 DEF ModelInv
  <2> QED
    BY <2>1, <2>2
<1>3. CASE LoadRecipeExtensions
  <2>1. /\ at = "extensions" /\ at' \in {"mcp", "none"} /\ installed'
        /\ \E e \in {"loaded", "failed"} : state' = [state EXCEPT !.extensions = e]
        /\ at' = "none" => sessionConfigurationError'
    BY <1>3 DEF LoadRecipeExtensions
  <2>2. state'.configured = state.configured
    BY <2>1 DEF LaunchInv, LaunchTypeOK, States
  <2> QED
    BY <1>1, <2>1, <2>2 DEF ModelInv, AcceptsPrompts, Reloading
<1>4. CASE ConfigureMcp \/ ConfigurePrivateMcp
  <2>1. /\ at \in {"mcp", "private"} /\ at' \in {"private", "session", "none"}
        /\ at' = "none" => sessionConfigurationError'
        /\ installed' = installed
    BY <1>4 DEF ConfigureMcp, ConfigureCli, ConfigureTools, ConfigurePrivateMcp, environment
  <2>2. state'.configured = state.configured
    BY <1>4 DEF ConfigureMcp, ConfigureCli, ConfigureTools, Cleared, ConfigurePrivateMcp, LaunchInv,
                LaunchTypeOK, States
  <2> QED
    BY <1>1, <2>1, <2>2 DEF ModelInv, AcceptsPrompts, Reloading
<1>5. CASE ConfigureSession
  <2>1. at = "session" /\ at' = "none" /\ ~state.configured /\ installed /\ installed' = installed
    BY <1>5 DEF ConfigureSession, ModelInv, environment
  <2>2. CASE sessionConfigurationError'
    BY <1>1, <2>1, <2>2 DEF ModelInv
  <2>3. CASE /\ state' = [state EXCEPT !.configured = TRUE]
             /\ model' = state.version /\ tools' = state.version
    <3>1. state'.version = state.version /\ state.version \in Versions
      BY <2>1, <2>3 DEF LaunchInv, LaunchTypeOK, StateFits, States
    <3> QED
      BY <1>1, <2>1, <2>3, <3>1 DEF ModelInv, Fits
  <2> QED
    BY <1>5, <2>1, <2>2, <2>3 DEF ConfigureSession
<1> QED
  BY <1>2, <1>3, <1>4, <1>5

\* The steps of a reload and of a shutdown.
LEMMA ReloadsFit ==
  ASSUME LaunchInv, ModelInv, UNCHANGED <<turn, aborted>>,
         \/ turn = "idle" /\ ShutdownBegins
         \/ at = "none" /\ LookUp
         \/ ReloadBegins \/ ReloadClosesChildren \/ ReloadClosesRuntime
         \/ ShutdownClosesChildren \/ ShutdownClosesRuntime \/ ShutdownRestoresEnv \/ ShutdownRejects
         \/ NewInstance \/ EditRecipe \/ LateMcpSession
  PROVE  ModelInv'
<1> USE DEF world, session, environment
<1>1. CASE (at = "none" /\ LookUp) \/ ReloadBegins
  <2>1. /\ at = "none" /\ at' \in {"none", "reloadChildren"} /\ SafeLoadState
        /\ UNCHANGED <<model, installed>>
    BY <1>1 DEF LookUp, ReloadBegins
  <2>2. AcceptsPrompts /\ AcceptsPrompts'
    BY <2>1 DEF AcceptsPrompts, Reloading
  <2> QED
    BY <2>1, <2>2, SafeLoadFits DEF ModelInv, Starting
<1>2. CASE ReloadClosesChildren \/ ReloadClosesRuntime
  <2>1. /\ at \in {"reloadChildren", "reloadRuntime"}
        /\ at' \in {"reloadRuntime", "reloadIdle", "none"}
        /\ at' = "reloadIdle" \/ UNCHANGED state
        /\ UNCHANGED <<model, tools, sessionConfigurationError, installed>>
    BY <1>2 DEF ReloadClosesChildren, ReloadClosesRuntime
  <2>2. AcceptsPrompts /\ AcceptsPrompts'
    BY <2>1 DEF AcceptsPrompts, Reloading
  <2> QED
    BY <2>1, <2>2 DEF ModelInv, Starting, Fits
<1>3. CASE \/ turn = "idle" /\ ShutdownBegins
           \/ ShutdownClosesChildren \/ ShutdownClosesRuntime \/ ShutdownRestoresEnv
           \/ ShutdownRejects \/ NewInstance
  <2>1. /\ at' \in {"shutdownChildren", "shutdownRuntime", "shutdownDaemon", "over", "gone", "new"}
        /\ turn = "idle" \/ at \in {"shutdownChildren", "shutdownRuntime", "shutdownDaemon", "over"}
    BY <1>3 DEF ShutdownBegins, ShutdownClosesChildren, ShutdownClosesRuntime, ShutdownRestoresEnv,
                ShutdownRejects, NewInstance, AfterShutdown
  <2>2. turn = "idle"
    BY <2>1 DEF ModelInv, AcceptsPrompts, Reloading
  <2> QED
    BY <2>1, <2>2 DEF ModelInv, AcceptsPrompts, Reloading, Starting
<1>4. CASE EditRecipe \/ LateMcpSession
  BY <1>4 DEF EditRecipe, LateMcpSession, ModelInv, AcceptsPrompts, Reloading, Fits
<1> QED
  BY <1>1, <1>2, <1>3, <1>4

LEMMA LaunchStepFits == ASSUME LaunchInv, ModelInv, LaunchStep PROVE ModelInv'
<1>1. UNCHANGED <<turn, aborted>>
  BY DEF LaunchStep, turnVars
<1> QED
  BY <1>1, SessionStartsFit, ReloadsFit DEF LaunchStep

LEMMA TurnStepFits == ASSUME LaunchInv, ModelInv, TurnStep PROVE LaunchInv' /\ ModelInv'
<1> USE DEF turnVars
<1>1. CASE Prompt
  <2>1. /\ AcceptsPrompts /\ LookUp /\ turn' = "starting" /\ SafeLoadState
        /\ UNCHANGED <<at, model, installed>>
    BY <1>1 DEF Prompt, PromptSent, LookUp
  <2>2. AcceptsPrompts'
    BY <2>1 DEF AcceptsPrompts, Reloading
  <2> QED
    BY <2>1, <2>2, LookUpKeeps, SafeLoadFits DEF ModelInv, Starting
<1>2. CASE /\ UNCHANGED launchVars
           /\ \/ turn' = turn /\ (aborted => aborted')
              \/ turn = "starting" /\ turn' = "message" /\ (aborted' \/ ~sessionConfigurationError)
              \/ turn = "message" /\ turn' = "working" /\ aborted' = aborted
              \/ turn = "working" /\ turn' = "message" /\ aborted' = aborted
              \/ turn # "idle" /\ turn' \in {"ended", "settling", "starting", "idle"}
  <2>1. LaunchInv'
    BY <1>2 DEF launchVars, LaunchInv, LaunchTypeOK, StateFits, Noted, NotedEnv, NotedRuntime, NotedMcporter
  <2>2. /\ AcceptsPrompts' <=> AcceptsPrompts
        /\ Fits({model})' <=> Fits({model})
        /\ Fits({model, Nothing})' <=> Fits({model, Nothing})
        /\ UNCHANGED <<sessionConfigurationError, installed, at, state>>
    BY <1>2 DEF launchVars, AcceptsPrompts, Reloading, Fits
  <2>3. Fits({model}) => Fits({model, Nothing})
    BY DEF Fits
  <2> QED
    BY <1>2, <2>1, <2>2, <2>3 DEF ModelInv
<1>3. CASE AgentStart
  BY <1>2, <1>3 DEF AgentStart, LoopStarts
<1>4. CASE ReplyTool \/ ((GuardMessage \/ Correct \/ ReportFailure \/ LetEnd) /\ UNCHANGED launchVars)
  BY <1>2, <1>4
  DEF ReplyTool, Reply, GuardMessage, MessageStarts, Correct, ReportFailure, LetEnd
<1>5. CASE (UserAborts \/ GoesOn \/ FollowUp \/ Settles) /\ UNCHANGED launchVars
  BY <1>2, <1>5 DEF UserAborts, GoesOn, FollowUp, Settles
<1>6. CASE \E reason \in {"stop", "error", "aborted"} : Stops(reason) /\ UNCHANGED launchVars
  BY <1>2, <1>6 DEF Stops
<1> QED
  BY <1>1, <1>3, <1>4, <1>5, <1>6 DEF TurnStep

-----------------------------------------------------------------------------
(* The replies a channel is owed                                           *)

GuardTypeOK ==
  /\ queue \in Seq({"user", "corrective"}) /\ aborted \in BOOLEAN
  /\ turn \in {"idle", "starting", "message", "working", "ended", "settling"}
  /\ origin \in BOOLEAN /\ replyRequired \in BOOLEAN /\ replied \in BOOLEAN
  /\ corrected \in BOOLEAN /\ failures \in Nat

\* What the guard remembers is what happened since the last user message.
GuardRemembers ==
  /\ answered = replied /\ nudges = IF corrected THEN 1 ELSE 0
  /\ replyRequired => failures = 0

\* The guard watches the run, or has given it up and said so.
Watching == origin => replyRequired \/ failures > 0

GuardWatches ==
  /\ turn = "starting" => Watching \/ sessionConfigurationError
  /\ turn \in {"message", "working", "ended", "settling"} => Watching \/ aborted
  /\ turn \in {"ended", "settling"} /\ stop = "stop" => ~aborted
  /\ turn = "settling" /\ stop = "stop" /\ origin /\ queue = <<>> => answered \/ failures > 0
  /\ RequestsAreSettled

GuardInv == GuardTypeOK /\ GuardRemembers /\ GuardWatches

LEMMA QueueSteps ==
  ASSUME queue \in Seq({"user", "corrective"})
  PROVE  /\ \A m \in {"user", "corrective"} :
              Append(queue, m) \in Seq({"user", "corrective"}) /\ Append(queue, m) # <<>>
         /\ queue # <<>> => Tail(queue) \in Seq({"user", "corrective"})
         /\ <<>> \in Seq({"user", "corrective"})
  OBVIOUS

LEMMA PromptGuards ==
  ASSUME LaunchInv, ModelInv, GuardInv, Prompt, LaunchInv', ModelInv'
  PROVE  GuardInv'
<1>1. /\ turn' = "starting" /\ queue' = <<>> /\ aborted' = FALSE /\ installed' = installed
      /\ AcceptsPrompts'
      /\ IF installed THEN Guarded ELSE UNCHANGED guardVars
  BY DEF Prompt, PromptSent, LookUp, AcceptsPrompts, Reloading
<1>2. CASE installed
  <2>1. /\ replyRequired' = origin /\ origin' = origin /\ ~answered' /\ answered' = replied'
        /\ replied' = FALSE /\ corrected' = FALSE /\ nudges' = 0 /\ failures' = 0
    BY <1>1, <1>2 DEF Guarded
  <2>2. GuardTypeOK'
    BY <1>1, <2>1, QueueSteps DEF GuardInv, GuardTypeOK
  <2>3. GuardRemembers'
    BY <2>1 DEF GuardRemembers
  <2>4. GuardWatches'
    BY <1>1, <2>1 DEF GuardWatches, Watching, RequestsAreSettled
  <2> QED
    BY <2>2, <2>3, <2>4 DEF GuardInv
<1>3. CASE ~installed
  <2>1. sessionConfigurationError'
    BY <1>1, <1>3 DEF ModelInv
  <2> QED
    BY <1>1, <1>3, <2>1, QueueSteps
    DEF guardVars, GuardInv, GuardTypeOK, GuardRemembers, GuardWatches, Watching, RequestsAreSettled
<1> QED
  BY <1>2, <1>3

\* The steps of the loop itself, the guard's own handlers among them.
LEMMA LoopGuards ==
  ASSUME GuardInv, UNCHANGED launchVars,
         \/ AgentStart \/ GuardMessage
         \/ (UserAborts \/ GoesOn \/ FollowUp \/ Settles) /\ UNCHANGED guardVars
         \/ \E reason \in {"stop", "error", "aborted"} : Stops(reason) /\ UNCHANGED guardVars
  PROVE  GuardInv'
<1> USE DEF guardVars, launchVars
<1>1. CASE AgentStart
  BY <1>1 DEF AgentStart, LoopStarts, GuardInv, GuardTypeOK, GuardRemembers, GuardWatches, Watching,
              RequestsAreSettled
<1>2. CASE GuardMessage
  <2>1. /\ turn = "message" /\ turn' = "working"
        /\ UNCHANGED <<queue, aborted, stop, origin, replyRequired, failures>>
        /\ \/ replied' = FALSE /\ corrected' = FALSE /\ answered' = FALSE /\ nudges' = 0
           \/ UNCHANGED <<replied, corrected, answered, nudges>>
    <3>1. CASE cur = "user"
      BY <1>2, <3>1 DEF GuardMessage, MessageStarts, NewRequest
    <3>2. CASE cur # "user"
      BY <1>2, <3>2 DEF GuardMessage, MessageStarts
    <3> QED
      BY <3>1, <3>2
  <2>2. GuardTypeOK'
    BY <2>1 DEF GuardInv, GuardTypeOK
  <2>3. GuardRemembers'
    <3>1. CASE replied' = FALSE /\ corrected' = FALSE /\ answered' = FALSE /\ nudges' = 0
      BY <2>1, <3>1 DEF GuardInv, GuardRemembers
    <3>2. CASE UNCHANGED <<replied, corrected, answered, nudges>>
      BY <2>1, <3>2 DEF GuardInv, GuardRemembers
    <3> QED
      BY <2>1, <3>1, <3>2
  <2>4. GuardWatches'
    BY <2>1 DEF GuardInv, GuardWatches, Watching, RequestsAreSettled
  <2> QED
    BY <2>2, <2>3, <2>4 DEF GuardInv
<1>3. CASE UserAborts /\ UNCHANGED guardVars
  BY <1>3 DEF UserAborts, GuardInv, GuardTypeOK, GuardRemembers, GuardWatches, Watching,
              RequestsAreSettled
<1>4. CASE GoesOn /\ UNCHANGED guardVars
  BY <1>4, QueueSteps DEF GoesOn, GuardInv, GuardTypeOK, GuardRemembers, GuardWatches, Watching,
              RequestsAreSettled
<1>5. CASE FollowUp /\ UNCHANGED guardVars
  BY <1>5, QueueSteps DEF FollowUp, GuardInv, GuardTypeOK, GuardRemembers, GuardWatches, Watching,
              RequestsAreSettled
<1>6. CASE Settles /\ UNCHANGED guardVars
  BY <1>6, QueueSteps DEF Settles, GuardInv, GuardTypeOK, GuardRemembers, GuardWatches, Watching,
              RequestsAreSettled
<1>7. CASE \E reason \in {"stop", "error", "aborted"} : Stops(reason) /\ UNCHANGED guardVars
  BY <1>7 DEF Stops, GuardInv, GuardTypeOK, GuardRemembers, GuardWatches, Watching,
              RequestsAreSettled
<1> QED
  BY <1>1, <1>2, <1>3, <1>4, <1>5, <1>6, <1>7

\* A reply, and the three ways agent_end lets a run end.
LEMMA EndGuards ==
  ASSUME GuardInv, UNCHANGED launchVars, ReplyTool \/ Correct \/ ReportFailure \/ LetEnd
  PROVE  GuardInv'
<1> USE DEF guardVars, launchVars, Unanswered
<1>1. CASE ReplyTool
  <2>1. /\ turn = "working" /\ turn' = turn
        /\ UNCHANGED <<queue, aborted, stop, origin, replyRequired, failures, corrected, nudges>>
        /\ \/ replied' = TRUE /\ answered' = TRUE
           \/ UNCHANGED <<replied, answered>>
    <3>1. PICK final \in BOOLEAN, delivered \in BOOLEAN : Reply(final, delivered)
      BY <1>1 DEF ReplyTool
    <3>2. answered = replied /\ replied \in BOOLEAN
      BY DEF GuardInv, GuardTypeOK, GuardRemembers
    <3>3. answered' = replied' /\ (replied' = TRUE \/ replied' = replied)
      <4>1. CASE final /\ delivered
        BY <3>1, <4>1 DEF Reply
      <4>2. CASE ~(final /\ delivered)
        BY <3>1, <3>2, <4>2 DEF Reply
      <4> QED
        BY <4>1, <4>2
    <3> QED
      BY <3>1, <3>2, <3>3 DEF Reply, turnVars
  <2>2. GuardTypeOK'
    BY <2>1 DEF GuardInv, GuardTypeOK
  <2>3. GuardRemembers'
    BY <2>1 DEF GuardInv, GuardRemembers
  <2>4. GuardWatches'
    BY <2>1 DEF GuardInv, GuardWatches, Watching, RequestsAreSettled
  <2> QED
    BY <2>2, <2>3, <2>4 DEF GuardInv
<1>2. CASE Correct
  BY <1>2, QueueSteps DEF Correct, GuardInv, GuardTypeOK, GuardRemembers, GuardWatches, Watching,
              RequestsAreSettled
<1>3. CASE ReportFailure
  <2>1. /\ replyRequired /\ turn' = "settling" /\ replyRequired' = FALSE
        /\ failures' = failures + 1 /\ ~aborted
        /\ UNCHANGED <<queue, aborted, stop, origin, replied, corrected, answered, nudges>>
    BY <1>3 DEF ReportFailure
  <2>2. GuardTypeOK' /\ failures' > 0
    <3>1. failures \in Nat /\ failures' = failures + 1
      BY <2>1 DEF GuardInv, GuardTypeOK
    <3>2. failures' \in Nat /\ failures' > 0
      BY <3>1
    <3> QED
      BY <2>1, <3>2 DEF GuardInv, GuardTypeOK
  <2>3. GuardRemembers'
    <3>1. ~replyRequired' /\ answered' = replied'
      BY <2>1 DEF GuardInv, GuardRemembers
    <3>2. nudges' = IF corrected' THEN 1 ELSE 0
      BY <2>1 DEF GuardInv, GuardRemembers
    <3> QED
      BY <3>1, <3>2 DEF GuardRemembers
  <2>4. GuardWatches'
    BY <2>1, <2>2 DEF GuardInv, GuardWatches, Watching, RequestsAreSettled
  <2> QED
    BY <2>2, <2>3, <2>4 DEF GuardInv
<1>4. CASE LetEnd
  BY <1>4 DEF LetEnd, GuardInv, GuardTypeOK, GuardRemembers, GuardWatches, Watching,
              RequestsAreSettled
<1> QED
  BY <1>1, <1>2, <1>3, <1>4

LEMMA TurnStepGuards ==
  ASSUME LaunchInv, ModelInv, GuardInv, TurnStep, LaunchInv', ModelInv'
  PROVE  GuardInv'
  BY PromptGuards, LoopGuards, EndGuards DEF TurnStep, AgentStart, ReplyTool

\* While a turn starts the launch takes no error back.
LEMMA LaunchStepGuards ==
  ASSUME LaunchInv, ModelInv, GuardInv, LaunchStep
  PROVE  GuardInv'
<1>1. UNCHANGED <<turnVars, guardVars>>
  BY DEF LaunchStep
<1>2. turn = "starting" /\ sessionConfigurationError => sessionConfigurationError'
  <2> SUFFICES ASSUME turn = "starting", sessionConfigurationError
               PROVE  sessionConfigurationError'
    OBVIOUS
  <2>1. at \in {"none", "reloadChildren", "reloadRuntime", "reloadIdle"}
    BY DEF ModelInv, AcceptsPrompts, Reloading
  <2> QED
    BY <2>1
    DEF LaunchStep, SessionStart, ShutdownBegins, LoadRecipeExtensions, ConfigureMcp,
        ConfigurePrivateMcp, ConfigureSession, LookUp, SafeLoadState, FailSession, ReloadBegins,
        ReloadClosesChildren, ReloadClosesRuntime, ShutdownClosesChildren, ShutdownClosesRuntime,
        ShutdownRestoresEnv, ShutdownRejects, NewInstance, EditRecipe, LateMcpSession, session
<1> QED
  BY <1>1, <1>2
  DEF turnVars, guardVars, GuardInv, GuardTypeOK, GuardRemembers, GuardWatches, Watching,
      RequestsAreSettled

-----------------------------------------------------------------------------
(* The outcome of a request to the user                                    *)

Told == {"approved", "revision_requested", "answered", "declined", "received"}

DialogFits ==
  /\ dialog \in {"none", "tool", "approve", "feedback", "choose", "other", "pick", "tick", "ask",
                 "over"}
  /\ signal \in BOOLEAN
  /\ channel \in {"child", "automatic", "tui", "rpc", "resume", "nothing"}
  /\ dialog = "none" => outcome = Pending /\ ~prompted /\ value = Open
  /\ dialog \notin {"none", "over"} => outcome = Pending /\ channel \in {"tui", "rpc"}
  /\ dialog = "over" => outcome # Pending
  /\ prompted => channel \in {"tui", "rpc"}
  /\ outcome.type = "awaiting_user" => channel = "resume"

RequestFits ==
  /\ request \in {"approval", "choice", "multiple", "text", "empty"}
  /\ dialog \in {"approve", "feedback"} => request = "approval"
  /\ dialog = "choose" => request = "choice"
  /\ dialog \in {"pick", "tick"} => request = "multiple"
  /\ dialog = "other" => request \in {"choice", "multiple"}
  /\ dialog = "ask" => request = "text"
  /\ dialog = "tool" => request # "empty"
  /\ ticked = {} \/ request = "multiple"

\* What a dialog resolved to says what the user meant, but where another
\* dialog follows: as long as the turn is not aborted.
ValueMeans ==
  /\ value.is = "open" => value = Open
  /\ dialog = "tool" =>
       /\ value.is \in {"open", "undefined", "outcome"}
       /\ value.is = "outcome" => value.outcome = meant /\ meant \in {Approved(TRUE), Declined}
  /\ dialog = "approve" =>
       /\ value.is \in {"open", "undefined", "approve", "changes"}
       /\ value.is = "undefined" => meant = Declined
       /\ value.is = "approve" => meant = Approved(FALSE)
       /\ value.is = "changes" => meant = Revision(FALSE)
  /\ dialog = "feedback" =>
       /\ value.is \in {"open", "undefined", "text"}
       /\ value.is = "text" => meant = Revision(TRUE)
       /\ value.is # "text" => meant = Revision(FALSE)
  /\ dialog = "choose" =>
       /\ value.is \in {"open", "undefined", "option", "other"}
       /\ value.is = "undefined" => meant = Declined
       /\ value.is = "option" => meant = Answered({value.option})
  /\ dialog = "ask" =>
       /\ value.is \in {"open", "undefined", "text"}
       /\ value.is = "undefined" => meant = Declined
       /\ value.is = "text" => meant = Answered({Typed})
  /\ dialog \in {"pick", "tick"} =>
       /\ value.is \in {"open", "undefined", "complete", "other", "option"}
       /\ value.is = "option" => dialog = "pick"
       /\ value.is = "undefined" => meant = Declined
       /\ value.is = "complete" => meant = AnsweredOrDeclined(ticked)
  /\ dialog = "other" =>
       /\ value.is \in {"open", "undefined", "text"}
       /\ value.is = "text" => meant = Answered(ticked \cup {Typed})
       /\ value.is = "undefined" /\ request = "choice" => meant = Declined
       /\ value.is = "undefined" /\ channel = "tui" => meant = AnsweredOrDeclined(ticked)

AskInv == DialogFits /\ RequestFits /\ (~signal => ValueMeans) /\ OutcomeIsTheUsers

LEMMA AskInitially == ASSUME AskInit PROVE AskInv
<1>1. /\ dialog = "none" /\ value = Open /\ value.is = "open" /\ outcome = Pending
      /\ outcome.type = "pending" /\ outcome # Aborted /\ ~prompted /\ ticked = {} /\ ~signal
  BY DEF AskInit, Open, Pending, Aborted
<1> QED
  BY <1>1 DEF AskInit, AskInv, DialogFits, RequestFits, ValueMeans, OutcomeIsTheUsers

\* A dialog's code ends the request.
LEMMA FinishKeeps ==
  ASSUME NEW result, AskInv, Finish(result), UNCHANGED <<settings, signal, meant>>,
         result # Pending, result.type # "awaiting_user",
         dialog \notin {"none", "over"},
         IF signal THEN result = Aborted ELSE result = meant /\ result # Aborted
  PROVE  AskInv'
<1>1. /\ dialog' = "over" /\ outcome' = result /\ value' = Open
      /\ UNCHANGED <<ticked, prompted, request, channel, signal, meant>>
  BY DEF Finish, settings
<1>2. channel \in {"tui", "rpc"}
  BY DEF AskInv, DialogFits
<1>3. DialogFits'
  BY <1>1 DEF AskInv, DialogFits
<1>4. RequestFits'
  BY <1>1 DEF AskInv, RequestFits
<1>5. ValueMeans'
  BY <1>1 DEF ValueMeans
<1>6. OutcomeIsTheUsers'
  <2>1. CASE signal
    <3>1. outcome'.type = "aborted" /\ signal'
      BY <1>1, <2>1 DEF Aborted
    <3> QED
      BY <1>1, <1>2, <3>1 DEF OutcomeIsTheUsers
  <2>2. CASE ~signal
    BY <1>1, <1>2, <2>2 DEF OutcomeIsTheUsers
  <2> QED
    BY <2>1, <2>2
<1> QED
  BY <1>3, <1>4, <1>5, <1>6 DEF AskInv

\* It opens another one.
LEMMA OpenKeeps ==
  ASSUME NEW next \in {"tool", "approve", "feedback", "choose", "other", "pick", "tick", "ask"},
         AskInv, OpenDialog(next), UNCHANGED <<settings, signal, meant>>,
         dialog # "over", channel \in {"tui", "rpc"},
         ticked' = {} \/ request = "multiple",
         next \in {"approve", "feedback"} => request = "approval",
         next = "choose" => request = "choice",
         next \in {"pick", "tick"} => request = "multiple",
         next = "other" => request \in {"choice", "multiple"},
         next = "ask" => request = "text",
         next = "tool" => request # "empty",
         next = "feedback" /\ ~signal => meant = Revision(FALSE)
  PROVE  AskInv'
<1>1. /\ dialog' = next /\ outcome' = outcome /\ outcome = Pending
      /\ UNCHANGED <<request, channel, signal, meant>>
      /\ ~signal => value' = Open
  BY DEF OpenDialog, settings, AskInv, DialogFits
<1>2. outcome.type = "pending" /\ outcome # Aborted /\ Open.is = "open"
  BY <1>1 DEF Pending, Aborted, Open
<1>3. DialogFits'
  BY <1>1, <1>2 DEF AskInv, DialogFits
<1>4. RequestFits'
  BY <1>1 DEF AskInv, RequestFits
<1>5. ASSUME ~signal' PROVE ValueMeans'
  <2>1. ~signal /\ value' = Open /\ value'.is = "open" /\ dialog' = next
    BY <1>1, <1>2, <1>5
  <2>2. dialog' = "feedback" => meant' = Revision(FALSE)
    BY <1>1, <2>1
  <2> QED
    BY <2>1, <2>2 DEF ValueMeans
<1>6. OutcomeIsTheUsers'
  BY <1>1, <1>2 DEF OutcomeIsTheUsers
<1> QED
  BY <1>3, <1>4, <1>5, <1>6 DEF AskInv

LEMMA AskUserKeeps == ASSUME AskInv, AskUser PROVE AskInv'
<1>1. /\ dialog = "none" /\ outcome = Pending /\ ~prompted /\ value = Open
      /\ UNCHANGED <<settings, signal, meant>>
  BY DEF AskUser, AskInv, DialogFits
<1>2. CASE request # "empty" /\ channel \in {"tui", "rpc"}
  <2>1. OpenDialog(IF interactive THEN "tool" ELSE FirstDialog) /\ ticked' = ticked
    BY <1>2 DEF AskUser
  <2>2. /\ FirstDialog \in {"approve", "choose", "ask", "tick", "pick"}
        /\ FirstDialog = "approve" => request = "approval"
        /\ FirstDialog = "choose" => request = "choice"
        /\ FirstDialog = "ask" => request = "text"
        /\ FirstDialog \in {"pick", "tick"} => request = "multiple"
    BY <1>2 DEF FirstDialog, AskInv, RequestFits
  <2>3. ticked' = {} \/ request = "multiple"
    BY <2>1 DEF AskInv, RequestFits
  <2>4. CASE interactive
    BY <1>1, <1>2, <2>1, <2>3, <2>4, OpenKeeps
  <2>5. CASE ~interactive
    BY <1>1, <1>2, <2>1, <2>2, <2>3, <2>5, OpenKeeps
  <2> QED
    BY <2>4, <2>5
<1>3. CASE ~(request # "empty" /\ channel \in {"tui", "rpc"})
  <2>1. PICK result \in {[type |-> "error"], Approved(FALSE), Declined, [type |-> "awaiting_user"],
                          [type |-> "unavailable"]} :
          /\ Finish(result)
          /\ result \in {Approved(FALSE), Declined} => channel \in {"child", "automatic"}
          /\ result = [type |-> "awaiting_user"] => channel = "resume"
    <3>1. CASE request = "empty"
      BY <3>1 DEF AskUser, Approved, Declined
    <3>2. CASE request # "empty" /\ channel \in {"child", "automatic"}
      BY <3>2 DEF AskUser, Approved, Declined
    <3>3. CASE request # "empty" /\ channel = "resume"
      BY <3>3 DEF AskUser, Approved, Declined
    <3>4. CASE request # "empty" /\ channel = "nothing"
      BY <3>4 DEF AskUser, Approved, Declined
    <3> QED
      BY <1>3, <3>1, <3>2, <3>3, <3>4 DEF AskInv, DialogFits
  <2>2. /\ dialog' = "over" /\ outcome' = result /\ value' = Open
        /\ UNCHANGED <<ticked, prompted, request, channel, signal, meant>>
    BY <1>1, <2>1 DEF Finish, settings
  <2>3. /\ result.type \in {"error", "approved", "declined", "awaiting_user", "unavailable"}
        /\ result.type \in {"approved", "declined"} => channel \in {"child", "automatic"}
        /\ result.type = "awaiting_user" => channel = "resume"
    BY <2>1 DEF Approved, Declined
  <2>4. result # Pending /\ result # Aborted
    BY <2>3 DEF Pending, Aborted
  <2>5. DialogFits'
    BY <1>1, <2>2, <2>3, <2>4 DEF AskInv, DialogFits
  <2>6. RequestFits' /\ ValueMeans'
    BY <2>2 DEF AskInv, RequestFits, ValueMeans
  <2>7. OutcomeIsTheUsers'
    BY <1>1, <2>2, <2>3, <2>4 DEF OutcomeIsTheUsers
  <2> QED
    BY <2>5, <2>6, <2>7 DEF AskInv
<1> QED
  BY <1>2, <1>3

\* What the user and the clock do while a dialog is open.
LEMMA ResolveKeeps ==
  ASSUME AskInv, NEW v, Resolve(v), dialog \notin {"none", "over"},
         ~signal => ValueMeans'
  PROVE  AskInv'
<1>1. /\ value' = v /\ UNCHANGED <<request, channel, dialog, ticked, signal, outcome, prompted>>
      /\ outcome = Pending
  BY DEF Resolve, settings, AskInv, DialogFits
<1>2. outcome.type = "pending" /\ outcome # Aborted
  BY <1>1 DEF Pending, Aborted
<1> QED
  BY <1>1, <1>2 DEF AskInv, DialogFits, RequestFits, OutcomeIsTheUsers

LEMMA UserKeeps ==
  ASSUME AskInv,
         \/ UserApproves \/ UserWantsChanges \/ UserCompletes \/ UserWantsOther
         \/ UserTypes \/ UserDismisses
         \/ \E o \in Options : UserChooses(o) \/ UserPicks(o)
         \/ \E decision \in {Approved(TRUE), Declined} : UserDecides(decision)
  PROVE  AskInv'
<1> USE DEF Awaiting
<1>1. CASE UserApproves
  BY <1>1, ResolveKeeps DEF UserApproves, Resolve, ValueMeans
<1>2. CASE UserWantsChanges
  BY <1>2, ResolveKeeps DEF UserWantsChanges, Resolve, ValueMeans
<1>3. CASE UserCompletes
  BY <1>3, ResolveKeeps DEF UserCompletes, Resolve, ValueMeans
<1>4. CASE UserWantsOther
  BY <1>4, ResolveKeeps DEF UserWantsOther, Resolve, ValueMeans
<1>5. CASE UserTypes
  BY <1>5, ResolveKeeps DEF UserTypes, Resolve, ValueMeans, AskInv, RequestFits
<1>6. CASE UserDismisses
  <2>1. /\ Resolve(Undefined) /\ Undefined.is = "undefined" /\ value'.is = "undefined"
        /\ UNCHANGED <<dialog, request, channel, ticked, signal>>
        /\ dialog \notin {"none", "over"} /\ value.is = "open"
    BY <1>6 DEF UserDismisses, Resolve, Undefined, Open, settings
  <2>2. /\ dialog \in {"tool", "feedback"} => meant' = meant
        /\ dialog = "other" /\ channel = "tui" => meant' = AnsweredOrDeclined(ticked)
        /\ dialog \in {"approve", "choose", "pick", "tick", "ask"} => meant' = Declined
        /\ dialog = "other" /\ channel # "tui" /\ request # "multiple" => meant' = Declined
    BY <1>6 DEF UserDismisses
  <2>3. dialog = "other" /\ request = "choice" /\ channel = "tui" => meant' = Declined
    BY <2>2 DEF AskInv, RequestFits, AnsweredOrDeclined
  <2>4. ASSUME ~signal PROVE ValueMeans'
    BY <2>1, <2>2, <2>3, <2>4 DEF AskInv, ValueMeans
  <2> QED
    BY <2>1, <2>4, ResolveKeeps
<1>7. ASSUME NEW o \in Options, UserChooses(o) \/ UserPicks(o) PROVE AskInv'
  <2>1. /\ Resolve([is |-> "option", option |-> o]) /\ value'.is = "option" /\ value'.option = o
        /\ dialog' = dialog
        /\ (dialog = "choose" /\ meant' = Answered({o})) \/ dialog = "pick"
    BY <1>7 DEF UserChooses, UserPicks, Resolve
  <2>2. ValueMeans'
    BY <2>1 DEF ValueMeans
  <2> QED
    BY <2>1, <2>2, ResolveKeeps
<1>8. ASSUME NEW decision \in {Approved(TRUE), Declined}, UserDecides(decision) PROVE AskInv'
  BY <1>8, ResolveKeeps DEF UserDecides, Resolve, ValueMeans
<1> QED
  BY <1>1, <1>2, <1>3, <1>4, <1>5, <1>6, <1>7, <1>8

LEMMA TicksKeep == ASSUME AskInv, NEW o \in Options, UserTicks(o) PROVE AskInv'
<1>1. /\ dialog = "tick" /\ value = Open
      /\ UNCHANGED <<request, channel, dialog, value, signal, outcome, meant, prompted>>
  BY DEF UserTicks, Awaiting, settings
<1> QED
  BY <1>1 DEF Open, AskInv, DialogFits, RequestFits, ValueMeans, OutcomeIsTheUsers

LEMMA AbortKeeps == ASSUME AskInv, Abort PROVE AskInv'
<1>1. /\ signal' = TRUE /\ outcome = Pending
      /\ UNCHANGED <<request, channel, dialog, ticked, outcome, meant, prompted>>
      /\ value' = value \/ dialog # "none"
  BY DEF Abort, settings
<1>2. outcome.type = "pending" /\ outcome # Aborted
  BY <1>1 DEF Pending, Aborted
<1> QED
  BY <1>1, <1>2 DEF AskInv, DialogFits, RequestFits, OutcomeIsTheUsers

\* The code after a dialog: what it tells the model, or the next dialog.
LEMMA Tellable ==
  /\ \A d \in {Aborted, Declined, Approved(TRUE), Approved(FALSE), Revision(TRUE), Revision(FALSE)} :
       d # Pending /\ d.type # "awaiting_user" /\ (d = Aborted <=> d.type = "aborted")
  /\ \A a : /\ Answered(a) # Pending /\ Answered(a).type = "answered" /\ Answered(a) # Aborted
            /\ AnsweredOrDeclined(a) # Pending /\ AnsweredOrDeclined(a) # Aborted
            /\ AnsweredOrDeclined(a).type # "awaiting_user"
  BY DEF Aborted, Declined, Approved, Revision, Pending, Answered, AnsweredOrDeclined

LEMMA AbortedKeeps ==
  ASSUME AskInv, signal, Finish(Aborted), Asked, dialog \notin {"none", "over"}
  PROVE  AskInv'
<1>1. Aborted # Pending /\ Aborted.type # "awaiting_user"
  BY DEF Aborted, Pending
<1> QED
  BY <1>1, FinishKeeps DEF Asked

\* The facts the code finds when no abort came in between.
LEMMA MeansNow ==
  ASSUME AskInv, ~signal, NEW which, Resolved(which)
  PROVE  ValueMeans /\ dialog = which /\ value.is # "open"
  BY DEF AskInv, Resolved, ValueMeans

LEMMA ApprovalKeeps == ASSUME AskInv, ToolDialog \/ Approval \/ Feedback PROVE AskInv'
<1>1. CASE ToolDialog
  <2>1. dialog = "tool" /\ Asked /\ request # "empty" /\ channel \in {"tui", "rpc"}
    BY <1>1 DEF ToolDialog, Resolved, AskInv, RequestFits, DialogFits
  <2>2. CASE signal
    BY <1>1, <2>1, <2>2, AbortedKeeps DEF ToolDialog
  <2>3. CASE ~signal /\ value.is = "outcome"
    <3>1. value.outcome = meant /\ meant \in {Approved(TRUE), Declined} /\ Finish(meant)
      <4>1. value.outcome = meant /\ meant \in {Approved(TRUE), Declined}
        BY <1>1, <2>3, MeansNow DEF ToolDialog, ValueMeans
      <4>2. Finish(value.outcome)
        BY <1>1, <2>3 DEF ToolDialog
      <4> QED
        BY <4>1, <4>2
    <3>2. meant # Pending /\ meant # Aborted /\ meant.type # "awaiting_user"
      BY <3>1 DEF Approved, Declined, Pending, Aborted
    <3> QED
      BY <2>1, <2>3, <3>1, <3>2, FinishKeeps DEF Asked
  <2>4. CASE ~signal /\ value.is = "undefined"
    <3>1. OpenDialog(FirstDialog) /\ ticked' = ticked
      BY <1>1, <2>4 DEF ToolDialog
    <3>2. /\ FirstDialog \in {"approve", "choose", "ask", "tick", "pick"}
          /\ FirstDialog = "approve" => request = "approval"
          /\ FirstDialog = "choose" => request = "choice"
          /\ FirstDialog = "ask" => request = "text"
          /\ FirstDialog \in {"pick", "tick"} => request = "multiple"
      BY <2>1 DEF FirstDialog, AskInv, RequestFits
    <3>3. ticked' = {} \/ request = "multiple"
      BY <3>1 DEF AskInv, RequestFits
    <3> QED
      BY <2>1, <3>1, <3>2, <3>3, OpenKeeps DEF Asked
  <2>5. ~signal => value.is \in {"outcome", "undefined"}
    BY <1>1, MeansNow DEF ToolDialog, ValueMeans
  <2> QED
    BY <2>2, <2>3, <2>4, <2>5
<1>2. CASE Approval
  <2>1. dialog = "approve" /\ Asked /\ request = "approval" /\ channel \in {"tui", "rpc"}
    BY <1>2 DEF Approval, Resolved, AskInv, RequestFits, DialogFits
  <2>2. CASE signal
    BY <1>2, <2>1, <2>2, AbortedKeeps DEF Approval
  <2>3. CASE ~signal /\ value.is \in {"undefined", "approve"}
    <3>1. Finish(meant) /\ meant \in {Declined, Approved(FALSE)}
      BY <1>2, <2>3, MeansNow DEF Approval, ValueMeans
    <3>2. meant # Pending /\ meant # Aborted /\ meant.type # "awaiting_user"
      BY <3>1 DEF Approved, Declined, Pending, Aborted
    <3> QED
      BY <2>1, <2>3, <3>1, <3>2, FinishKeeps DEF Asked
  <2>4. CASE ~signal /\ value.is = "changes"
    <3>1. OpenDialog("feedback") /\ ticked' = ticked /\ meant = Revision(FALSE)
      BY <1>2, <2>4, MeansNow DEF Approval, ValueMeans
    <3>2. ticked' = {} \/ request = "multiple"
      BY <3>1 DEF AskInv, RequestFits
    <3> QED
      BY <2>1, <3>1, <3>2, OpenKeeps DEF Asked
  <2>5. ~signal => value.is \in {"undefined", "approve", "changes"}
    BY <1>2, MeansNow DEF Approval, ValueMeans
  <2> QED
    BY <2>2, <2>3, <2>4, <2>5
<1>3. CASE Feedback
  <2>1. dialog = "feedback" /\ Asked
    BY <1>3 DEF Feedback, Resolved
  <2>2. CASE signal
    BY <1>3, <2>1, <2>2, AbortedKeeps DEF Feedback
  <2>3. CASE ~signal
    <3>1. Finish(Revision(value.is = "text"))
      BY <1>3, <2>3 DEF Feedback
    <3>2. CASE value.is = "text"
      <4>1. Finish(Revision(TRUE)) /\ meant = Revision(TRUE)
        BY <1>3, <2>3, <3>1, <3>2, MeansNow DEF Feedback, ValueMeans, Revision
      <4> QED
        BY <2>1, <2>3, <4>1, Tellable, FinishKeeps DEF Asked, Revision, Aborted
    <3>3. CASE value.is # "text"
      <4>1. Finish(Revision(FALSE)) /\ meant = Revision(FALSE)
        BY <1>3, <2>3, <3>1, <3>3, MeansNow DEF Feedback, ValueMeans, Revision
      <4> QED
        BY <2>1, <2>3, <4>1, Tellable, FinishKeeps DEF Asked, Revision, Aborted
    <3> QED
      BY <3>2, <3>3
  <2> QED
    BY <2>2, <2>3
<1> QED
  BY <1>1, <1>2, <1>3

\* A dialog whose code only finishes or opens the next one.
LEMMA DecidedKeeps ==
  ASSUME AskInv, ~signal, Asked, Finish(meant), dialog \notin {"none", "over"},
         \/ meant = Declined \/ \E a : meant \in {Answered(a), AnsweredOrDeclined(a)}
  PROVE  AskInv'
<1>1. meant # Pending /\ meant # Aborted /\ meant.type # "awaiting_user"
  BY Tellable DEF Answered, Declined, Pending, Aborted
<1> QED
  BY <1>1, FinishKeeps DEF Asked

LEMMA ChoiceKeeps == ASSUME AskInv, Choice \/ FreeText PROVE AskInv'
<1>1. CASE Choice
  <2>1. dialog = "choose" /\ Asked /\ request = "choice" /\ channel \in {"tui", "rpc"}
    BY <1>1 DEF Choice, Resolved, AskInv, RequestFits, DialogFits
  <2>2. CASE signal
    BY <1>1, <2>1, <2>2, AbortedKeeps DEF Choice
  <2>3. CASE ~signal /\ value.is = "undefined"
    BY <1>1, <2>1, <2>3, MeansNow, DecidedKeeps DEF Choice, ValueMeans
  <2>4. CASE ~signal /\ value.is = "option"
    <3>1. meant = Answered({value.option}) /\ Finish(meant)
      BY <1>1, <2>4, MeansNow DEF Choice, ValueMeans
    <3> QED
      BY <2>1, <2>4, <3>1, DecidedKeeps
  <2>5. CASE ~signal /\ value.is = "other"
    <3>1. OpenDialog("other") /\ ticked' = ticked
      BY <1>1, <2>5 DEF Choice
    <3>2. ticked' = {} \/ request = "multiple"
      BY <3>1 DEF AskInv, RequestFits
    <3> QED
      BY <2>1, <3>1, <3>2, OpenKeeps DEF Asked
  <2>6. ~signal => value.is \in {"undefined", "option", "other"}
    BY <1>1, MeansNow DEF Choice, ValueMeans
  <2> QED
    BY <2>2, <2>3, <2>4, <2>5, <2>6
<1>2. CASE FreeText
  <2>1. dialog = "ask" /\ Asked
    BY <1>2 DEF FreeText, Resolved
  <2>2. CASE signal
    BY <1>2, <2>1, <2>2, AbortedKeeps DEF FreeText
  <2>3. CASE ~signal /\ value.is = "text"
    BY <1>2, <2>1, <2>3, MeansNow, DecidedKeeps DEF FreeText, ValueMeans
  <2>4. CASE ~signal /\ value.is # "text"
    <3>1. Finish(Declined)
      BY <1>2, <2>4 DEF FreeText
    <3>2. meant = Declined
      BY <1>2, <2>4, MeansNow DEF FreeText, ValueMeans
    <3> QED
      BY <2>1, <2>4, <3>1, <3>2, DecidedKeeps
  <2> QED
    BY <2>2, <2>3, <2>4
<1> QED
  BY <1>1, <1>2

LEMMA MultipleKeeps == ASSUME AskInv, Pick \/ Tick \/ Other PROVE AskInv'
<1>1. CASE Pick \/ Tick
  <2>1. /\ dialog \in {"pick", "tick"} /\ Asked /\ request = "multiple" /\ channel \in {"tui", "rpc"}
        /\ Resolved(dialog)
    BY <1>1 DEF Pick, Tick, Resolved, AskInv, RequestFits, DialogFits
  <2>2. CASE signal
    BY <1>1, <2>1, <2>2, AbortedKeeps DEF Pick, Tick
  <2>3. CASE ~signal /\ value.is = "undefined"
    BY <1>1, <2>1, <2>3, MeansNow, DecidedKeeps DEF Pick, Tick, ValueMeans
  <2>4. CASE ~signal /\ value.is = "complete"
    BY <1>1, <2>1, <2>4, MeansNow, DecidedKeeps DEF Pick, Tick, ValueMeans
  <2>5. CASE ~signal /\ value.is = "other"
    <3>1. OpenDialog("other")
      BY <1>1, <2>5 DEF Pick, Tick
    <3> QED
      BY <2>1, <3>1, OpenKeeps DEF Asked
  <2>6. CASE ~signal /\ value.is = "option"
    <3>1. OpenDialog("pick")
      BY <1>1, <2>1, <2>6, MeansNow DEF Pick, Tick, Resolved, ValueMeans
    <3> QED
      BY <2>1, <3>1, OpenKeeps DEF Asked
  <2>7. ~signal => value.is \in {"undefined", "complete", "other", "option"}
    BY <2>1, MeansNow DEF ValueMeans
  <2> QED
    BY <2>2, <2>3, <2>4, <2>5, <2>6, <2>7
<1>2. CASE Other
  <2>1. /\ dialog = "other" /\ Asked /\ request \in {"choice", "multiple"}
        /\ channel \in {"tui", "rpc"}
    BY <1>2 DEF Other, Resolved, AskInv, RequestFits, DialogFits
  <2>2. CASE signal
    BY <1>2, <2>1, <2>2, AbortedKeeps DEF Other
  <2>3. CASE ~signal /\ value.is = "text"
    BY <1>2, <2>1, <2>3, MeansNow, DecidedKeeps DEF Other, ValueMeans
  <2>4. ~signal /\ value.is # "text" => value.is = "undefined"
    BY <1>2, MeansNow DEF Other, ValueMeans
  <2>5. CASE ~signal /\ value.is # "text" /\ request = "choice"
    BY <1>2, <2>1, <2>4, <2>5, MeansNow, DecidedKeeps DEF Other, ValueMeans
  <2>6. CASE ~signal /\ value.is # "text" /\ request = "multiple" /\ channel = "tui"
    BY <1>2, <2>1, <2>4, <2>6, MeansNow, DecidedKeeps DEF Other, ValueMeans
  <2>7. CASE ~signal /\ value.is # "text" /\ request = "multiple" /\ channel # "tui"
    <3>1. OpenDialog("pick")
      BY <1>2, <2>7 DEF Other
    <3> QED
      BY <2>1, <2>7, <3>1, OpenKeeps DEF Asked
  <2> QED
    BY <2>1, <2>2, <2>3, <2>5, <2>6, <2>7
<1> QED
  BY <1>1, <1>2

\* What the host sends back for a decision is read as that decision.
LEMMA ResumedAsDecided ==
  ASSUME NEW decision \in Decisions, NEW response \in Responses(decision)
  PROVE  InteractionResume(response) = decision
<1>1. CASE decision = Declined
  <2>1. Responses(decision) = {[status |-> "cancelled"]}
    BY <1>1 DEF Responses, Declined
  <2>2. response.status = "cancelled"
    BY <2>1
  <2> QED
    BY <1>1, <2>2 DEF InteractionResume
<1>2. ASSUME NEW a \in (SUBSET (Options \cup {Typed})) \ {{}}, decision = Answered(a)
      PROVE  InteractionResume(response) = decision
  <2>1. IsFiniteSet(a)
    BY OptionsAssumption, FS_Union, FS_Singleton, FS_Subset
  <2>2. decision # Declined /\ decision.type = "answered" /\ decision.answers = a
    BY <1>2 DEF Answered, Declined
  <2>3. CASE response = [status |-> "resolved", answers |-> a]
    BY <1>2, <2>3 DEF InteractionResume
  <2>4. ASSUME NEW b \in a, Cardinality(a) = 1, response = [status |-> "resolved", answer |-> b]
        PROVE  InteractionResume(response) = decision
    <3>1. a = {b}
      BY <2>1, <2>4, FS_Singleton
    <3>2. InteractionResume(response) = Answered({b})
      BY <2>4 DEF InteractionResume
    <3> QED
      BY <1>2, <3>1, <3>2
  <2>5. Responses(decision) = {[status |-> "resolved", answers |-> a]} \cup
                              {[status |-> "resolved", answer |-> b] :
                                  b \in IF Cardinality(a) = 1 THEN a ELSE {}}
    BY <2>2 DEF Responses
  <2> QED
    BY <2>3, <2>4, <2>5
<1>3. ASSUME NEW f \in BOOLEAN, decision \in {Approved(f), Revision(f)}
      PROVE  InteractionResume(response) = decision
  <2>1. /\ decision # Declined /\ decision.type # "answered" /\ decision.feedback = f
        /\ (decision.type = "approved") <=> (decision = Approved(f))
    BY <1>3 DEF Approved, Revision, Declined
  <2>2. response = [status |-> "resolved", approved |-> decision.type = "approved",
                    feedback |-> f]
    BY <2>1 DEF Responses
  <2>3. InteractionResume(response) = IF response.approved THEN Approved(f) ELSE Revision(f)
    BY <2>2 DEF InteractionResume
  <2> QED
    BY <1>3, <2>1, <2>2, <2>3
<1> QED
  BY <1>1, <1>2, <1>3 DEF Decisions

LEMMA ResumeKeeps == ASSUME AskInv, Resume PROVE AskInv'
<1>1. PICK decision \in Decisions : \E response \in Responses(decision) :
        meant' = decision /\ outcome' = InteractionResume(response)
  BY DEF Resume
<1>2. outcome' = decision /\ outcome' = meant' /\ outcome.type = "awaiting_user"
  BY <1>1, ResumedAsDecided DEF Resume
<1>3. decision # Pending /\ decision # Aborted /\ decision.type # "awaiting_user"
  <2>1. decision.type \in {"declined", "answered", "approved", "revision_requested"}
    BY DEF Decisions, Declined, Answered, Approved, Revision
  <2> QED
    BY <2>1 DEF Pending, Aborted
<1>4. channel = "resume" /\ ~prompted /\ dialog = "over"
  BY <1>2 DEF AskInv, DialogFits, Pending
<1>5. UNCHANGED <<request, channel, dialog, value, ticked, signal, prompted>>
  BY DEF Resume, settings
<1> QED
  BY <1>2, <1>3, <1>4, <1>5 DEF AskInv, DialogFits, RequestFits, ValueMeans, OutcomeIsTheUsers

LEMMA AskNextKeeps == ASSUME AskInv, [AskNext]_askVars PROVE AskInv'
<1>1. CASE UNCHANGED askVars
  <2>1. DialogFits' <=> DialogFits
    BY <1>1 DEF askVars, DialogFits
  <2>2. (RequestFits' <=> RequestFits) /\ (signal' <=> signal)
    BY <1>1 DEF askVars, RequestFits
  <2>3. ValueMeans' <=> ValueMeans
    BY <1>1 DEF askVars, ValueMeans
  <2>4. OutcomeIsTheUsers' <=> OutcomeIsTheUsers
    BY <1>1 DEF askVars, OutcomeIsTheUsers
  <2> QED
    BY <2>1, <2>2, <2>3, <2>4 DEF AskInv
<1>2. CASE \/ UserApproves \/ UserWantsChanges \/ UserCompletes \/ UserWantsOther
           \/ UserTypes \/ UserDismisses
           \/ \E o \in Options : UserChooses(o) \/ UserPicks(o)
           \/ \E decision \in {Approved(TRUE), Declined} : UserDecides(decision)
  BY <1>2, UserKeeps
<1>3. CASE AskUser \/ Abort \/ Resume \/ \E o \in Options : UserTicks(o)
  BY <1>3, AskUserKeeps, AbortKeeps, ResumeKeeps, TicksKeep
<1>4. CASE ToolDialog \/ Approval \/ Feedback \/ Choice \/ FreeText \/ Pick \/ Tick \/ Other
  BY <1>4, ApprovalKeeps, ChoiceKeeps, MultipleKeeps
<1> QED
  BY <1>1, <1>2, <1>3, <1>4 DEF AskNext

-----------------------------------------------------------------------------
(* Sequences in ascending order                                            *)

Ascends(s) == \A i, j \in DOMAIN s : i < j => s[i] < s[j]

Rank(ids, i) == Cardinality({j \in ids : j <= i})

LEMMA RankType ==
  ASSUME NEW ids \in SUBSET Nat, IsFiniteSet(ids), NEW i \in ids
  PROVE  Rank(ids, i) \in 1..Cardinality(ids)
<1> DEFINE below == {j \in ids : j <= i}
<1>1. below \in SUBSET ids /\ i \in below
  OBVIOUS
<1>2. IsFiniteSet(below) /\ Cardinality(below) <= Cardinality(ids)
  BY <1>1, FS_Subset
<1>3. Cardinality(below) \in Nat /\ Cardinality(ids) \in Nat /\ Cardinality(below) # 0
  BY <1>1, <1>2, FS_CardinalityType, FS_EmptySet
<1> QED
  BY <1>2, <1>3 DEF Rank

LEMMA RankGrows ==
  ASSUME NEW ids \in SUBSET Nat, IsFiniteSet(ids), NEW i \in ids, NEW k \in ids, i < k
  PROVE  Rank(ids, i) < Rank(ids, k)
<1> DEFINE below == {j \in ids : j <= i}
           upto == {j \in ids : j <= k}
<1>1. upto \in SUBSET ids /\ below \in SUBSET upto /\ k \in upto /\ k \notin below
  <2>1. \A j \in ids : j \in Nat
    OBVIOUS
  <2>2. \A j \in ids : j <= i => j <= k
    BY <2>1
  <2>3. below \in SUBSET upto
    BY <2>2
  <2>4. k \in upto /\ k \notin below
    BY <2>1
  <2> QED
    BY <2>3, <2>4
<1>2. IsFiniteSet(upto)
  BY <1>1, FS_Subset
<1>3. Cardinality(below) <= Cardinality(upto) /\ Cardinality(below) # Cardinality(upto)
  BY <1>1, <1>2, FS_Subset
<1>4. Cardinality(below) \in Nat /\ Cardinality(upto) \in Nat
  BY <1>1, <1>2, FS_Subset, FS_CardinalityType
<1> QED
  BY <1>3, <1>4 DEF Rank

LEMMA RankReaches ==
  ASSUME NEW ids \in SUBSET Nat, IsFiniteSet(ids), NEW k \in 1..Cardinality(ids)
  PROVE  \E i \in ids : Rank(ids, i) = k
<1> DEFINE rank == [i \in ids |-> Rank(ids, i)]
<1>1. Cardinality(ids) \in Nat
  BY FS_CardinalityType
<1>2. IsFiniteSet(1..Cardinality(ids)) /\ Cardinality(1..Cardinality(ids)) = Cardinality(ids)
  BY <1>1, FS_Interval
<1>3. rank \in [ids -> 1..Cardinality(ids)]
  BY RankType
<1>4. \A a, b \in ids : rank[a] = rank[b] => a = b
  <2> SUFFICES ASSUME NEW a \in ids, NEW b \in ids, Rank(ids, a) = Rank(ids, b) PROVE a = b
    OBVIOUS
  <2>1. Rank(ids, a) \in Nat /\ Rank(ids, b) \in Nat
    BY <1>1, RankType
  <2>2. CASE a < b
    BY <2>1, <2>2, RankGrows
  <2>3. CASE b < a
    BY <2>1, <2>3, RankGrows
  <2> QED
    BY <2>2, <2>3
<1> HIDE DEF rank
<1>5. rank \in Injection(ids, 1..Cardinality(ids))
  BY <1>3, <1>4 DEF Injection, IsInjective
<1>6. rank \in Surjection(ids, 1..Cardinality(ids))
  BY <1>2, <1>5, FS_Injection
<1>7. \E i \in ids : rank[i] = k
  BY <1>6 DEF Surjection
<1> QED
  BY <1>7 DEF rank

\* Ascending() puts a finite set in order and loses none of it.
LEMMA AscendingOrders ==
  ASSUME NEW ids \in SUBSET Nat, IsFiniteSet(ids)
  PROVE  /\ Ascending(ids) \in Seq(Nat) /\ Len(Ascending(ids)) = Cardinality(ids)
         /\ Range(Ascending(ids)) = ids /\ Ascends(Ascending(ids))
<1> DEFINE n == Cardinality(ids)
           s == Ascending(ids)
<1>1. n \in Nat
  BY FS_CardinalityType
<1>2. /\ DOMAIN s = 1..n
      /\ \A k \in 1..n : s[k] = CHOOSE i \in ids : Rank(ids, i) = k
      /\ s = [k \in 1..n |-> s[k]]
  BY DEF Ascending, Rank
<1>3. \A k \in 1..n : s[k] \in ids /\ Rank(ids, s[k]) = k
  BY <1>2, RankReaches
<1> HIDE DEF s
<1>4. s \in Seq(Nat) /\ Len(s) = n
  <2>1. s \in [1..n -> Nat]
    BY <1>2, <1>3
  <2> QED
    BY <1>1, <2>1
<1>5. Ascends(s)
  <2> SUFFICES ASSUME NEW a \in 1..n, NEW b \in 1..n, a < b PROVE s[a] < s[b]
    BY <1>2 DEF Ascends
  <2>1. s[a] \in ids /\ s[b] \in ids /\ Rank(ids, s[a]) = a /\ Rank(ids, s[b]) = b
    BY <1>3
  <2>2. a \in Nat /\ b \in Nat /\ s[a] \in Nat /\ s[b] \in Nat
    <3>1. a \in Nat /\ b \in Nat
      BY <1>1
    <3>2. \A j \in ids : j \in Nat
      OBVIOUS
    <3> QED
      BY <2>1, <3>1, <3>2
  <2>3. CASE s[b] < s[a]
    BY <2>1, <2>2, <2>3, RankGrows
  <2>4. s[a] # s[b]
    BY <2>1, <2>2
  <2> QED
    BY <2>2, <2>3, <2>4
<1>6. Range(s) \subseteq ids
  BY <1>2, <1>3 DEF Range
<1>7. ASSUME NEW i \in ids PROVE i \in Range(s)
  <2>1. PICK k \in 1..n : Rank(ids, i) = k
    BY RankType
  <2>2. s[k] \in ids /\ Rank(ids, s[k]) = Rank(ids, i)
    BY <1>3, <2>1
  <2>3. Rank(ids, i) \in Nat /\ s[k] \in Nat /\ i \in Nat
    <3>1. k \in Nat
      BY <1>1
    <3>2. \A j \in ids : j \in Nat
      OBVIOUS
    <3> QED
      BY <2>1, <2>2, <3>1, <3>2
  <2>4. s[k] = i
    <3>1. ~(s[k] < i)
      BY <2>2, <2>3, RankGrows
    <3>2. ~(i < s[k])
      BY <2>2, <2>3, RankGrows
    <3> QED
      BY <2>3, <3>1, <3>2
  <2> QED
    BY <1>2, <2>1, <2>4 DEF Range
<1> QED
  BY <1>4, <1>5, <1>6, <1>7 DEF s

LEMMA RangeOf ==
  ASSUME NEW s \in Seq(Nat)
  PROVE  /\ \A k \in 1..Len(s) : s[k] \in Range(s)
         /\ \A x \in Range(s) : \E k \in 1..Len(s) : x = s[k]
         /\ Range(s) \in SUBSET Nat /\ IsFiniteSet(Range(s))
<1>1. /\ \A k \in 1..Len(s) : s[k] \in Range(s)
      /\ \A x \in Range(s) : \E k \in 1..Len(s) : x = s[k]
  BY DEF Range
<1>2. Range(s) \in SUBSET Nat
  BY <1>1
<1>3. s \in Surjection(1..Len(s), Range(s))
  BY <1>1 DEF Surjection
<1>4. IsFiniteSet(Range(s))
  <2>1. Len(s) \in Nat
    OBVIOUS
  <2>2. IsFiniteSet(1..Len(s))
    BY <2>1, FS_Interval
  <2> QED
    BY <1>3, <2>2, FS_Surjection
<1> QED
  BY <1>1, <1>2, <1>4

\* Two pages put together, the first before the second.
LEMMA ConcatAscends ==
  ASSUME NEW s \in Seq(Nat), NEW t \in Seq(Nat)
  PROVE  /\ s \o t \in Seq(Nat) /\ Range(s \o t) = Range(s) \cup Range(t)
         /\ Ascends(s) /\ Ascends(t) /\ (\A x \in Range(s), y \in Range(t) : x < y) => Ascends(s \o t)
<1>1. /\ s \o t \in Seq(Nat) /\ Len(s \o t) = Len(s) + Len(t)
      /\ \A k \in 1..Len(s) : (s \o t)[k] = s[k]
      /\ \A k \in 1..Len(t) : (s \o t)[Len(s) + k] = t[k]
      /\ Len(s) \in Nat /\ Len(t) \in Nat
  OBVIOUS
<1>2. ASSUME NEW k \in 1..(Len(s) + Len(t))
      PROVE  k \in 1..Len(s) \/ (k - Len(s) \in 1..Len(t) /\ (s \o t)[k] = t[k - Len(s)])
  <2>1. CASE k > Len(s)
    <3>1. k - Len(s) \in 1..Len(t) /\ Len(s) + (k - Len(s)) = k
      BY <1>1, <2>1
    <3> QED
      BY <1>1, <3>1
  <2> QED
    BY <1>1, <2>1
<1>3. Range(s \o t) = Range(s) \cup Range(t)
  <2>1. ASSUME NEW x \in Range(s \o t) PROVE x \in Range(s) \cup Range(t)
    <3>1. PICK k \in 1..(Len(s) + Len(t)) : x = (s \o t)[k]
      BY <1>1, RangeOf
    <3> QED
      BY <1>1, <1>2, <3>1, RangeOf
  <2>2. ASSUME NEW x \in Range(s) PROVE x \in Range(s \o t)
    <3>1. PICK k \in 1..Len(s) : x = s[k]
      BY RangeOf
    <3>2. k \in 1..Len(s \o t) /\ x = (s \o t)[k]
      BY <1>1, <3>1
    <3> QED
      BY <1>1, <3>2, RangeOf
  <2>3. ASSUME NEW x \in Range(t) PROVE x \in Range(s \o t)
    <3>1. PICK k \in 1..Len(t) : x = t[k]
      BY RangeOf
    <3>2. Len(s) + k \in 1..Len(s \o t) /\ x = (s \o t)[Len(s) + k]
      BY <1>1, <3>1
    <3> QED
      BY <1>1, <3>2, RangeOf
  <2> QED
    BY <2>1, <2>2, <2>3
<1>4. ASSUME Ascends(s), Ascends(t), \A x \in Range(s), y \in Range(t) : x < y
      PROVE  Ascends(s \o t)
  <2> SUFFICES ASSUME NEW i \in 1..(Len(s) + Len(t)), NEW j \in 1..(Len(s) + Len(t)), i < j
               PROVE  (s \o t)[i] < (s \o t)[j]
    BY <1>1 DEF Ascends
  <2>1. CASE i \in 1..Len(s) /\ j \in 1..Len(s)
    BY <1>1, <1>4, <2>1 DEF Ascends
  <2>2. CASE i \in 1..Len(s) /\ j \notin 1..Len(s)
    BY <1>1, <1>2, <1>4, <2>2, RangeOf
  <2>3. CASE i \notin 1..Len(s)
    <3>1. j \notin 1..Len(s)
      BY <1>1, <2>3
    <3>2. i - Len(s) \in 1..Len(t) /\ j - Len(s) \in 1..Len(t) /\ i - Len(s) < j - Len(s)
      BY <1>1, <1>2, <2>3, <3>1
    <3>3. t[i - Len(s)] < t[j - Len(s)]
      BY <1>1, <1>4, <3>2 DEF Ascends
    <3> QED
      BY <1>2, <2>3, <3>1, <3>3
  <2> QED
    BY <2>1, <2>2, <2>3
<1> QED
  BY <1>1, <1>3, <1>4

\* A page cut from the front, and what is left of it.
LEMMA FirstOf ==
  ASSUME NEW s \in Seq(Nat), NEW n \in Nat
  PROVE  /\ First(s, n) \in Seq(Nat) /\ Len(First(s, n)) = IF n < Len(s) THEN n ELSE Len(s)
         /\ \A i \in 1..Len(First(s, n)) : First(s, n)[i] = s[i]
  BY DEF First

LEMMA RestOf ==
  ASSUME NEW s \in Seq(Nat), NEW n \in Nat
  PROVE  /\ Rest(s, n) \in Seq(Nat) /\ Len(Rest(s, n)) = IF n < Len(s) THEN Len(s) - n ELSE 0
         /\ \A i \in 1..Len(Rest(s, n)) : Rest(s, n)[i] = s[n + i]
  BY DEF Rest

LEMMA CutInTwo ==
  ASSUME NEW s \in Seq(Nat), NEW n \in Nat, Ascends(s)
  PROVE  /\ First(s, n) \in Seq(Nat) /\ Rest(s, n) \in Seq(Nat) /\ Len(First(s, n)) <= n
         /\ Range(s) = Range(First(s, n)) \cup Range(Rest(s, n))
         /\ Ascends(First(s, n)) /\ Ascends(Rest(s, n))
         /\ \A x \in Range(First(s, n)), y \in Range(Rest(s, n)) : x < y
<1> DEFINE f == First(s, n)
           r == Rest(s, n)
<1>1. /\ f \in Seq(Nat) /\ Len(f) = (IF n < Len(s) THEN n ELSE Len(s)) /\ Len(s) \in Nat
      /\ \A i \in 1..Len(f) : f[i] = s[i]
  BY FirstOf
<1>2. /\ r \in Seq(Nat) /\ Len(r) = (IF n < Len(s) THEN Len(s) - n ELSE 0)
      /\ \A i \in 1..Len(r) : r[i] = s[n + i]
  BY RestOf
<1> HIDE DEF f, r
<1>3. DOMAIN s = 1..Len(s) /\ DOMAIN f = 1..Len(f) /\ DOMAIN r = 1..Len(r)
  BY <1>1, <1>2
<1>4. ASSUME NEW i \in 1..Len(f) PROVE i \in 1..Len(s) /\ i <= n /\ f[i] = s[i] /\ i \in Nat
  BY <1>1
<1>5. ASSUME NEW i \in 1..Len(r)
      PROVE  n + i \in 1..Len(s) /\ n < n + i /\ r[i] = s[n + i] /\ i \in Nat
  BY <1>1, <1>2
<1>6. Range(s) = Range(f) \cup Range(r)
  <2>1. ASSUME NEW x \in Range(s) PROVE x \in Range(f) \cup Range(r)
    <3>1. PICK k \in 1..Len(s) : x = s[k]
      BY RangeOf
    <3>2. CASE k \in 1..Len(f)
      BY <1>1, <3>1, <3>2, RangeOf
    <3>3. CASE k \notin 1..Len(f)
      <4>1. k - n \in 1..Len(r) /\ n + (k - n) = k
        BY <1>1, <1>2, <3>1, <3>3
      <4>2. x = r[k - n]
        BY <1>2, <3>1, <4>1
      <4> QED
        BY <1>2, <4>1, <4>2, RangeOf
    <3> QED
      BY <3>2, <3>3
  <2>2. ASSUME NEW x \in Range(f) PROVE x \in Range(s)
    <3>1. PICK i \in 1..Len(f) : x = f[i]
      BY <1>1, RangeOf
    <3>2. i \in 1..Len(s) /\ x = s[i]
      BY <1>4, <3>1
    <3> QED
      BY <3>2, RangeOf
  <2>3. ASSUME NEW x \in Range(r) PROVE x \in Range(s)
    <3>1. PICK i \in 1..Len(r) : x = r[i]
      BY <1>2, RangeOf
    <3>2. n + i \in 1..Len(s) /\ x = s[n + i]
      BY <1>5, <3>1
    <3> QED
      BY <3>2, RangeOf
  <2> QED
    BY <2>1, <2>2, <2>3
<1>7. Ascends(f)
  <2> SUFFICES ASSUME NEW i \in 1..Len(f), NEW j \in 1..Len(f), i < j PROVE f[i] < f[j]
    BY <1>3 DEF Ascends
  <2>1. i \in 1..Len(s) /\ j \in 1..Len(s) /\ f[i] = s[i] /\ f[j] = s[j]
    BY <1>4
  <2> QED
    BY <1>3, <2>1 DEF Ascends
<1>8. Ascends(r)
  <2> SUFFICES ASSUME NEW i \in 1..Len(r), NEW j \in 1..Len(r), i < j PROVE r[i] < r[j]
    BY <1>3 DEF Ascends
  <2>1. n + i \in 1..Len(s) /\ n + j \in 1..Len(s) /\ r[i] = s[n + i] /\ r[j] = s[n + j]
    BY <1>5
  <2>2. n + i < n + j
    BY <1>5
  <2> QED
    BY <1>3, <2>1, <2>2 DEF Ascends
<1>9. ASSUME NEW x \in Range(f), NEW y \in Range(r) PROVE x < y
  <2>1. PICK i \in 1..Len(f) : x = f[i]
    BY <1>1, RangeOf
  <2>2. PICK j \in 1..Len(r) : y = r[j]
    BY <1>2, RangeOf
  <2>3. i \in 1..Len(s) /\ i \in Nat /\ i <= n /\ x = s[i]
    BY <1>4, <2>1
  <2>4. n + j \in 1..Len(s) /\ j \in Nat /\ n < n + j /\ y = s[n + j]
    BY <1>5, <2>2
  <2>5. i < n + j
    BY <2>3, <2>4
  <2> QED
    BY <1>3, <2>3, <2>4, <2>5 DEF Ascends
<1>10. Len(f) <= n
  BY <1>1
<1> QED
  BY <1>1, <1>2, <1>6, <1>7, <1>8, <1>9, <1>10 DEF f, r

\* The provider's next page of a thread, from the replies it has.
LEMMA PageOfReplies ==
  ASSUME NEW ids \in SUBSET Nat, IsFiniteSet(ids), NEW n \in Nat \ {0}
  PROVE  LET later == Ascending(ids)
             page == First(later, n)
         IN  /\ page \in Seq(Nat) /\ Range(page) \subseteq ids
             /\ Len(later) \in Nat
             /\ Len(later) <= n => Range(page) = ids
             /\ Len(later) > n => /\ Last(page) \in Range(page)
                                  /\ \A x \in Range(page) : x <= Last(page)
                                  /\ \A x \in ids \ Range(page) : Last(page) < x
<1> DEFINE later == Ascending(ids)
           page == First(later, n)
           rest == Rest(later, n)
<1>1. later \in Seq(Nat) /\ Range(later) = ids /\ Ascends(later) /\ Len(later) \in Nat
  BY AscendingOrders, FS_CardinalityType
<1> HIDE DEF later
<1>2. /\ page \in Seq(Nat) /\ rest \in Seq(Nat) /\ ids = Range(page) \cup Range(rest) /\ Ascends(page)
      /\ \A x \in Range(page), y \in Range(rest) : x < y
  BY <1>1, CutInTwo
<1>3. /\ Len(page) = IF n < Len(later) THEN n ELSE Len(later)
      /\ Len(rest) = IF n < Len(later) THEN Len(later) - n ELSE 0
  BY <1>1, FirstOf, RestOf
<1> HIDE DEF page, rest
<1>4. ASSUME Len(later) <= n PROVE Range(page) = ids
  <2>1. 1..Len(rest) = {}
    BY <1>1, <1>3, <1>4
  <2>2. Range(rest) = {}
    BY <1>2, <2>1, RangeOf
  <2> QED
    BY <1>2, <2>2
<1>5. ASSUME Len(later) > n
      PROVE  /\ Last(page) \in Range(page) /\ \A x \in Range(page) : x <= Last(page)
             /\ \A x \in ids \ Range(page) : Last(page) < x
  <2>1. Len(page) = n /\ n \in 1..Len(page) /\ Last(page) = page[n]
    BY <1>1, <1>3, <1>5 DEF Last
  <2>2. Last(page) \in Range(page)
    BY <1>2, <2>1, RangeOf
  <2>3. ASSUME NEW x \in Range(page) PROVE x <= Last(page)
    <3>1. PICK k \in 1..n : x = page[k]
      BY <1>2, <2>1, RangeOf
    <3>2. page[k] \in Nat /\ page[n] \in Nat
      BY <1>2, <2>1
    <3>3. CASE k = n
      BY <2>1, <3>1, <3>2, <3>3
    <3>4. CASE k # n
      <4>1. \A i, j \in DOMAIN page : i < j => page[i] < page[j]
        BY <1>2 DEF Ascends
      <4>2. k \in DOMAIN page /\ n \in DOMAIN page /\ k < n
        BY <1>2, <2>1, <3>4
      <4>3. page[k] < page[n]
        BY <4>1, <4>2
      <4> QED
        BY <2>1, <3>1, <3>2, <4>3
    <3> QED
      BY <3>3, <3>4
  <2> QED
    BY <1>2, <2>2, <2>3
<1> QED
  BY <1>1, <1>2, <1>4, <1>5 DEF later, page

\* The provider's page of the timeline: the newest messages before a cursor.
LEMMA PageOfHistory ==
  ASSUME NEW ids \in SUBSET Nat, IsFiniteSet(ids), NEW n \in Nat \ {0}
  PROVE  LET older == Reverse(Ascending(ids))
             page == First(older, n)
         IN  /\ Reverse(page) \in Seq(Nat) /\ Len(Reverse(page)) <= n /\ Ascends(Reverse(page))
             /\ Range(Reverse(page)) \subseteq ids /\ Len(older) \in Nat
             /\ Len(older) <= n => Range(Reverse(page)) = ids
             /\ Len(older) > n => /\ Last(page) \in Range(Reverse(page))
                                  /\ \A x \in Range(Reverse(page)) : Last(page) <= x
                                  /\ \A x \in ids \ Range(Reverse(page)) : x < Last(page)
<1> DEFINE all == Ascending(ids)
           older == Reverse(all)
           page == First(older, n)
           shownNow == Reverse(page)
           m == Len(all)
           size == IF n < m THEN n ELSE m
<1>1. all \in Seq(Nat) /\ Range(all) = ids /\ Ascends(all) /\ m \in Nat
  BY AscendingOrders, FS_CardinalityType
<1> HIDE DEF all
<1>2. older \in Seq(Nat) /\ Len(older) = m /\ \A k \in 1..m : older[k] = all[m - k + 1]
  BY <1>1 DEF Reverse
<1> HIDE DEF older
<1>3. page \in Seq(Nat) /\ Len(page) = size /\ \A k \in 1..size : page[k] = older[k]
  BY <1>1, <1>2, FirstOf
<1> HIDE DEF page
<1>4. /\ shownNow \in Seq(Nat) /\ Len(shownNow) = size
      /\ \A k \in 1..size : shownNow[k] = page[size - k + 1]
  BY <1>3 DEF Reverse
<1> HIDE DEF shownNow
<1>6. /\ size \in Nat /\ m \in Nat /\ size <= n /\ size <= m
      /\ m > n => size = n
      /\ m <= n => size = m
  BY <1>1
<1> HIDE DEF size, m
<1>13. \A i, j \in 1..m : i < j => all[i] < all[j]
  BY <1>1 DEF Ascends, m
\* What is shown is the end of all there is.
<1>5. ASSUME NEW k \in 1..size
      PROVE  shownNow[k] = all[m - size + k] /\ m - size + k \in 1..m
  <2>1. k \in 1..m /\ size - k + 1 \in 1..size /\ size - k + 1 \in 1..m /\ m - size + k \in 1..m
    BY <1>6
  <2>2. shownNow[k] = page[size - k + 1]
    BY <1>4
  <2>3. page[size - k + 1] = older[size - k + 1]
    BY <1>3, <2>1
  <2>4. older[size - k + 1] = all[m - (size - k + 1) + 1]
    BY <1>2, <2>1
  <2>5. m - (size - k + 1) + 1 = m - size + k
    BY <1>6
  <2> QED
    BY <2>1, <2>2, <2>3, <2>4, <2>5
<1>7. Ascends(shownNow)
  <2> SUFFICES ASSUME NEW i \in 1..size, NEW j \in 1..size, i < j
               PROVE  shownNow[i] < shownNow[j]
    BY <1>4 DEF Ascends
  <2>1. m - size + i < m - size + j
    BY <1>6
  <2>2. /\ shownNow[i] = all[m - size + i] /\ m - size + i \in 1..m
        /\ shownNow[j] = all[m - size + j] /\ m - size + j \in 1..m
    BY <1>5
  <2> QED
    BY <1>13, <2>1, <2>2
<1>8. ASSUME NEW x \in ids
      PROVE  \E k \in 1..m : x = all[k] /\ (k > m - size => x \in Range(shownNow))
  <2>1. PICK k \in 1..m : x = all[k]
    BY <1>1, RangeOf DEF m
  <2>2. ASSUME k > m - size PROVE x \in Range(shownNow)
    <3>1. k - (m - size) \in 1..size /\ m - size + (k - (m - size)) = k
      BY <1>6, <2>2
    <3>2. shownNow[k - (m - size)] = x
      BY <1>5, <2>1, <3>1
    <3> QED
      BY <1>4, <3>1, <3>2, RangeOf
  <2> QED
    BY <2>1, <2>2
<1>9. ASSUME NEW x \in Range(shownNow) PROVE \E k \in 1..m : x = all[k] /\ k > m - size /\ x \in ids
  <2>1. PICK k \in 1..size : x = shownNow[k]
    BY <1>4, RangeOf
  <2>2. x = all[m - size + k] /\ m - size + k \in 1..m /\ m - size + k > m - size
    BY <1>5, <1>6, <2>1
  <2> QED
    BY <1>1, <2>2, RangeOf DEF m
<1>10. ASSUME m <= n PROVE Range(shownNow) = ids
  <2>1. \A k \in 1..m : k > m - size
    BY <1>6, <1>10
  <2>2. \A x \in ids : x \in Range(shownNow)
    BY <1>8, <2>1
  <2>3. \A x \in Range(shownNow) : x \in ids
    BY <1>9
  <2> QED
    BY <2>2, <2>3
<1>11. ASSUME m > n
       PROVE  /\ Last(page) \in Range(shownNow) /\ \A x \in Range(shownNow) : Last(page) <= x
              /\ \A x \in ids \ Range(shownNow) : x < Last(page)
  <2>1. size = n /\ 1 \in 1..size /\ size \in 1..size /\ size - 1 + 1 = size
    BY <1>6, <1>11
  <2>2. Last(page) = page[size] /\ shownNow[1] = page[size]
    BY <1>3, <1>4, <2>1 DEF Last
  <2>3. Last(page) = all[m - size + 1] /\ m - size + 1 \in 1..m /\ Last(page) \in Range(shownNow)
    BY <1>4, <1>5, <2>1, <2>2, RangeOf
  <2>5. \A i \in 1..m : all[i] \in Nat
    BY <1>1 DEF m
  <2>6. ASSUME NEW x \in Range(shownNow) PROVE Last(page) <= x
    <3>1. PICK k \in 1..m : x = all[k] /\ k > m - size
      BY <1>9
    <3>2. m - size + 1 = k \/ m - size + 1 < k
      BY <1>6, <3>1
    <3> QED
      BY <2>3, <1>13, <2>5, <3>1, <3>2
  <2>7. ASSUME NEW x \in ids \ Range(shownNow) PROVE x < Last(page)
    <3>0. x \in ids /\ x \notin Range(shownNow)
      BY <2>7
    <3>1. PICK k \in 1..m : x = all[k] /\ (k > m - size => x \in Range(shownNow))
      BY <1>8, <3>0
    <3>2. k < m - size + 1
      BY <1>6, <3>0, <3>1
    <3> QED
      BY <2>3, <1>13, <3>1, <3>2
  <2> QED
    BY <2>3, <2>6, <2>7
<1>12. Range(shownNow) \subseteq ids
  BY <1>9
<1> QED
  BY <1>1, <1>2, <1>4, <1>6, <1>7, <1>10, <1>11, <1>12 DEF all, older, page, shownNow, m

-----------------------------------------------------------------------------
(* The pages of a thread and of the timeline                               *)

Messages ==
  [by : {"user", "agent"}, root : Nat, now : {"posted", "edited", "deleted", "retracted"}]

\* Pages put together, and what the cursor says of the rest: of the messages
\* there were at first, those not shown and not pending are beyond "oldest".
Chain(target, pages, next, upto) ==
  /\ pages \in Seq(Nat) /\ next.pending \in Seq(Nat) /\ next.oldest \in Nat
  /\ upto \in Nat /\ upto <= Len(posts)
  /\ Range(pages) \cup Range(next.pending) \subseteq DOMAIN posts
  /\ Ascends(pages) /\ Ascends(next.pending)
  /\ \A x \in Range(pages), y \in Range(next.pending) : x < y
  /\ target = Thread =>
       /\ next.oldest # 0 => \A x \in Range(pages) \cup Range(next.pending) : x <= next.oldest
       /\ \A i \in Listed(Thread) :
            i <= upto =>
              i \in Range(pages) \cup Range(next.pending) \/ (next.oldest # 0 /\ next.oldest < i)
  /\ target = Timeline =>
       /\ Range(next.pending) = {}
       /\ next.oldest # 0 => \A x \in Range(pages) : next.oldest <= x
       /\ \A i \in Listed(Timeline) :
            i <= upto => i \in Range(pages) \/ (next.oldest # 0 /\ i < next.oldest)

\* A cursor belongs to its target, and the timeline's always says where to go on.
CursorFits(next, target) ==
  next = NoCursor \/ (next.scope = target /\ (target = Timeline => next.oldest # 0))

Joined ==
  IF call.fresh THEN call.page
  ELSE IF call.target = Thread THEN shown \o call.page ELSE call.page \o shown

PostsInv == posts \in Seq(Messages) /\ Thread \in DOMAIN posts

ShownInv ==
  /\ since.target \in {Thread, Timeline} /\ CursorFits(cursor, since.target)
  /\ Chain(since.target, shown, cursor, since.upto)

ReadInv ==
  call.op = "read" =>
    /\ call.target \in {Thread, Timeline} /\ call.limit \in Nat \ {0}
    /\ call.began \in Nat /\ call.began <= Len(posts)
    /\ call.cont # NoCursor =>
         call.cont = cursor /\ call.target = since.target /\ call.began = since.upto

ShowInv ==
  call.op = "show" =>
    /\ call.target \in {Thread, Timeline} /\ call.page \in Seq(Nat)
    /\ call.limit \in Nat \ {0} /\ Len(call.page) <= call.limit
    /\ Range(call.page) \subseteq DOMAIN posts
    /\ CursorFits(call.next, call.target) /\ Chain(call.target, Joined, call.next, call.began)

\* The store of references and the messages they name.
OwnInv ==
  /\ refs \subseteq [id : Nat, own : BOOLEAN] /\ lost \subseteq DOMAIN posts
  /\ call.op \in {"none", "read", "show", "posted"}
  /\ call.op = "posted" =>
       call.id \in DOMAIN posts /\ call.id \notin lost /\ posts[call.id].by = "agent"
  /\ \A r \in refs :
       r.id \in DOMAIN posts /\ (r.own <=> posts[r.id].by = "agent" /\ r.id \notin lost)
  /\ \A i \in DOMAIN posts :
       posts[i].by = "agent" /\ i \notin lost /\ ~(call.op = "posted" /\ call.id = i) =>
         \E r \in refs : r.id = i
  /\ \A i \in DOMAIN posts : posts[i].now \in {"edited", "retracted"} => posts[i].by = "agent"

ThreadInv == PostsInv /\ ShownInv /\ ReadInv /\ ShowInv /\ OwnInv

LEMMA NoCursorType ==
  /\ NoCursor.pending = <<>> /\ NoCursor.oldest = 0 /\ NoCursor.pending \in Seq(Nat)
  /\ Range(NoCursor.pending) = {} /\ Ascends(NoCursor.pending) /\ Len(NoCursor.pending) = 0
<1>1. NoCursor.pending = <<>> /\ NoCursor.oldest = 0
  BY DEF NoCursor
<1>2. <<>> \in Seq(Nat) /\ Len(<<>>) = 0 /\ DOMAIN <<>> = {}
  OBVIOUS
<1>3. Range(<<>>) = {}
  BY <1>2 DEF Range
<1>4. Ascends(<<>>)
  BY <1>2 DEF Ascends
<1> QED
  BY <1>1, <1>2, <1>3, <1>4

LEMMA ListedType ==
  ASSUME PostsInv, NEW target
  PROVE  /\ Listed(target) \in SUBSET Nat /\ Listed(target) \subseteq DOMAIN posts
         /\ DOMAIN posts = 1..Len(posts) /\ Len(posts) \in Nat
         /\ \A ids \in SUBSET Listed(target) : ids \in SUBSET Nat /\ IsFiniteSet(ids)
<1>1. DOMAIN posts = 1..Len(posts) /\ Len(posts) \in Nat
  BY DEF PostsInv
<1>2. IsFiniteSet(1..Len(posts)) /\ 1..Len(posts) \in SUBSET Nat
  <2>1. IsFiniteSet(1..Len(posts))
    BY <1>1, FS_Interval
  <2>2. \A i \in 1..Len(posts) : i \in Nat
    BY <1>1
  <2> QED
    BY <2>1, <2>2
<1>3. Listed(target) \subseteq 1..Len(posts)
  BY <1>1 DEF Listed
<1>4. \A ids \in SUBSET Listed(target) : ids \in SUBSET (1..Len(posts))
  BY <1>3
<1> QED
  BY <1>1, <1>2, <1>3, <1>4, FS_Subset

LEMMA ThreadInitially == ASSUME ThreadInit PROVE ThreadInv
<1>1. /\ begun \in Nat /\ 1 <= begun
      /\ posts = [i \in 1..begun |-> [by |-> "user", root |-> Thread, now |-> "posted"]]
      /\ refs = {} /\ call.op = "none" /\ cursor = NoCursor /\ shown = <<>> /\ lost = {}
      /\ since.target = Thread /\ since.upto = 0
  BY DEF ThreadInit, NoCall
<1>2. PostsInv
  <2>1. [by |-> "user", root |-> Thread, now |-> "posted"] \in Messages
    BY DEF Messages, Thread
  <2>2. posts \in [1..begun -> Messages]
    BY <1>1, <2>1
  <2>3. posts \in Seq(Messages)
    BY <1>1, <2>2
  <2>4. Thread \in DOMAIN posts
    BY <1>1 DEF Thread
  <2> QED
    BY <2>3, <2>4 DEF PostsInv
<1>3. Len(posts) \in Nat /\ \A i \in Listed(Thread) : ~(i <= 0)
  BY <1>2, ListedType
<1>4. Range(shown) = {} /\ Ascends(shown) /\ shown \in Seq(Nat)
  BY <1>1, NoCursorType
<1>5. ShownInv
  BY <1>1, <1>3, <1>4, NoCursorType DEF ShownInv, Chain, CursorFits, Thread, Timeline
<1>6. ReadInv /\ ShowInv
  BY <1>1 DEF ReadInv, ShowInv
<1>7. OwnInv
  BY <1>1 DEF OwnInv
<1> QED
  BY <1>2, <1>5, <1>6, <1>7 DEF ThreadInv

\* What others, and the agent, do to the channel: no message comes back, and
\* what is new comes after all there was.
Moves ==
  /\ posts' \in Seq(Messages) /\ Len(posts) \in Nat /\ Len(posts') \in Nat
  /\ Len(posts) <= Len(posts')
  /\ \A i \in DOMAIN posts : i \in DOMAIN posts' /\ posts'[i].by = posts[i].by
  /\ \A i \in Listed(Thread)' : i \in DOMAIN posts => i \in Listed(Thread)
  /\ \A i \in Listed(Timeline)' : i \in DOMAIN posts => i \in Listed(Timeline)

LEMMA AppendMoves ==
  ASSUME PostsInv, NEW m \in Messages, posts' = Append(posts, m)
  PROVE  /\ Moves /\ DOMAIN posts' = DOMAIN posts \cup {Len(posts) + 1}
         /\ Len(posts) + 1 \notin DOMAIN posts /\ posts'[Len(posts) + 1] = m
         /\ \A i \in DOMAIN posts : posts'[i] = posts[i]
<1>1. /\ Len(posts) \in Nat /\ posts' \in Seq(Messages) /\ Len(posts') = Len(posts) + 1
      /\ DOMAIN posts = 1..Len(posts) /\ DOMAIN posts' = 1..(Len(posts) + 1)
      /\ \A i \in 1..Len(posts) : posts'[i] = posts[i]
      /\ posts'[Len(posts) + 1] = m
  BY DEF PostsInv
<1>2. DOMAIN posts' = DOMAIN posts \cup {Len(posts) + 1} /\ Len(posts) + 1 \notin DOMAIN posts
  BY <1>1
<1>3. \A i \in DOMAIN posts : i \in DOMAIN posts' /\ posts'[i].by = posts[i].by
  BY <1>1, <1>2
<1>4. \A i \in Listed(Thread)' : i \in DOMAIN posts => i \in Listed(Thread)
  BY <1>1 DEF Listed, There, Gone
<1>5. \A i \in Listed(Timeline)' : i \in DOMAIN posts => i \in Listed(Timeline)
  BY <1>1 DEF Listed, There, Gone
<1> QED
  BY <1>1, <1>2, <1>3, <1>4, <1>5 DEF Moves

LEMMA ChangeMoves ==
  ASSUME PostsInv, NEW i \in DOMAIN posts, There(i), NEW w \in {"edited", "deleted", "retracted"},
         posts' = [posts EXCEPT ![i].now = w]
  PROVE  /\ Moves /\ DOMAIN posts' = DOMAIN posts /\ posts'[i].now = w
         /\ \A j \in DOMAIN posts : j # i => posts'[j] = posts[j]
<1>1. /\ Len(posts) \in Nat /\ DOMAIN posts = 1..Len(posts)
      /\ \A j \in DOMAIN posts : posts[j] \in Messages
  BY DEF PostsInv
<1>2. posts' = [j \in DOMAIN posts |-> IF j = i THEN [posts[i] EXCEPT !.now = w] ELSE posts[j]]
  BY <1>1
<1>3. /\ [posts[i] EXCEPT !.now = w] \in Messages
      /\ [posts[i] EXCEPT !.now = w].by = posts[i].by /\ [posts[i] EXCEPT !.now = w].now = w
      /\ [posts[i] EXCEPT !.now = w].root = posts[i].root
  BY <1>1 DEF Messages
<1>4. /\ DOMAIN posts' = DOMAIN posts
      /\ posts'[i].by = posts[i].by /\ posts'[i].root = posts[i].root /\ posts'[i].now = w
      /\ \A j \in DOMAIN posts : j # i => posts'[j] = posts[j]
  BY <1>2, <1>3
<1>5. posts' \in Seq(Messages) /\ Len(posts') = Len(posts)
  <2>1. posts' \in [1..Len(posts) -> Messages]
    BY <1>1, <1>2, <1>3
  <2> QED
    BY <1>1, <2>1
<1>6. \A j \in DOMAIN posts : /\ posts'[j].by = posts[j].by /\ posts'[j].root = posts[j].root
                             /\ Gone(j) => Gone(j)'
  BY <1>4 DEF There, Gone
<1>7. Listed(Thread)' \subseteq Listed(Thread) /\ Listed(Timeline)' \subseteq Listed(Timeline)
  BY <1>4, <1>6 DEF Listed, There
<1> QED
  BY <1>1, <1>4, <1>5, <1>6, <1>7 DEF Moves

\* The pages shown so far still stand.
LEMMA ChainStays ==
  ASSUME PostsInv, Moves, NEW target, NEW pages, NEW next, NEW upto, Chain(target, pages, next, upto)
  PROVE  Chain(target, pages, next, upto)'
<1>1. /\ upto <= Len(posts') /\ Range(pages) \cup Range(next.pending) \subseteq DOMAIN posts'
  BY DEF Chain, Moves
<1>2. \A i \in Nat : i <= upto /\ i # 0 => i \in DOMAIN posts
  BY DEF PostsInv, Chain
<1>3. \A i \in DOMAIN posts' : i \in Nat /\ i # 0
  BY DEF Moves
<1>4. \A i \in Listed(Thread)' \cup Listed(Timeline)' : i \in DOMAIN posts'
  BY DEF Listed
<1>5. /\ \A i \in Listed(Thread)' : i <= upto => i \in Listed(Thread)
      /\ \A i \in Listed(Timeline)' : i <= upto => i \in Listed(Timeline)
  BY <1>2, <1>3, <1>4 DEF Moves
<1> QED
  BY <1>1, <1>5 DEF Chain

LEMMA MovesKeep ==
  ASSUME ShownInv, ReadInv, ShowInv, PostsInv, Moves, UNCHANGED <<cursor, shown, since>>,
         \/ call' = call
         \/ call'.op \notin {"read", "show"}
  PROVE  ShownInv' /\ ReadInv' /\ ShowInv'
<1>1. ShownInv'
  <2>1. Chain(since.target, shown, cursor, since.upto)'
    <3>1. PICK target, pages, next, upto :
            target = since.target /\ pages = shown /\ next = cursor /\ upto = since.upto
      OBVIOUS
    <3>2. Chain(target, pages, next, upto)
      BY <3>1 DEF ShownInv
    <3>3. Chain(target, pages, next, upto)'
      BY <3>2, ChainStays
    <3>4. target = since'.target /\ pages = shown' /\ next = cursor' /\ upto = since'.upto
      BY <3>1
    <3> QED
      BY <3>3, <3>4 DEF Chain
  <2> QED
    BY <2>1 DEF ShownInv, CursorFits
<1>2. ReadInv'
  BY DEF ReadInv, Moves
<1>3. ShowInv'
  <2> SUFFICES ASSUME call'.op = "show" PROVE ShowInv'
    BY DEF ShowInv
  <2>1. call' = call /\ ShowInv /\ call.op = "show"
    OBVIOUS
  <2>2. Chain(call.target, Joined, call.next, call.began)'
    <3>1. PICK target, pages, next, upto :
            target = call.target /\ pages = Joined /\ next = call.next /\ upto = call.began
      OBVIOUS
    <3>2. Chain(target, pages, next, upto)
      BY <2>1, <3>1 DEF ShowInv
    <3>3. Chain(target, pages, next, upto)'
      BY <3>2, ChainStays
    <3>4. target = call'.target /\ pages = Joined' /\ next = call'.next /\ upto = call'.began
      BY <2>1, <3>1 DEF Joined
    <3> QED
      BY <3>3, <3>4 DEF Chain
  <2> QED
    BY <2>1, <2>2 DEF ShowInv, CursorFits, Moves
<1> QED
  BY <1>1, <1>2, <1>3

\* References are minted for messages of a page, never for a post of the
\* agent's that waits for one.
LEMMA MintKeepsOwn ==
  ASSUME OwnInv, PostsInv, NEW ids \in SUBSET DOMAIN posts, refs' = Mint(ids, FALSE),
         UNCHANGED <<posts, lost>>, call.op # "posted", call'.op \in {"none", "read", "show"}
  PROVE  OwnInv'
<1>1. \A i \in ids : i \in Nat /\ i \in DOMAIN posts
  BY DEF PostsInv
<1>2. ASSUME NEW r \in refs'
      PROVE  /\ r \in [id : Nat, own : BOOLEAN] /\ r.id \in DOMAIN posts
             /\ r.own <=> posts[r.id].by = "agent" /\ r.id \notin lost
  <2>1. CASE r \in refs
    BY <2>1 DEF OwnInv
  <2>2. CASE r \notin refs
    <3>1. PICK i \in ids : r = [id |-> i, own |-> FALSE \/ \E q \in refs : q.id = i /\ q.own]
      BY <2>2 DEF Mint
    <3>2. r \in [id : Nat, own : BOOLEAN] /\ r.id = i /\ (r.own <=> \E q \in refs : q.id = i /\ q.own)
      BY <1>1, <3>1
    <3>3. (\E q \in refs : q.id = i /\ q.own) <=> posts[i].by = "agent" /\ i \notin lost
      BY <1>1 DEF OwnInv
    <3> QED
      BY <1>1, <3>2, <3>3
  <2> QED
    BY <2>1, <2>2
<1>3. ASSUME NEW r \in refs PROVE \E q \in refs' : q.id = r.id
  <2>1. CASE r.id \in ids
    <3>1. [id |-> r.id, own |-> FALSE \/ \E q \in refs : q.id = r.id /\ q.own] \in refs'
      BY <2>1 DEF Mint
    <3> QED
      BY <3>1
  <2>2. CASE r.id \notin ids
    BY <2>2 DEF Mint
  <2> QED
    BY <2>1, <2>2
<1>4. ASSUME NEW i \in DOMAIN posts, posts[i].by = "agent", i \notin lost
      PROVE  \E q \in refs' : q.id = i
  <2>1. PICK r \in refs : r.id = i
    BY <1>4 DEF OwnInv
  <2> QED
    BY <1>3, <2>1
<1>5. /\ lost \subseteq DOMAIN posts
      /\ \A i \in DOMAIN posts : posts[i].now \in {"edited", "retracted"} => posts[i].by = "agent"
  BY DEF OwnInv
<1>6. refs' \subseteq [id : Nat, own : BOOLEAN]
  BY <1>2
<1>7. \A r \in refs' : /\ r.id \in DOMAIN posts
                     /\ (r.own <=> posts[r.id].by = "agent" /\ r.id \notin lost)
  BY <1>2
<1>8. \A i \in DOMAIN posts : posts[i].by = "agent" /\ i \notin lost => \E q \in refs' : q.id = i
  BY <1>4
<1> QED
  BY <1>5, <1>6, <1>7, <1>8 DEF OwnInv

LEMMA OthersKeep == ASSUME ThreadInv, OthersPost \/ OthersDelete PROVE ThreadInv'
<1>1. CASE OthersPost
  <2>1. PICK root \in {Thread, Len(posts) + 1} :
          posts' = Append(posts, [by |-> "user", root |-> root, now |-> "posted"])
    BY <1>1 DEF OthersPost
  <2>2. UNCHANGED <<refs, call, cursor, shown, since, lost>>
    BY <1>1 DEF OthersPost
  <2> DEFINE m == [by |-> "user", root |-> root, now |-> "posted"]
  <2>3. m \in Messages /\ m.by = "user" /\ m.now = "posted"
    BY <2>1 DEF ThreadInv, PostsInv, Messages, Thread
  <2> HIDE DEF m
  <2>4. /\ Moves /\ DOMAIN posts' = DOMAIN posts \cup {Len(posts) + 1}
        /\ Len(posts) + 1 \notin DOMAIN posts /\ posts'[Len(posts) + 1] = m
        /\ \A i \in DOMAIN posts : posts'[i] = posts[i]
    BY <2>1, <2>3, AppendMoves DEF ThreadInv, m
  <2>5. OwnInv'
    BY <2>2, <2>3, <2>4 DEF ThreadInv, OwnInv
  <2> QED
    BY <2>2, <2>4, <2>5, MovesKeep DEF ThreadInv, PostsInv, Moves
<1>2. CASE OthersDelete
  <2>1. PICK i \in DOMAIN posts \ {Thread} : There(i) /\ posts' = [posts EXCEPT ![i].now = "deleted"]
    BY <1>2 DEF OthersDelete
  <2>2. UNCHANGED <<refs, call, cursor, shown, since, lost>>
    BY <1>2 DEF OthersDelete
  <2>3. /\ Moves /\ DOMAIN posts' = DOMAIN posts /\ posts'[i].now = "deleted"
        /\ \A j \in DOMAIN posts : j # i => posts'[j] = posts[j]
    BY <2>1, ChangeMoves DEF ThreadInv
  <2>4. \A j \in DOMAIN posts : posts'[j].by = posts[j].by
    BY <2>3 DEF Moves
  <2>5. OwnInv'
    BY <2>2, <2>3, <2>4 DEF ThreadInv, OwnInv
  <2> QED
    BY <2>2, <2>3, <2>5, MovesKeep DEF ThreadInv, PostsInv, Moves
<1> QED
  BY <1>1, <1>2

LEMMA PostKeeps ==
  ASSUME ThreadInv, NEW root \in {Thread, Timeline}, Post(root)
  PROVE  ThreadInv'
<1> DEFINE id == Len(posts) + 1
           m == [by |-> "agent", root |-> IF root = Timeline THEN id ELSE root, now |-> "posted"]
<1>1. /\ call.op = "none" /\ posts' = Append(posts, m) /\ UNCHANGED <<refs, cursor, shown, since>>
      /\ \/ call' = [op |-> "posted", id |-> id] /\ lost' = lost
         \/ call' = NoCall /\ lost' = lost \cup {id}
  BY DEF Post, NoCall
<1>2. m \in Messages /\ m.by = "agent" /\ m.now = "posted"
  BY DEF ThreadInv, PostsInv, Messages, Thread, Timeline
<1> HIDE DEF m
<1>3. /\ Moves /\ DOMAIN posts' = DOMAIN posts \cup {id}
      /\ id \notin DOMAIN posts /\ posts'[id] = m
      /\ \A i \in DOMAIN posts : posts'[i] = posts[i]
  BY <1>1, <1>2, AppendMoves DEF ThreadInv
<1> HIDE DEF id
<1>4. \/ call'.op = "posted" /\ call'.id = id /\ lost' = lost
      \/ call'.op = "none" /\ lost' = lost \cup {id}
  BY <1>1 DEF NoCall
<1>5. OwnInv'
  <2>1. id \notin lost
    BY <1>3 DEF ThreadInv, OwnInv
  <2> QED
    BY <1>1, <1>2, <1>3, <1>4, <2>1 DEF ThreadInv, OwnInv
<1> QED
  BY <1>1, <1>3, <1>4, <1>5, MovesKeep DEF ThreadInv, PostsInv, Moves

LEMMA ChangeKeeps ==
  ASSUME ThreadInv, NEW r \in refs, Edit(r) \/ Retract(r)
  PROVE  ThreadInv'
<1>1. PICK w \in {"edited", "retracted"} : posts' = [posts EXCEPT ![r.id].now = w]
  BY DEF Edit, Retract
<1>2. /\ r.own /\ There(r.id) /\ UNCHANGED <<refs, call, cursor, shown, since, lost>>
  BY DEF Edit, Retract
<1>3. r.id \in DOMAIN posts /\ posts[r.id].by = "agent"
  BY <1>2 DEF ThreadInv, OwnInv
<1>4. /\ Moves /\ DOMAIN posts' = DOMAIN posts
      /\ \A j \in DOMAIN posts : j # r.id => posts'[j] = posts[j]
  BY <1>1, <1>2, <1>3, ChangeMoves DEF ThreadInv
<1>5. \A j \in DOMAIN posts : posts'[j].by = posts[j].by
  BY <1>4 DEF Moves
<1>6. OwnInv'
  BY <1>2, <1>3, <1>4, <1>5 DEF ThreadInv, OwnInv
<1> QED
  BY <1>2, <1>4, <1>6, MovesKeep DEF ThreadInv, PostsInv, Moves

LEMMA RegisterKeeps == ASSUME ThreadInv, Register PROVE ThreadInv'
<1>1. /\ call.op = "posted" /\ call'.op = "none" /\ refs' = Mint({call.id}, TRUE)
      /\ UNCHANGED <<posts, cursor, shown, since, lost>>
  BY DEF Register, NoCall
<1>2. /\ call.id \in DOMAIN posts /\ call.id \in Nat /\ call.id \notin lost
      /\ posts[call.id].by = "agent"
  BY <1>1 DEF ThreadInv, PostsInv, OwnInv
<1> DEFINE new == [id |-> call.id, own |-> TRUE]
<1>3. refs' = {r \in refs : r.id # call.id} \cup {new}
  BY <1>1 DEF Mint
<1>4. new.id = call.id /\ new.own /\ new \in [id : Nat, own : BOOLEAN]
  BY <1>2
<1> HIDE DEF new
<1>5. refs' \subseteq [id : Nat, own : BOOLEAN]
  BY <1>3, <1>4 DEF ThreadInv, OwnInv
<1>6. OwnInv'
  <2>1. \A i \in DOMAIN posts : posts[i].by = "agent" /\ i \notin lost => \E r \in refs' : r.id = i
    BY <1>3, <1>4 DEF ThreadInv, OwnInv
  <2>2. \A r \in refs' : /\ r.id \in DOMAIN posts
                       /\ (r.own <=> posts[r.id].by = "agent" /\ r.id \notin lost)
    BY <1>2, <1>3, <1>4 DEF ThreadInv, OwnInv
  <2> QED
    BY <1>1, <1>5, <2>1, <2>2 DEF ThreadInv, OwnInv
<1>7. PostsInv' /\ ReadInv' /\ ShowInv'
  BY <1>1 DEF ThreadInv, PostsInv, ReadInv, ShowInv
<1>8. ShownInv'
  BY <1>1 DEF ThreadInv, ShownInv, CursorFits, Chain, Listed, There, Gone
<1> QED
  BY <1>6, <1>7, <1>8 DEF ThreadInv

\* A read begins: nothing is put together yet.
LEMMA ReadKeeps ==
  ASSUME ThreadInv, NEW target \in {Thread, Timeline}, NEW limit \in Limits,
         Read(target, limit) \/ ReadOn(limit)
  PROVE  ThreadInv'
<1>1. /\ call.op = "none" /\ call'.op = "read" /\ call'.limit = limit
      /\ UNCHANGED <<posts, refs, cursor, shown, since, lost>>
      /\ \/ call'.target = target /\ call'.cont = NoCursor /\ call'.began = Len(posts)
         \/ /\ cursor # NoCursor /\ call'.target = cursor.scope /\ call'.cont = cursor
            /\ call'.began = since.upto
  BY DEF Read, ReadOn, NoCall
<1>2. limit \in Nat \ {0}
  BY LimitsAssumption
<1>3. PostsInv' /\ ShowInv'
  BY <1>1 DEF ThreadInv, PostsInv, ShowInv
<1>4. ShownInv'
  BY <1>1 DEF ThreadInv, ShownInv, CursorFits, Chain, Listed, There, Gone
<1>5. ReadInv'
  <2>1. cursor # NoCursor => cursor.scope = since.target
    BY DEF ThreadInv, ShownInv, CursorFits
  <2>2. /\ since.target \in {Thread, Timeline} /\ since.upto \in Nat /\ since.upto <= Len(posts)
        /\ Len(posts) \in Nat
    BY DEF ThreadInv, ShownInv, Chain, PostsInv
  <2> QED
    BY <1>1, <1>2, <2>1, <2>2 DEF ReadInv
<1>6. OwnInv'
  BY <1>1 DEF ThreadInv, OwnInv
<1> QED
  BY <1>3, <1>4, <1>5, <1>6 DEF ThreadInv

\* The page is shown, or as much of it as was handled before a failure.
LEMMA ShowKeeps == ASSUME ThreadInv, Show PROVE ThreadInv'
<1>1. /\ call.op = "show" /\ call'.op = "none" /\ refs' = Mint(Range(call.page), FALSE)
      /\ cursor' = call.next /\ since'.target = call.target /\ since'.upto = call.began
      /\ shown' = Joined /\ UNCHANGED <<posts, lost>>
  BY DEF Show, NoCall, Joined
<1>2. ShowInv
  BY DEF ThreadInv
<1>3. OwnInv'
  BY <1>1, <1>2, MintKeepsOwn DEF ThreadInv, ShowInv
<1>4. PostsInv' /\ ReadInv' /\ ShowInv'
  BY <1>1 DEF ThreadInv, PostsInv, ReadInv, ShowInv
<1>5. ShownInv'
  <2>1. /\ call.target \in {Thread, Timeline} /\ CursorFits(call.next, call.target)
        /\ Chain(call.target, Joined, call.next, call.began)
    BY <1>1, <1>2 DEF ShowInv
  <2>2. Chain(since.target, shown, cursor, since.upto)'
    BY <1>1, <2>1 DEF Chain, Listed, There, Gone
  <2> QED
    BY <1>1, <2>1, <2>2 DEF ShownInv, CursorFits
<1> QED
  BY <1>3, <1>4, <1>5 DEF ThreadInv

LEMMA ReadFailsKeeps == ASSUME ThreadInv, ReadFails PROVE ThreadInv'
<1>1. /\ call.op \in {"read", "show"} /\ call'.op = "none"
      /\ UNCHANGED <<posts, cursor, shown, since, lost>>
  BY DEF ReadFails, NoCall
<1>2. OwnInv'
  <2>1. CASE call.op = "show"
    <3>1. PICK n \in 0..Len(call.page) : refs' = Mint(Range(First(call.page, n)), FALSE)
      BY <2>1 DEF ReadFails
    <3>2. call.page \in Seq(Nat) /\ n \in Nat /\ Range(call.page) \subseteq DOMAIN posts
      BY <2>1, <3>1 DEF ThreadInv, ShowInv
    <3>3. Range(First(call.page, n)) \subseteq Range(call.page)
      <4>1. /\ First(call.page, n) \in Seq(Nat)
            /\ Len(First(call.page, n)) <= Len(call.page) /\ Len(call.page) \in Nat
            /\ \A i \in 1..Len(First(call.page, n)) : First(call.page, n)[i] = call.page[i]
        BY <3>2, FirstOf
      <4>2. \A i \in 1..Len(First(call.page, n)) : i \in 1..Len(call.page)
        BY <4>1
      <4>3. ASSUME NEW x \in Range(First(call.page, n)) PROVE x \in Range(call.page)
        <5>1. PICK i \in 1..Len(First(call.page, n)) : x = First(call.page, n)[i]
          BY <4>1, RangeOf
        <5>2. i \in 1..Len(call.page) /\ x = call.page[i]
          BY <4>1, <4>2, <5>1
        <5> QED
          BY <3>2, <5>2, RangeOf
      <4> QED
        BY <4>3
    <3> QED
      BY <1>1, <2>1, <3>1, <3>2, <3>3, MintKeepsOwn DEF ThreadInv
  <2>2. CASE call.op = "read"
    <3>1. refs' = refs
      BY <2>2 DEF ReadFails
    <3> QED
      BY <1>1, <2>2, <3>1 DEF ThreadInv, OwnInv
  <2> QED
    BY <1>1, <2>1, <2>2
<1>3. PostsInv' /\ ReadInv' /\ ShowInv'
  BY <1>1 DEF ThreadInv, PostsInv, ReadInv, ShowInv
<1>4. ShownInv'
  BY <1>1 DEF ThreadInv, ShownInv, CursorFits, Chain, Listed, There, Gone
<1> QED
  BY <1>2, <1>3, <1>4 DEF ThreadInv

\* What the pages of the chain before this one hold.
Before == IF call.cont = NoCursor THEN {} ELSE Range(shown)

\* A page is cut from "raw", which goes on where the pages before it ended.
LEMMA CutKeeps ==
  ASSUME ThreadInv, call.op = "read", NEW raw \in Seq(Nat), NEW next \in Nat,
         Cut(raw, next, call.limit, call.target), UNCHANGED <<posts, refs, cursor, shown, since, lost>>,
         Ascends(raw), Range(raw) \subseteq DOMAIN posts,
         call.target = Thread =>
           /\ \A x \in Before, y \in Range(raw) : x < y
           /\ next # 0 => \A x \in Before \cup Range(raw) : x <= next
           /\ \A i \in Listed(Thread) :
                i <= call.began => i \in Before \cup Range(raw) \/ (next # 0 /\ next < i),
         call.target = Timeline =>
           /\ Len(raw) <= call.limit
           /\ \A x \in Range(raw), y \in Before : x < y
           /\ next # 0 => \A x \in Before \cup Range(raw) : next <= x
           /\ \A i \in Listed(Timeline) :
                i <= call.began => i \in Before \cup Range(raw) \/ (next # 0 /\ i < next)
  PROVE  ThreadInv'
<1> DEFINE page == First(raw, call.limit)
           rest == Rest(raw, call.limit)
           left == IF next # 0 \/ Len(raw) > call.limit
                   THEN [scope |-> call.target, pending |-> rest, oldest |-> next]
                   ELSE NoCursor
<1>1. /\ call.target \in {Thread, Timeline} /\ call.limit \in Nat \ {0} /\ call.began \in Nat
      /\ call.began <= Len(posts)
  BY DEF ThreadInv, ReadInv
<1>2. /\ call'.op = "show" /\ call'.target = call.target /\ call'.limit = call.limit
      /\ (call'.fresh <=> call.cont = NoCursor) /\ call'.began = call.began
      /\ call'.page = page /\ call'.next = left
  BY DEF Cut
<1>3. /\ page \in Seq(Nat) /\ rest \in Seq(Nat) /\ Len(page) <= call.limit
      /\ Range(raw) = Range(page) \cup Range(rest) /\ Ascends(page) /\ Ascends(rest)
      /\ \A x \in Range(page), y \in Range(rest) : x < y
  BY <1>1, CutInTwo
<1>4. Len(raw) <= call.limit => Range(rest) = {}
  <2> SUFFICES ASSUME Len(raw) <= call.limit PROVE Range(rest) = {}
    OBVIOUS
  <2>1. Len(rest) = 0
    BY <1>1, RestOf
  <2>2. 1..Len(rest) = {}
    BY <2>1
  <2> QED
    BY <1>3, <2>2, RangeOf
<1> HIDE DEF page, rest
<1>5. /\ left.pending \in Seq(Nat) /\ Range(left.pending) = Range(rest) /\ Ascends(left.pending)
      /\ left.oldest = next
  <2>1. CASE next # 0 \/ Len(raw) > call.limit
    BY <1>3, <2>1
  <2>2. CASE ~(next # 0 \/ Len(raw) > call.limit)
    <3>1. Range(rest) = {} /\ next = 0
      BY <1>1, <1>4, <2>2
    <3> QED
      BY <2>2, <3>1, NoCursorType
  <2> QED
    BY <2>1, <2>2
<1>6. CursorFits(left, call.target)
  <2>1. CASE next # 0 \/ Len(raw) > call.limit
    <3>1. left.scope = call.target /\ left.oldest = next
      BY <2>1
    <3>2. call.target = Timeline => next # 0
      BY <1>1, <2>1
    <3> QED
      BY <3>1, <3>2 DEF CursorFits
  <2>2. CASE ~(next # 0 \/ Len(raw) > call.limit)
    BY <2>2 DEF CursorFits
  <2> QED
    BY <2>1, <2>2
<1> HIDE DEF left
<1>7. /\ shown \in Seq(Nat) /\ Ascends(shown) /\ Range(shown) \subseteq DOMAIN posts
  BY DEF ThreadInv, ShownInv, Chain
<1>8. /\ Joined' \in Seq(Nat) /\ Range(Joined') = Before \cup Range(page) /\ Ascends(Joined')
      /\ Before \subseteq DOMAIN posts
  <2>1. CASE call.cont = NoCursor
    BY <1>2, <1>3, <2>1 DEF Joined, Before
  <2>2. CASE call.cont # NoCursor /\ call.target = Thread
    <3>1. Joined' = shown \o page
      BY <1>2, <2>2 DEF Joined
    <3>2. Before = Range(shown) /\ \A x \in Range(shown), y \in Range(page) : x < y
      BY <1>3, <2>2 DEF Before
    <3> QED
      BY <1>3, <1>7, <2>2, <3>1, <3>2, ConcatAscends
  <2>3. CASE call.cont # NoCursor /\ call.target = Timeline
    <3>1. Joined' = page \o shown
      BY <1>2, <2>3 DEF Joined, Thread, Timeline
    <3>2. Before = Range(shown) /\ \A x \in Range(page), y \in Range(shown) : x < y
      BY <1>3, <2>3 DEF Before
    <3> QED
      BY <1>3, <1>7, <2>3, <3>1, <3>2, ConcatAscends
  <2> QED
    BY <1>1, <2>1, <2>2, <2>3
<1>9. Chain(call.target, Joined, call.next, call.began)'
  <2>1. /\ call'.next.pending \in Seq(Nat) /\ call'.next.oldest = next
        /\ Range(call'.next.pending) = Range(rest) /\ Ascends(call'.next.pending)
    BY <1>2, <1>5
  <2>2. Range(Joined') \cup Range(call'.next.pending) = Before \cup Range(raw)
    BY <1>3, <1>8, <2>1
  <2>3. \A x \in Range(Joined'), y \in Range(call'.next.pending) :
          call.target = Thread => x < y
    BY <1>3, <1>8, <2>1
  <2>4. call.target = Timeline => Range(rest) = {}
    BY <1>4
  <2>5. \A x \in Range(Joined'), y \in Range(call'.next.pending) : x < y
    BY <1>1, <2>1, <2>3, <2>4
  <2>6. /\ Listed(Thread)' = Listed(Thread) /\ Listed(Timeline)' = Listed(Timeline)
        /\ posts' = posts
    BY DEF Listed, There, Gone
  <2>7. call.target = Thread =>
          /\ next # 0 => \A x \in Range(Joined') \cup Range(call'.next.pending) : x <= next
          /\ \A i \in Listed(Thread) :
               i <= call.began =>
                 i \in Range(Joined') \cup Range(call'.next.pending) \/ (next # 0 /\ next < i)
    BY <2>2
  <2>8. call.target = Timeline =>
          /\ Range(call'.next.pending) = {}
          /\ next # 0 => \A x \in Range(Joined') : next <= x
          /\ \A i \in Listed(Timeline) :
               i <= call.began => i \in Range(Joined') \/ (next # 0 /\ i < next)
    BY <2>1, <2>2, <2>4
  <2> QED
    BY <1>1, <1>2, <1>8, <2>1, <2>2, <2>5, <2>6, <2>7, <2>8 DEF Chain
<1>10. ShowInv'
  <2>1. Range(page) \subseteq DOMAIN posts
    BY <1>3
  <2>2. CursorFits(call.next, call.target)'
    BY <1>2, <1>6 DEF CursorFits
  <2>3. /\ call'.target \in {Thread, Timeline} /\ call'.limit \in Nat \ {0}
        /\ call'.page \in Seq(Nat) /\ Len(call'.page) <= call'.limit
        /\ Range(call'.page) \subseteq DOMAIN posts'
    BY <1>1, <1>2, <1>3, <2>1
  <2> QED
    BY <1>9, <2>2, <2>3 DEF ShowInv
<1>11. PostsInv' /\ ReadInv'
  BY <1>2 DEF ThreadInv, PostsInv, ReadInv
<1>12. ShownInv'
  BY DEF ThreadInv, ShownInv, CursorFits, Chain, Listed, There, Gone
<1>13. OwnInv'
  BY <1>2 DEF ThreadInv, OwnInv
<1> QED
  BY <1>10, <1>11, <1>12, <1>13 DEF ThreadInv

\* The first page of a thread, its root with it.
LEMMA FirstThreadPageKeeps ==
  ASSUME ThreadInv, ThreadPage, call.cont = NoCursor
  PROVE  ThreadInv'
<1> DEFINE ids == {i \in Listed(Thread) : i > Thread}
           later == Ascending(ids)
           page == First(later, call.limit)
           raw == Ascending(Range(page) \cup {Thread})
           next == IF Len(later) > call.limit THEN Last(page) ELSE 0
<1>1. /\ call.op = "read" /\ call.target = Thread /\ call.limit \in Nat \ {0}
      /\ UNCHANGED <<posts, refs, cursor, shown, since, lost>> /\ Before = {}
  BY DEF ThreadPage, ThreadInv, ReadInv, Before
<1>2. /\ ids \in SUBSET Nat /\ IsFiniteSet(ids)
      /\ ids \subseteq Listed(Thread) /\ Listed(Thread) \subseteq DOMAIN posts
  BY ListedType DEF ThreadInv
<1>3. /\ page \in Seq(Nat) /\ Range(page) \subseteq ids /\ Len(later) \in Nat
      /\ Len(later) <= call.limit => Range(page) = ids
      /\ Len(later) > call.limit => /\ Last(page) \in Range(page)
                                    /\ \A x \in Range(page) : x <= Last(page)
                                    /\ \A x \in ids \ Range(page) : Last(page) < x
  BY <1>1, <1>2, PageOfReplies
<1>4. Cut(raw, next, call.limit, Thread)
  <2>1. call.cont.pending = <<>> /\ Len(call.cont.pending) = 0
    BY NoCursorType
  <2>2. call.limit - Len(call.cont.pending) = call.limit
    BY <1>1, <2>1
  <2>3. call.cont.pending \o page = page
    BY <1>3, <2>1
  <2> QED
    BY <2>2, <2>3 DEF ThreadPage, Replies
<1> HIDE DEF page, later
<1>5. /\ raw \in Seq(Nat) /\ Ascends(raw) /\ Range(raw) = Range(page) \cup {Thread}
      /\ Range(raw) \subseteq DOMAIN posts
  <2>1. Range(page) \in SUBSET Nat /\ IsFiniteSet(Range(page))
    BY <1>3, RangeOf
  <2>2. Range(page) \cup {Thread} \in SUBSET Nat
    BY <2>1 DEF Thread
  <2>3. IsFiniteSet(Range(page) \cup {Thread})
    BY <2>1, FS_AddElement
  <2>4. Thread \in DOMAIN posts
    BY DEF ThreadInv, PostsInv
  <2> QED
    BY <1>2, <1>3, <2>2, <2>3, <2>4, AscendingOrders
<1> HIDE DEF raw
<1>6. \A i \in ids : i \in Nat /\ Thread < i
  <2>1. \A i \in ids : i \in Nat
    BY <1>2
  <2>2. \A i \in ids : i > Thread
    OBVIOUS
  <2> QED
    BY <2>1, <2>2 DEF Thread
<1>7. \A i \in Listed(Thread) : i = Thread \/ i \in ids
  <2>1. \A i \in Listed(Thread) : i \in 1..Len(posts) /\ Len(posts) \in Nat
    BY <1>2, ListedType DEF ThreadInv
  <2> QED
    BY <2>1 DEF Thread
<1> HIDE DEF ids
<1>8. CASE Len(later) > call.limit
  <2>1. next = Last(page) /\ next \in Nat /\ next # 0 /\ Thread <= next
    BY <1>3, <1>6, <1>8 DEF Thread
  <2>2. \A x \in Range(raw) : x <= next
    BY <1>3, <1>5, <1>8, <2>1
  <2>3. \A i \in Listed(Thread) : i \in Range(raw) \/ next < i
    BY <1>3, <1>5, <1>7, <1>8, <2>1
  <2> HIDE DEF next
  <2> QED
    BY <1>1, <1>4, <1>5, <2>1, <2>2, <2>3, CutKeeps DEF Thread, Timeline
<1>9. CASE ~(Len(later) > call.limit)
  <2>1. next = 0 /\ Range(page) = ids
    BY <1>1, <1>3, <1>9
  <2>2. \A i \in Listed(Thread) : i \in Range(raw)
    BY <1>5, <1>7, <2>1
  <2> HIDE DEF next
  <2> QED
    BY <1>1, <1>4, <1>5, <2>1, <2>2, CutKeeps DEF Thread, Timeline
<1> QED
  BY <1>8, <1>9

\* A later page: what was pending, and from the provider what room is left for.
LEMMA NextThreadPageKeeps ==
  ASSUME ThreadInv, ThreadPage, call.cont # NoCursor
  PROVE  ThreadInv'
<1> DEFINE pending == call.cont.pending
           oldest == call.cont.oldest
           asked == call.limit - Len(pending)
           ids == {i \in Listed(Thread) : i > oldest}
           later == Ascending(ids)
           page == First(later, asked)
           raw == Ascending(Range(pending \o page))
           next == IF Len(later) > asked THEN Last(page) ELSE 0
<1>1. /\ call.op = "read" /\ call.target = Thread /\ call.limit \in Nat \ {0}
      /\ UNCHANGED <<posts, refs, cursor, shown, since, lost>>
      /\ call.cont = cursor /\ since.target = Thread /\ call.began = since.upto
      /\ Before = Range(shown)
  BY DEF ThreadPage, ThreadInv, ReadInv, Before
<1>2. Chain(Thread, shown, call.cont, call.began)
  BY <1>1 DEF ThreadInv, ShownInv
<1>3. /\ pending \in Seq(Nat) /\ oldest \in Nat /\ Ascends(pending)
      /\ Range(shown) \cup Range(pending) \subseteq DOMAIN posts
      /\ \A x \in Range(shown), y \in Range(pending) : x < y
      /\ oldest # 0 => \A x \in Range(shown) \cup Range(pending) : x <= oldest
      /\ \A i \in Listed(Thread) :
           i <= call.began =>
             i \in Range(shown) \cup Range(pending) \/ (oldest # 0 /\ oldest < i)
  BY <1>2 DEF Chain
<1>4. CASE asked > 0 /\ oldest # 0
  <2>1. asked \in Nat \ {0}
    BY <1>1, <1>3, <1>4
  <2>2. /\ ids \in SUBSET Nat /\ IsFiniteSet(ids) /\ ids \subseteq Listed(Thread)
        /\ Listed(Thread) \subseteq DOMAIN posts
    BY ListedType DEF ThreadInv
  <2> HIDE DEF asked
  <2>3. /\ page \in Seq(Nat) /\ Range(page) \subseteq ids /\ Len(later) \in Nat
        /\ Len(later) <= asked => Range(page) = ids
        /\ Len(later) > asked => /\ Last(page) \in Range(page)
                                 /\ \A x \in Range(page) : x <= Last(page)
                                 /\ \A x \in ids \ Range(page) : Last(page) < x
    BY <2>1, <2>2, PageOfReplies
  <2>4. Cut(raw, next, call.limit, Thread)
    BY <1>4 DEF ThreadPage, Replies, asked
  <2> HIDE DEF page, later
  <2>5. /\ raw \in Seq(Nat) /\ Ascends(raw) /\ Range(raw) = Range(pending) \cup Range(page)
        /\ Range(raw) \subseteq DOMAIN posts
    <3>1. pending \o page \in Seq(Nat) /\ Range(pending \o page) = Range(pending) \cup Range(page)
      BY <1>3, <2>3, ConcatAscends
    <3>2. Range(pending \o page) \in SUBSET Nat /\ IsFiniteSet(Range(pending \o page))
      BY <3>1, RangeOf
    <3> QED
      BY <1>3, <2>2, <2>3, <3>1, <3>2, AscendingOrders
  <2> HIDE DEF raw
  <2>6. \A i \in ids : i \in Nat /\ oldest < i
    <3>1. \A i \in ids : i \in Nat
      BY <2>2
    <3>2. \A i \in ids : i > oldest
      OBVIOUS
    <3> QED
      BY <1>3, <3>1, <3>2
  <2>7. \A i \in Listed(Thread) :
          i <= call.began => i \in Range(shown) \cup Range(pending) \/ i \in ids
    <3>1. \A i \in Listed(Thread) : i \in Nat
      BY ListedType DEF ThreadInv
    <3> QED
      BY <1>3, <3>1
  <2> HIDE DEF ids
  <2>8. \A x \in Range(shown) \cup Range(pending) : x \in Nat /\ x <= oldest
    <3>1. \A x \in DOMAIN posts : x \in Nat
      BY DEF ThreadInv, PostsInv
    <3> QED
      BY <1>3, <1>4, <3>1
  <2> HIDE DEF pending, oldest
  <2>9. \A x \in Range(shown), y \in Range(raw) : x < y
    <3>1. ASSUME NEW x \in Range(shown), NEW y \in Range(page) PROVE x < y
      BY <1>3, <2>3, <2>6, <2>8
    <3> QED
      BY <1>3, <2>5, <3>1
  <2>10. CASE Len(later) > asked
    <3>1. next = Last(page) /\ next \in Nat /\ oldest < next
      BY <2>3, <2>6, <2>10
    <3>2. next # 0
      BY <1>3, <3>1
    <3>3. \A x \in Range(shown) \cup Range(raw) : x <= next
      <4>1. \A x \in Range(shown) \cup Range(pending) : x <= next
        BY <1>3, <2>8, <3>1
      <4>2. \A x \in Range(page) : x <= next
        BY <2>3, <2>10, <3>1
      <4> QED
        BY <2>5, <4>1, <4>2
    <3>4. \A i \in Listed(Thread) :
            i <= call.began => i \in Range(shown) \cup Range(raw) \/ (next # 0 /\ next < i)
      BY <2>3, <2>5, <2>7, <2>10, <3>1, <3>2
    <3> HIDE DEF next
    <3> QED
      BY <1>1, <2>4, <2>5, <2>9, <3>1, <3>3, <3>4, CutKeeps DEF Thread, Timeline
  <2>11. CASE ~(Len(later) > asked)
    <3>1. next = 0 /\ Range(page) = ids
      BY <2>1, <2>3, <2>11
    <3>2. \A i \in Listed(Thread) : i <= call.began => i \in Range(shown) \cup Range(raw)
      BY <2>5, <2>7, <3>1
    <3> HIDE DEF next
    <3> QED
      BY <1>1, <2>4, <2>5, <2>9, <3>1, <3>2, CutKeeps DEF Thread, Timeline
  <2> QED
    BY <2>10, <2>11
<1>5. CASE ~(asked > 0 /\ oldest # 0)
  <2>1. Cut(pending, oldest, call.limit, Thread)
    BY <1>5 DEF ThreadPage
  <2> HIDE DEF pending, oldest
  <2> QED
    BY <1>1, <1>3, <2>1, CutKeeps DEF Thread, Timeline
<1> QED
  BY <1>4, <1>5

\* A page of the timeline, before the page the cursor was given with.
LEMMA TimelinePageKeeps == ASSUME ThreadInv, TimelinePage PROVE ThreadInv'
<1> DEFINE ids == {i \in Listed(Timeline) : call.cont.oldest = 0 \/ i < call.cont.oldest}
           older == Reverse(Ascending(ids))
           page == First(older, call.limit)
           raw == Reverse(page)
           next == IF Len(older) > call.limit THEN Last(page) ELSE 0
<1>1. /\ call.op = "read" /\ call.target = Timeline /\ call.limit \in Nat \ {0}
      /\ UNCHANGED <<posts, refs, cursor, shown, since, lost>>
      /\ Cut(raw, next, call.limit, Timeline)
  BY DEF TimelinePage, History, ThreadInv, ReadInv
<1>2. /\ ids \in SUBSET Nat /\ IsFiniteSet(ids) /\ ids \subseteq Listed(Timeline)
      /\ Listed(Timeline) \subseteq DOMAIN posts
  BY ListedType DEF ThreadInv
<1>3. /\ raw \in Seq(Nat) /\ Len(raw) <= call.limit /\ Ascends(raw)
      /\ Range(raw) \subseteq ids /\ Len(older) \in Nat
      /\ Len(older) <= call.limit => Range(raw) = ids
      /\ Len(older) > call.limit => /\ Last(page) \in Range(raw)
                                    /\ \A x \in Range(raw) : Last(page) <= x
                                    /\ \A x \in ids \ Range(raw) : x < Last(page)
  BY <1>1, <1>2, PageOfHistory
<1> HIDE DEF older, page, raw
<1>4. Range(raw) \subseteq DOMAIN posts /\ \A i \in DOMAIN posts : i \in Nat /\ i # 0
  BY <1>2, <1>3 DEF ThreadInv, PostsInv
<1>5. /\ \A x \in Before : x \in Nat /\ call.cont.oldest <= x
      /\ Before # {} => call.cont.oldest # 0
      /\ call.cont.oldest \in Nat
      /\ \A i \in Listed(Timeline) :
           i <= call.began => i \in Before \/ call.cont.oldest = 0 \/ i < call.cont.oldest
  <2>1. CASE call.cont = NoCursor
    BY <2>1, NoCursorType DEF Before
  <2>2. CASE call.cont # NoCursor
    <3>1. call.cont = cursor /\ since.target = Timeline /\ call.began = since.upto
      BY <1>1, <2>2 DEF ThreadInv, ReadInv
    <3>2. Chain(Timeline, shown, call.cont, call.began) /\ CursorFits(call.cont, Timeline)
      BY <3>1 DEF ThreadInv, ShownInv
    <3>3. call.cont.oldest # 0
      BY <2>2, <3>2 DEF CursorFits
    <3>4. Before = Range(shown)
      BY <2>2 DEF Before
    <3> QED
      BY <1>4, <3>2, <3>3, <3>4 DEF Chain
  <2> QED
    BY <2>1, <2>2
<1>6. \A i \in ids : i \in Nat /\ i # 0 /\ (call.cont.oldest = 0 \/ i < call.cont.oldest)
  BY <1>2, <1>4
<1>7. \A i \in Listed(Timeline) : i <= call.began => i \in Before \/ i \in ids
  BY <1>5
<1> HIDE DEF ids
<1>8. \A x \in Range(raw), y \in Before : x < y
  <2> SUFFICES ASSUME NEW x \in Range(raw), NEW y \in Before PROVE x < y
    OBVIOUS
  <2>1. x \in Nat /\ y \in Nat /\ x < call.cont.oldest /\ call.cont.oldest <= y
    BY <1>3, <1>5, <1>6
  <2> QED
    BY <1>5, <2>1
<1>9. CASE Len(older) > call.limit
  <2>1. next = Last(page) /\ next \in Nat /\ next # 0 /\ next \in Range(raw)
    BY <1>3, <1>6, <1>9
  <2>2. \A x \in Before \cup Range(raw) : next <= x
    <3>1. \A x \in Before : x \in Nat /\ next < x
      BY <1>5, <1>8, <2>1
    <3> QED
      BY <1>3, <1>9, <2>1, <3>1
  <2>3. \A i \in Listed(Timeline) :
          i <= call.began => i \in Before \cup Range(raw) \/ (next # 0 /\ i < next)
    BY <1>3, <1>7, <1>9, <2>1
  <2> HIDE DEF next
  <2> QED
    BY <1>1, <1>3, <1>4, <1>8, <2>1, <2>2, <2>3, CutKeeps DEF Thread, Timeline
<1>10. CASE ~(Len(older) > call.limit)
  <2>1. next = 0 /\ Range(raw) = ids
    BY <1>1, <1>3, <1>10
  <2>2. \A i \in Listed(Timeline) : i <= call.began => i \in Before \cup Range(raw)
    BY <1>7, <2>1
  <2> HIDE DEF next
  <2> QED
    BY <1>1, <1>3, <1>4, <1>8, <2>1, <2>2, CutKeeps DEF Thread, Timeline
<1> QED
  BY <1>9, <1>10

LEMMA ThreadNextKeeps == ASSUME ThreadInv, [ThreadNext]_threadVars PROVE ThreadInv'
<1>1. CASE UNCHANGED threadVars
  <2>1. PostsInv' /\ ReadInv' /\ ShowInv' /\ OwnInv'
    <3>1. ShowInv'
      BY <1>1 DEF threadVars, ThreadInv, ShowInv, Joined, CursorFits, Chain, Listed, There, Gone
    <3> QED
      BY <1>1, <3>1 DEF threadVars, ThreadInv, PostsInv, ReadInv, OwnInv
  <2>2. ShownInv'
    BY <1>1 DEF threadVars, ThreadInv, ShownInv, CursorFits, Chain, Listed, There, Gone
  <2> QED
    BY <2>1, <2>2 DEF ThreadInv
<1>2. CASE ThreadNext
  <2>1. CASE OthersPost \/ OthersDelete
    BY <2>1, OthersKeep
  <2>2. ASSUME NEW target \in {Thread, Timeline}, NEW limit \in Limits, Read(target, limit)
        PROVE  ThreadInv'
    BY <2>2, ReadKeeps
  <2>3. ASSUME NEW limit \in Limits, ReadOn(limit) PROVE ThreadInv'
    BY <2>3, ReadKeeps
  <2>4. CASE ThreadPage \/ TimelinePage \/ Show \/ ReadFails \/ Register
    BY <2>4, FirstThreadPageKeeps, NextThreadPageKeeps, TimelinePageKeeps, ShowKeeps,
       ReadFailsKeeps, RegisterKeeps
  <2>5. ASSUME NEW root \in {Thread, Timeline}, Post(root) PROVE ThreadInv'
    BY <2>5, PostKeeps
  <2>6. ASSUME NEW r \in refs, Edit(r) \/ Retract(r) PROVE ThreadInv'
    BY <2>6, ChangeKeeps
  <2> QED
    BY <1>2, <2>1, <2>2, <2>3, <2>4, <2>5, <2>6 DEF ThreadNext
<1> QED
  BY <1>1, <1>2

\* The invariant says what the two properties of the channel ask for.
LEMMA ThreadProperties == ASSUME ThreadInv PROVE PagesAreComplete /\ OwnMessagesOnly
<1>1. Ascends(shown) /\ Chain(since.target, shown, cursor, since.upto)
  BY DEF ThreadInv, ShownInv, Chain
<1>2. cursor = NoCursor =>
        {i \in Listed(since.target) : i <= since.upto} \subseteq Range(shown)
  <2> SUFFICES ASSUME cursor = NoCursor, NEW i \in Listed(since.target), i <= since.upto
               PROVE  i \in Range(shown)
    OBVIOUS
  <2>1. cursor.oldest = 0 /\ Range(cursor.pending) = {}
    BY NoCursorType
  <2>2. since.target = Thread \/ since.target = Timeline
    BY DEF ThreadInv, ShownInv
  <2> QED
    BY <1>1, <2>1, <2>2 DEF Chain
<1>3. PagesAreComplete
  BY <1>1, <1>2 DEF ThreadInv, ShowInv, PagesAreComplete, Ascends
<1>4. OwnMessagesOnly
  BY DEF ThreadInv, OwnInv, OwnMessagesOnly
<1> QED
  BY <1>3, <1>4

-----------------------------------------------------------------------------
(* The session                                                             *)

SessionInv == LaunchInv /\ ModelInv /\ GuardInv /\ ThreadInv /\ AskInv

LEMMA SessionInitially == Init => SessionInv
<1> SUFFICES ASSUME Init PROVE SessionInv
  OBVIOUS
<1>1. ModelInv
  BY DEF Init, LaunchInit, TurnInit, ModelInv, AcceptsPrompts, Reloading, Starting
<1>2. GuardInv
  <2>1. <<>> \in Seq({"user", "corrective"})
    OBVIOUS
  <2> QED
    BY <2>1 DEF Init, TurnInit, GuardInit, GuardInv, GuardTypeOK, GuardRemembers, GuardWatches,
                Watching, RequestsAreSettled
<1> QED
  BY <1>1, <1>2, LaunchInitially, ThreadInitially, AskInitially DEF Init, SessionInv

\* What the scene does not touch stays.
LEMMA LaunchStays ==
  ASSUME LaunchInv, ModelInv, GuardInv, UNCHANGED launch
  PROVE  LaunchInv' /\ ModelInv' /\ GuardInv'
<1> USE DEF launch, launchVars, turnVars, guardVars
<1>1. LaunchInv'
  BY DEF LaunchInv, LaunchTypeOK, StateFits, Noted, NotedEnv, NotedRuntime, NotedMcporter
<1>2. ModelInv'
  BY DEF ModelInv, AcceptsPrompts, Reloading, Fits
<1>3. GuardInv'
  BY DEF GuardInv, GuardTypeOK, GuardRemembers, GuardWatches, Watching, RequestsAreSettled
<1> QED
  BY <1>1, <1>2, <1>3

LEMMA SessionKeeps == SessionInv /\ [Next]_vars => SessionInv'
<1> SUFFICES ASSUME SessionInv, [Next]_vars PROVE SessionInv'
  OBVIOUS
<1> USE DEF SessionInv
<1>1. CASE (TurnStep \/ LaunchStep) /\ UNCHANGED <<threadVars, askVars>>
  <2>1. LaunchInv' /\ ModelInv'
    BY <1>1, LaunchStepKeeps, LaunchStepFits, TurnStepFits
  <2>2. GuardInv'
    BY <1>1, <2>1, TurnStepGuards, LaunchStepGuards
  <2> QED
    BY <1>1, <2>1, <2>2, ThreadNextKeeps, AskNextKeeps
<1>2. CASE ThreadNext /\ UNCHANGED <<launch, askVars>>
  BY <1>2, LaunchStays, ThreadNextKeeps, AskNextKeeps
<1>3. CASE AskNext /\ UNCHANGED <<launch, threadVars>>
  BY <1>3, LaunchStays, ThreadNextKeeps, AskNextKeeps
<1>4. CASE UNCHANGED vars
  <2>1. UNCHANGED launch /\ UNCHANGED threadVars /\ UNCHANGED askVars
    BY <1>4 DEF vars
  <2> QED
    BY <2>1, LaunchStays, ThreadNextKeeps, AskNextKeeps
<1> QED
  BY <1>1, <1>2, <1>3, <1>4 DEF Next

LEMMA SessionAlways == Spec => []SessionInv
  BY SessionInitially, SessionKeeps, PTL DEF Spec

\* A prompt goes to the model of the Recipe, with its tools or none, however
\* often the session is started, reloaded or edited before it.
THEOREM OwnModel == Spec => []NoForeignModel
<1>1. SessionInv => NoForeignModel
  BY DEF SessionInv, ModelInv, Fits, Reloading, NoForeignModel
<1> QED
  BY <1>1, SessionAlways, PTL

\* The process ends with the user's launch selection, without a private runtime
\* and with the MCPORTER_CONFIG it was given, or one of cli mode, and no reload
\* takes a resolved selection for the user's, but for what "spoiled" lists.
THEOREM ProcessHandedBack == Spec => []HandsBackTheProcess
<1>1. SessionInv => HandsBackTheProcess
  <2> SUFFICES ASSUME LaunchInv PROVE HandsBackTheProcess
    BY DEF SessionInv
  <2>1. "env" \notin spoiled => inputs = "user" /\ (at = "gone" => agentEnv = "user")
    BY DEF LaunchInv, Noted, NotedEnv
  <2>2. at = "gone" /\ "runtime" \notin spoiled => runtimes = 0
    BY DEF LaunchInv, Noted, NotedRuntime
  <2>3. at = "gone" /\ "mcporter" \notin spoiled =>
          mcporterEnv # "none" /\ (~cli => mcporterEnv = "user")
    BY DEF LaunchInv, Noted, NotedMcporter
  <2> QED
    BY <2>1, <2>2, <2>3 DEF HandsBackTheProcess
<1> QED
  BY <1>1, SessionAlways, PTL

\* A run for a channel that ends normally has delivered a final reply, or the
\* user has seen that it did not.
THEOREM RequestsSettled == Spec => []RequestsAreSettled
<1>1. SessionInv => RequestsAreSettled
  BY DEF SessionInv, GuardInv, GuardWatches
<1> QED
  BY <1>1, SessionAlways, PTL

\* A request is sent back at most once, reported failed at most once, and
\* neither after its final reply.
THEOREM CorrectedOnce == Spec => NudgedOnce
<1> DEFINE Step ==
      /\ nudges' > nudges => nudges = 0 /\ ~answered
      /\ failures' > failures => failures = 0 /\ nudges = 1 /\ ~answered
<1>1. SessionInv /\ [Next]_vars => [Step]_guardVars
  <2> SUFFICES ASSUME GuardInv, [Next]_vars PROVE Step \/ UNCHANGED guardVars
    BY DEF SessionInv
  <2>1. failures \in Nat /\ nudges \in Nat
    BY DEF GuardInv, GuardTypeOK, GuardRemembers
  <2>2. CASE UNCHANGED guardVars
    BY <2>2
  <2>3. CASE Guarded
    BY <2>1, <2>3 DEF Guarded
  <2>4. CASE GuardMessage
    BY <2>1, <2>4 DEF GuardMessage, NewRequest, GuardInv, GuardRemembers
  <2>5. CASE \E final, delivered \in BOOLEAN : Reply(final, delivered)
    BY <2>1, <2>5 DEF Reply
  <2>6. CASE Correct
    BY <2>1, <2>6 DEF Correct, Unanswered, GuardInv, GuardRemembers
  <2>7. CASE ReportFailure
    BY <2>1, <2>7 DEF ReportFailure, Unanswered, GuardInv, GuardRemembers
  <2> QED
    BY <2>2, <2>3, <2>4, <2>5, <2>6, <2>7
    DEF Next, vars, launch, TurnStep, LaunchStep, Prompt, AgentStart, ReplyTool, LetEnd
<1> QED
  BY <1>1, SessionAlways, PTL DEF Spec, NudgedOnce

\* However a thread or a timeline is paged while others post and delete, its
\* pages are in order, within their limit, and leave nothing out.
THEOREM PagesComplete == Spec => []PagesAreComplete
<1>1. SessionInv => PagesAreComplete
  BY ThreadProperties DEF SessionInv
<1> QED
  BY <1>1, SessionAlways, PTL

\* The store of references never takes another's message for the agent's own,
\* nor loses one of its own, and only those are edited or retracted.
THEOREM OwnMessages == Spec => []OwnMessagesOnly
<1>1. SessionInv => OwnMessagesOnly
  BY ThreadProperties DEF SessionInv
<1> QED
  BY <1>1, SessionAlways, PTL

\* Whatever the channel of a request and whenever it is aborted, its outcome
\* is what the user meant.
THEOREM UsersOutcome == Spec => []OutcomeIsTheUsers
<1>1. SessionInv => OutcomeIsTheUsers
  BY DEF SessionInv, AskInv
<1> QED
  BY <1>1, SessionAlways, PTL

=============================================================================
