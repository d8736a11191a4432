# A verification development for pi-recipes

This directory holds TLA+ models of the parts of pi-recipes that run
concurrently, survive failures or depend on the order of events, TLC
configurations that check them on small instances, and TLAPS proofs of what
matters most for every size. The code is the reference: every definition names
the lines it stands for in `PROJECT.json` ("map"), under "hazards" is what in this
code is hard to test, and each checked property has a small change of the model
(the operators marked `FAULT`, used nowhere else) that it detects.

To check a module: `tlc -config RunController.cfg MC_RunController.tla`, and so on;
to prove one: `tlapm RunControllerProofs.tla`.

## 1. The system

pi-recipes packages agents ("recipes") for the Pi coding agent. A recipe names
agents with their instructions, models, tools, MCP servers, channels and
subagents. It runs as an embedded session (`src/src/session.ts`), as a Pi
extension (`src/src/pi-extension.ts`), or from CLIs. All of it is single-threaded
Node.js except for three boundaries: the MCP daemon is a process of its own, CLIs
and Pi processes come and go, and files are shared between them.

| Component | State | Operations | Hard because |
| --- | --- | --- | --- |
| In-process run controller (`run-controller.ts`, contract in `agents.ts`) | per run: status, handle, settled promise, waiters; slots and their queue | start, message, wait, interrupt, close, shutdown; the turns themselves | every call may arrive between two awaits of a turn; slots are handed over through promises |
| Pi extension: local child runs (`pi-extension.ts`, `child-agent.ts`) | `childRuns`, `run.promise`, the runner's session | the same calls, without slots | the runner's session appears late; outcome and stop race |
| Completion queue (`child-agent-completions.ts`) | pending envelopes, window timer, scheduled flag, retry timer | enqueue, acknowledge, poke, deliver | four ways to deliver, and a parent that is busy when it is tried |
| Run store (`child-agent-store.ts`, `pi-extension.ts`) | `status.json` per run, chained writes, run index | writeStatus, list, rehydrate | crash between truncation and write, failing writes, ids given out again |
| MCP daemon start and stop (`mcp-daemon-client.ts`, `mcp-daemon.ts`, `mcp.ts`) | lock file, socket path, daemon process | ensure, break a stale lock, spawn, listen, stop | several processes, each system call on its own |
| MCP tool calls (same files) | map of active requests, connections, abort controllers | call, cancel, time out, reply, shut down | cancel and request travel on two connections; side effects may or may not have happened |
| MCP catalogs (`mcp-daemon.ts`) | cached result, current loop, demand flag | preload, join, strict and partial requests | requests arrive during discovery, delay and the end of the loop |
| Recipe session (`session.ts`) | leased environments, acquired resources | configure, load, create, bind, dispose, fail anywhere | many awaits, each may throw; background warm-up |
| `mcp run` (`mcp-cli-core.ts`, `mcp-run-worker.ts`, `mcp-daemon.ts`) | the script, its calls, a queue for their slots, a worker | issue, start, settle, time out, abort, close | the script is any JavaScript and leaves calls behind; two timeouts, of which one kills |
| Native client and shell supervisor (`crates/pi-mcp-client`, the shim of `mcp.ts`) | what has been read and sent | connect, read stdin, send, interrupt, hand over with status 75 | a retry after something was consumed |
| Catalog cache (`mcp-cli-core.ts`) | a cache file and its lock | read, lock, judge, break, list, write | several processes; a lock is judged by age or by its owner |
| Interactions (`interactions.ts`, `interaction-tui.ts`) | one pending request | ask, confirm, dismiss, abort, resume | a dialog resolves alike for a dismissal, an expiry and an abort |
| Channels (`channels/`) and the Slack adapter | reply guard flags, references, cursors | reply, corrective follow-up, read, post, edit, retract | a turn that must end in exactly one reply; pages of a thread that changes |
| Extension launch and reload (`pi-extension.ts`) | launch state, error, model, tools, private MCP runtime, environment | session_start, input, hooks, reload, shutdown | handlers that wait while others of the same session run; a Recipe that changes on disk |
| MCP policy and tools (`mcp-policy.ts`, `mcp-tools.ts`, `tool-search.ts`, ...) | session file, active tools | select, merge, materialise, search, authorise | five places filter the same tools |
| Recipe resolution (`recipe-*.ts`) and the Recipe checker (Rust) | none | read, validate, inherit, merge | two programs that have to agree |
| Memory index, bindings, build scripts | none | truncate, re-export | |

How they interact: the `agent` tool and the host call a run controller; the
controller of the extension queues notices in the completion queue, which wakes the
parent session, and persists each change through the run store; a session or the
extension provisions MCP by writing coordinates into an environment, which children
and CLIs read when they start or call the daemon; the daemon's requests use the
catalog that its preload loop provides. Disposal goes the other way: child runs, the
session, its taps, then the daemon and the environment.

### What makes each correct

- Run controllers: one turn per run; only that turn settles the run; what was
  stopped stays stopped; a free slot is not left idle; whoever waits is woken; after
  shutdown nothing runs and no session is left.
- Completion queue: a queued outcome will be delivered, failures at once; the model
  is not told again what it has seen.
- Run store: the file ends as the memory was; ids are unique; old runs can be found.
- Daemon: one starter at a time, no lock left behind, a started daemon reachable;
  errors say truthfully whether the tool may have run; calls, requests and waits end.
- Session: whatever fails, resources are let go of in order and the host's
  environment is as it was.
- `mcp run`: the limit on calls is kept, "not started" is true, nothing is cut off by a
  script that ends well, and the command ends.
- Extension: a session that could not be set up never answers; a shutdown gives the
  process back. A channel run ends with a reply or a visible failure. What the model
  reads as the user's decision is the user's.
- Recipes: what the checker passes resolves; an agent is what its line of inheritance
  says; no call reaches a server unless package and agent allow the tool.

## 2. The modules

| Module | Models | Checked by | Proved in |
| --- | --- | --- | --- |
| `AgentRunContract` | what `agents.ts` lets a caller see of a run's life; the abstract specification of both controllers | as `KeepsContract` | `RunControllerProofs`, `LocalRunsProofs` |
| `RunController` | `createInProcessRunController` | `RunController.cfg` | `RunControllerProofs` |
| `LocalRuns` | the extension's controller and its runner | `LocalRuns.cfg` | `LocalRunsProofs` |
| `CompletionQueue` | queue, deliverer and the tool's readers | `CompletionQueue.cfg` | `CompletionQueueProofs` |
| `RunStore` | store, sessions, restore | `RunStore.cfg` | `SessionStateProofs` |
| `McpDaemonStart` | `ensureMcpDaemon`, the daemon's startup and end | `McpDaemonStart.cfg` | `McpClientProofs` |
| `CallContract` | what the daemon's error messages promise about side effects; the abstract specification of `McpCall` | as `KeepsContract` | `McpRequestProofs` |
| `McpCall` | one call through the daemon, with its cancellation | `McpCall.cfg` | `McpRequestProofs` |
| `CatalogPreload` | the preload loop and the requests around it | `CatalogPreload.cfg` | `McpRequestProofs` |
| `SessionLease` | CLI-mode sessions over a host's environment | `SessionLease.cfg` | `SessionStateProofs` |
| `McpWorkflow` | one `mcp run`: script, queue, calls, timeouts, settlement, worker | through `McpClient` | `McpClientProofs` |
| `McpClient` | the shim and the native client over `McpWorkflow` | `McpClient.cfg` | `McpClientProofs` |
| `CatalogCache` | `discoverServerCatalog` and its lock file | `CatalogCache.cfg` | `McpRequestProofs` |
| `PiTurn` | Pi's agent loop as its extensions see it (external) | through `PiSession` | `PiSessionProofs` |
| `ReplyGuard` | the channel reply guard, over `PiTurn` | through `PiSession` | `PiSessionProofs` |
| `RecipeLaunch` | launch state, reload and shutdown of the extension | through `PiSession` | `PiSessionProofs` |
| `ChannelThread` | the channels tool, its references and Slack's pages | through `PiSession` | `PiSessionProofs` |
| `Interactions` | one `askUser` request | through `PiSession` | `PiSessionProofs` |
| `PiSession` | the four composed: handlers run between the events of a turn | `PiSession.cfg` | `PiSessionProofs` |
| `McpPolicy` | tool selections and their validity | through `RecipeUse` | `RecipeUseProofs` |
| `RecipeSource` | a Recipe as parsed, before anything is believed about it | through `RecipeUse` | `RecipeUseProofs` |
| `RecipeChecker` | the diagnostics of `introspection-recipe-check` | through `RecipeUse` | `RecipeUseProofs` |
| `RecipeResolver` | `resolveRecipe`: session guard, inheritance, merges | through `RecipeUse` | `RecipeUseProofs` |
| `RecipeTools` | a session's MCP tools, tool search and calls | through `RecipeUse` | `RecipeUseProofs` |
| `RecipeUse` | edit, check, resolve, start a session, call | `RecipeUse.cfg` | `RecipeUseProofs` |

`MC_*` modules extend their module; `MC_RecipeUse` also lists the trees and the changes
that TLC tries. An action is the code from one resumption
to the next `await` (or one system call, where processes share files), with every
state change it makes; a promise that is awaited is a program counter value and a
guard. Variables have the names of the code's fields where it has them; those marked
"history" in the declarations are written by actions and read only by properties and
bounds. Components that do not interact but share a proof module have names of their own
(`CacheInit`, `PreloadNext`, `LeaseSpec`, `StartSpec`, ...).

**RunController.** A turn is one `executePrompt()`: `queued`, `woken`, `starting`
(slot held), `creating`, `discarding`, `prompting`, `done`. `active` and `queue` are
the semaphore; `ReleaseSlot` is the `finally` block, and a woken turn counts itself
only when it resumes (`ResumeQueued`), as in the code. A session is named by the turn
that created it. `SerialHost` says whether the host serialises its calls on a run;
the run uses TRUE, the proofs cover both.

**LocalRuns.** The same calls over `RecipeChildAgentSessionRunner`, whose `start()`
is not guarded: two callers that find no session create one each, and the one that is
overwritten becomes `lost`. Every call may come at any time: before the session exists,
while a stopped turn is still at work, while the runs are being closed. What the code
promises does not survive some of these sequences (section 5), and two history variables
say which turns and sessions they touch: `overtaken` has the stopped turns that a message
overtook, and `inHand` loses what no later close will await or dispose of, because a
message or a turn came beside it, its run was closed while it was stopped, or it was
launched on a run that is being closed.

**CompletionQueue.** `<<r, n>>` is the outcome of turn n of run r. Timers are flags
that may fire at any time. `seen` and `announced` record what the model was told, by
a tool result or by a message.

**RunStore.** Each session has its own chain of writes per run (`tail`); a write
truncates the file when it opens it. `Crash` ends a session at any point, `Reload`
when its runs are closed, `Boot`...`Restored` is the restore. `spoilt` records that
a write failed or that a session ended with one outstanding: the properties of what
the disk says hold until then, those of the chain always.

**McpDaemonStart.** Lock file and socket path are variables of the file system;
`path` says which process a connection reaches. `faults`, chosen in `Init`, says what
may go wrong: processes crash, deadlines expire (or spawning fails), daemons are
stopped. Every property names the faults it does not survive.

**McpCall.** `wire` is the state of the call's connection; `cancel` that of the
cancel request. `told` of the contract is what the caller knows: an error without
the warning "remote outcome is unknown" promises that the tool never runs.

**CatalogPreload.** A catalog is the set of servers that answered. `kept` counts the
discoveries a loop ends while a command waits for it.

**SessionLease.** `coords` says whose coordinates an environment holds; the warm-up
reads it at each of its steps. `hasty` records sessions that began to end while
their warm-up was under way.

**McpWorkflow, McpClient.** A call is `waiting`, `granted` a slot, `sent` and
`settled`; its `outcome` is what the script is told. `reached` is what the server has
seen, `remote` what it still works on. A call that was given a slot goes on in the
same turn of the event loop (`Turn`), so that giving up a slot, taking it and sending
are one action, as they are in `ToolCallQueue`. `counted` are the calls made before
the script ended, the ones `unsafeAtExit` is computed from. `McpClient` adds what a
try has read and sent, and the daemon's death; `place` says whether the script runs in
the daemon's worker, which can be killed, or in the command's own process.

**CatalogCache.** An action is one file operation. `crashes` and `stalls`, chosen in
`Init`, say whether processes die and whether a lock grows old under an owner that
lives. The lock that `BreakLock` and `Release` remove is whatever lock is there.

**RecipeLaunch, PiTurn, ReplyGuard, ChannelThread, Interactions, PiSession.** `at` is
the await of the extension's handler. `PiSession` conjoins what each extension does at
an event of the agent loop; `scene` says which part a behaviour exercises, because the
channel, the dialogs and the launch share no state beyond the turn. `McpMode` says of each
version of the Recipe how its root agent gets its MCP servers, so that an edit and a
reload may change the mode. A step of `configureMcp()` may fail where the code's does,
with what it had done by then: `spoiled` records what such a failure, a second
configuration or a rejecting close lost (section 5), one by one, `cli` that cli mode set
`MCPORTER_CONFIG`, and `lateWrites` the halves of a rejected `Promise.all` that still will. In `ChannelThread` a
message is its number; `shown` is the pages of one chain put together, `since` what
there was when it began. In `Interactions`, `meant` is what the user decided, set by
the user's actions; the code only sees the values that dialogs resolve to.

**McpPolicy, RecipeSource, RecipeChecker, RecipeResolver, RecipeTools, RecipeUse.** A
Recipe is a record: scalars sit at paths in mappings, a list is absent, malformed or a
sequence. `RecipeChecker` gives the diagnostics of each function of `lib.rs`,
`RecipeResolver` the errors and the result of each function of the runtime, translated
each from its own program. `RecipeUse` has an author make changes (`Edit`), and what
follows from the tree: the report, the agents or a refusal, a session and its calls.
What the program does by recursion (globs, inheritance, edits) is a recursive function
over positions. `IsTree` and `IsEdit` say what a tree and a change of one are made of:
their values may be anything, malformed ones included, as long as each part is there.

## 3. The runs

Each run checks its safety and liveness properties together, under fairness where there
is liveness; only `pi_session`, which has none, uses symmetry.

| Run | Bounds | Distinct states | Shows |
| --- | --- | --- | --- |
| `run_controller` | 2 runs, 3 turns, 1 call, 1 slot | 258,891 | `NobodyWaitsInVain`: a slot given up is handed on, and whatever settles a run wakes its waiters. `NoSessionIsLeft`: close() reaches every live session, and nothing is left after shutdown(). `StoppedTurnIsInert`: a stopped turn neither prompts nor settles. `KeepsContract`: the portable lifecycle, and turns end. |
| `local_runs` | 2 runs, 2 turns, 1 call | 502,086 | `StoppedIsSilent`: a stopped run is announced only if a message overtook its turn. `ShutdownCompletes`: shutdown returns and leaves nothing of what it had in hand. `KeepsContract`: the same contract, up to such a message. |
| `completion_queue` | 2 runs, 2 turns each, 3 in all, 1 wait | 129,399 | `EveryNoticeIsArmed`, `NoticesDrain`: a queued notice has something armed that delivers it, a failure without the window, and it is delivered or acknowledged. `NoticeIsNews`. |
| `run_store` | 2 runs, 2 writes in flight, 2 sessions, ids 1 and 2, 1 run where something is lost | 467,731 | `FilesFollowMemory`: one write of a run at a time, each returns, failing ones too, and the file ends as the memory was. `RestartKeepsRuns`: ids and outcomes that a restart finds. |
| `daemon_start` | 2 clients, 3 daemons, all faults | 136,943 | `LockIsKept`: the lock stands for one client that is starting. `DaemonIsReachable`. `CallsEnd`: calls return and stale locks go. |
| `mcp_call` | 2 calls | 36,009 | `KeepsContract`: errors are true about side effects. `ShutdownReachesAll`. `CallsEnd`: of callers relying on their own timer only, of requests while the daemon's awaits settle. |
| `catalog_preload` | 2 servers, 3 requests, 3 loops, 2 delays | 97,162 | `DemandIsBounded`: a command waits for at most two discoveries. `BackgroundKeepsTrying`: nobody's loop is cut short by a demand for another. `WaitsEnd`. |
| `session_lease` | 3 sessions, 1 environment | 31,987 | `EnvironmentsAreOwn`: an environment has the coordinates of its session, and then the host's. `SessionsLetGo`: of everything, in order. |
| `mcp_run` | 2 calls, 1 slot | 328,696 | `SlotsAreKept`: the limit holds and no slot idles. `RetriesAreSafe`: what is said not to have started never starts, and a second try repeats nothing. `NothingIsCutOff`: a script that ends well loses no call. `CommandEnds`, and its worker. |
| `catalog_cache` | 3 commands, all faults | 113,749 | `DiscoveryIsExclusive`: one command asks the server at a time, none once the cache is there. `LookupsEnd`: calls return, and a lock is its owner's on the way to removing it, or a dead one's. |
| `pi_session` | 3 versions, one per MCP mode, 3 starts, 1 reload, 2 edits, 1 follow-up; 2 replies, 2 posts, 1 deletion, pages of 1 and 2; 2 options | 3,484,322 | `NoForeignModel`: a session that could not be set up never answers. `HandsBackTheProcess`: selection, `MCPORTER_CONFIG` and private runtimes. `NudgedOnce`, `RequestsAreSettled`: one corrective attempt, then a reply or a visible failure. `PagesAreComplete`, `OwnMessagesOnly`, `OutcomeIsTheUsers`. |
| `recipe` | 3 trees, every 1 or 2 of their changes, sessions after at most 1 | 166,002 | `CheckedRecipesResolve`: what the checker passes the runtime resolves, apart from `Overlooked`. `ResolvedAsInherited`. `OnlyAuthorizedCalls`, `ActiveAsDeclared`: no filter of the five lets a tool through. |

**Why these bounds.** With one slot and three turns over two runs, one run follows
up while the other is queued; a second slot adds no new way to hand one on (the
proof covers every number). One call is parked, held or steering while everything
else moves. In `local_runs` two turns are one that was stopped and the one that
overtakes it, or one of each run; runs start in a fixed order, and the waiting or
steering call comes only while there is one run (`MCBound`, the run's constraint):
runs share nothing but `closeAllChildRuns()`. In the queue, three turns let one run be settled twice and the other
fail in between. In the store, two writes are one that is open and one that is
chained; `AtRisk` = 1 keeps executions in which something is lost to one run, two
runs without loss are enough for ids. Three daemons are one per client and one
replacement; the model shares code with two clients because a lock has one holder
and one rival. The real loop has more than two delays; what differs between them is
the first, the last and one in between. Three sessions are one that leases, one that
is refused and one that comes after. A script with two calls and one slot has a call
that waits; a third would wait behind it (`SlotsAreKept` says what a longer queue
relies on). Three commands are an owner, one that judges its lock and one that comes
between. Three versions are one of each MCP mode; with three
starts and one reload a Recipe loads, fails, changes and loads again on both sides of a
reload. A thread of up to five messages with pages of one
and two has a root alone on a page, a full page and a cut one. One follow-up waits
while another is at work. A line of inheritance has three agents: the top, the bottom
and one that both inherits and is inherited from; two changes let one hide or cause
what the other does. Sessions are started of Recipes with one change: tools depend on
a selection, and two selections that interact are written as one change.

**CHECK_DEADLOCK FALSE** everywhere: hosts may stop calling, and the bounded supplies
of turns, calls, writes, daemons and loops run out. That nothing waits for ever is
what the liveness properties are for.

**Fairness.** Continuations of promises run; file operations, `listen`, spawning
and connections finish; a child session's creation and prompt end in a result or an
error (Pi's own time limits); timers and microtasks fire. Hosts and users are under
no obligation. `CompletionQueue` also assumes that the parent's turns end again and
again, and that it rests for longer than the retry interval now and then (strong
fairness of `ParentEnds` and of a retry that finds it idle): the code retries for as
long as it is busy. `McpCall` relies on the caller's timer alone for `CallsReturn`;
`RequestsEnd` states what it needs of the server (`ServerSettles`) itself.
`McpDaemonStart` expects deadlines to expire only where `faults` has them.
`McpClient` assumes that timers fire, that a process that is killed ends and that the
client's system calls return, and nothing of the script, which may never end or yield.
`CatalogCache` assumes that file operations and the bounded listing complete and that a
lock which cannot be given up grows old; deadlines need not pass. `PiSession` and
`RecipeUse` state safety only.

## 4. What is proved

Each theorem is about every value of the constants that their named assumptions
admit: any set of runs, turns, calls, clients, daemons, servers, requests, loops,
versions or options, any number of slots, delays, messages and sessions. What a theorem
supposes beyond that is in its statement and named here. `TypeOK` is proved of each
component below, alone or as a part of its invariant.

**RunControllerProofs.** However the host calls: `AlwaysBacked`, a run that says
"running" has its latest turn in flight; `NobodyIsStranded` (`NobodyWaitsInVain`):
waiters are woken (`NoWaiterStranded`) and no slot idles while a turn is queued
(`PoolKept`), which takes that `active` is the number of turns that hold a slot
(`SlotAccounting`) and that the queue lists each queued turn once (`QueuedOnce`).
For a host that serialises its calls on a run (`SerialHost`): `NothingIsLeft`
(`NoSessionIsLeft`), `StoppedStaysStopped` (`StoppedTurnIsInert`) and
`ImplementsContract`, the refinement of `AgentRunContract`. Their invariant
(`SerialInv`) says of each turn that it is the latest of its run if it is in flight and
that what it made is the run's session or disposed of; of each run what its status
leaves possible; of each call that its run is not being closed under it; and of
shutdown that it closes every run. Section 5 has what happens to each of the three
under a host that does not serialise: the code does not ask for it, the theorems do.

**LocalRunsProofs.** None of these supposes anything of the host. `RunningIsBacked`
(`LocalAlwaysBacked`). `StopsAreSilent` (`StoppedIsSilent`): a stopped turn still at work
belongs to a run that says "interrupted", unless a message overtook it (`SilentInv`).
`LocalImplementsContract` (`KeepsContract`): one turn of a run works at a time, while it
is running or stopped (`WorkFits`); a run that left the map is closed to a caller, and so
is one on which a message overtook a stopped turn, as the contract forbids that message.
`NoChildIsLeft` (`ShutdownReleasesAll`): a turn in hand works alone, for a run in the map
whose session no close has disposed of, and every close that waits waits for it; a session
in hand that lives is held by such a run, and a lost one was met by the session of a
message (`HandInv`). It covers the stop of a child that has no session yet: `close()` of
the running run awaits the turn and disposes of what it made.

**CompletionQueueProofs.** `NoticesAreArmed` (`EveryNoticeIsArmed`) and the action
property `NoticeIsNews`. The invariant adds that a pending notice is of a settled,
latest turn and was neither seen nor announced.

**McpRequestProofs**, the three requests of the MCP daemon's clients. Calls:
`ShutdownIsComplete` (`ShutdownReachesAll`) and `ErrorsAreTrue` (`KeepsContract`), the
refinement of `CallContract`; `CallInv` ties what is on the wire to what the handler has
done: an unwarned error is only ever on the wire of a call whose tool did not run and
whose handler is done. Catalogs: `LoopIsAlone`, `DemandIsServed` (`DemandIsBounded`) and
`TriedInTheBackground` (`BackgroundKeepsTrying`); `LoopInv` bounds `kept` by what the
loop's phase and attempt allow, and lets only a demand for this very loop end it early.
The cache file: `OneDiscovery` (`DiscoveryIsExclusive`) and `NoLockIsLeft`
(`LockIsGivenUp`, the safety part of `LookupsEnd`): whoever dies or stalls, a lock belongs to
a call that is about to remove it or to one that died. `LockInv` has that, and while nobody
dies or stalls, who is past the creation of a lock owns the one that is there.

**SessionStateProofs**, what a session keeps outside itself. The environment:
`EnvironmentsKept` (`EnvironmentsAreOwn`) and `McpGoesLast` (`ReleasedLast`); a session
that holds its environment is its only holder and saw the host's coordinates there, so
putting back what it saw is putting back the host's. `DaemonsAreStopped` (`DaemonStops`):
in an environment whose sessions all waited for their warm-ups, only a session that is
built or open warms up, with its own coordinates, so the one that releases the
environment finds there the only daemon that can be its own (`DaemonInv`).
The run store: `WritersTakeTurns`
and `FilesAreTrue`, the two safety parts of `FilesFollowMemory`, and `RunsSurviveRestarts`
(`RestartKeepsRuns`). The chain of writes of a run is one list whose last element
carries the newest snapshot, each waits for the one before it, and an id that is on disk
is below the index of every later session.

**McpClientProofs**, `mcp run` and the start of the daemon it talks to. `SlotSafety`
(`SlotsAreKept`), `RetrySafety` (`RetriesAreSafe`), `SettledAtTheEnd` (`NothingIsCutOff`).
The queue lists the waiting calls once and is empty once cancelled; an outcome of "not
started" is of a settled call that was never sent; the calls that a script made and that
the wait at its end is not for are settled before it begins; a try that found no daemon has
read and sent nothing. The start: `LockStandsForStarting` (`LockIsKept`). `LockInv`: unless
clients die, who is between taking and giving up the lock is the one the file names, and
nobody is about to break it. `StartedIsReachable` (`DaemonIsReachable`), which is about
behaviours in which nothing crashes, expires or is stopped. Then (`Undisturbed`) one daemon
at most is on its way up, the holder of the lock is waiting for it, and one that was up and
is not reached is replaced at the path by the one that is.

**PiSessionProofs.** One invariant of five parts, as the composition has. `OwnModel`
(`NoForeignModel`) and `ProcessHandedBack` (`HandsBackTheProcess`): at each await of the
handler, whose model, tools, environment and runtime there are, and that a prompt is
taken only where they fit. `RequestsSettled` (`RequestsAreSettled`) and `CorrectedOnce`
(`NudgedOnce`): a run for a channel owes a reply until it was delivered, corrected and
failed. `PagesComplete` (`PagesAreComplete`): what is shown is what the thread had up to
the cursor, in ascending order, but for what was deleted since. `OwnMessages`
(`OwnMessagesOnly`). `UsersOutcome` (`OutcomeIsTheUsers`): at each dialog, what its value
means is what the user meant, unless the request is aborted.

**RecipeUseProofs.** For every set of trees, every sequence of edits and lines as long as
`MaxDepth` lets them be, for every `MaxDepth`. `RecipeInvariant`: the report and the agents
are those of the Recipe as it is (`UpToDate`), a session has what was materialised for one
of its agents (`SessionMade`), and what may ever be active or called passed the selections
of the session and of the agent (`ToolsMade`, `CallsMade`). From it:

- `AuthorizedCalls` (`OnlyAuthorizedCalls`) and `ActiveTools` (`ActiveAsDeclared`), whose
  one hard part is that the block the tools come from is the one of the nearest agent.
- `InheritedAsWritten` (`ResolvedAsInherited`). The resolver folds a line from its root;
  the property speaks of the nearest agent that says something. `PassedDown` and
  `NearestWins` bridge the two once, for anything that passes from place to place unless
  a place has its own, by induction over a set of places (`Induction`, from the
  well-foundedness of the order of the numbers: this needs no operator as a parameter);
  each field is then an instance.
- `CheckedResolve` (`CheckedRecipesResolve`), the two programs compared diagnostic by
  diagnostic. Edits make trees of trees (`EditedTree`, `TreeKept`). For an `Agreed` Recipe,
  one that the checker passes and that is none of the cases of section 5 (`Overlooked`):
  where only the checker's pattern matches a directory the runtime's matches all that is
  right below it (`GlobIsEntryOrAbove`), so both read the same files (`FilesAgree`) and find
  the same skills (`SkillsAgree`); `package.json` has no finding (`PackageAgrees`); every
  file is valid (`FileIsValid`); sources, parents and lines are the same (`SourcesAgree`,
  `LinesAgree`); every block `mcp` is, as parsed, the one that the checker kept
  (`BlockAgrees`), and fits the package (`PolicyAgrees`); each skill is there once and each
  subagent exists (`ResolvableAgents`).

`TreesAssumption` says of the trees and edits that are tried that they are some, and
`NamesAssumption` what names stand for (none is a step up, a trimmed text has no blanks
around it); TLC evaluates both for the trees it tries. The directories of skills are
finitely many.

What the proofs changed in the models: two arms of `UserDismisses` (`Interactions`)
overlapped for a request of several options, which left the dialog in `CASE` undecided;
the options of a question are now assumed to be finitely many and none of them to be the
text the user types (`OptionsAssumption`), as the code's array of labels and its separate
field are; the marker "prompting" in `RunStore` is not the name of a write; and
`Ascending` (`ChannelThread`) is defined by its positions. In the recipe modules the
recursion is by functions, globs are matched by the set of places where a match may
start, and `CheckedRecipesResolve` turned out false of one more kind of pattern than TLC
had been given (`EndsAtAFile`, section 5); the run now tries one.

Only model-checked: every liveness property, and with them the liveness parts of
`FilesFollowMemory`, `ShutdownCompletes`, `LookupsEnd`, `SessionsLetGo` and
`RunController`'s `KeepsContract`, which state both. Liveness under fairness and ENABLED are out of the
prover's reach. No safety invariant that a run checks is left without a theorem.

## 5. Seen while modelling

What the code does and a reader may not expect. The properties except these cases by
what they say of the host, of what was lost or of what failed.

Run controllers and notices:

- `run-controller.ts:34` says "Concurrent child runs; excess starts queue." A released
  slot lowers `active` at once, while the turn that is woken raises it a microtask later;
  a start in between takes the slot too, so more children than the limit may run.
- A host that messages a run right after interrupting it, while its session is being
  created, sets the status back to "running": the stopped turn then prompts. In the
  extension the same sequence (`pi-extension.ts:566` looks at the status only) lets a
  stopped turn announce a failure, and two turns work on one run (`overtaken`).
- `start()` during the awaits of `shutdown()` is not refused, and the new run is left.
- A held `message()` whose run is closed while it waits starts a turn on the closed run.
- In the extension, `close()` of a run that was interrupted while its session was being
  created does not wait for the turn (`pi-extension.ts:597`), and the session that arrives
  later is never disposed of. Nor does it wait for a turn that was launched beside the one
  it awaits, or on a run that is being closed; `inHand` has what remains. A message to a child without a session creates a second session and
  one of the two is lost.
- Acknowledging a run drops every notice with its id, so reading it while a later turn
  is under way may drop an outcome nobody was shown.
- A crash that leaves a truncated `status.json` makes the next session give its id out
  again. Two Pi processes in one workspace restore and write the same run directories
  (`child-agent-store.ts:115`); the store has no protection against it.

Daemon, calls and catalogs:

- A client that pinged before the first daemon was up may take the lock after it was
  given up and start a second daemon, which takes over the socket path; `DaemonIsReachable`
  still holds. A client that dies between creating the lock and writing its pid leaves
  a lock that is never stale. The last `rm` of a stopping daemon (`mcp-daemon.ts:375`) may
  remove a newer daemon's socket.
- A call that was cancelled before it connected may still write its request; its
  caller was told "unknown", so the contract holds.
- A partial discovery that ends late replaces a healthier catalog.
- `mcp-daemon.ts:104` says that the background retry policy must not turn into
  user-visible backoff. A command that joins during the loop's first discovery finds no
  delay to wake, and when that discovery fails the loop sleeps through its first delay
  with the command waiting. The wait is still bounded (`DemandIsBounded`).
- A session that ends while its warm-up is under way may leave a daemon behind.
- Two commands that judge one stale lock of the catalog cache each remove a lock, the
  slower one the new lock of the faster; and `finally` removes whatever lock is there.
  Two may then ask the server at once: `DiscoveryIsExclusive` is about commands that
  neither die nor stall. No call leaves its own lock nevertheless (`LockIsGivenUp`).

`mcp run`:

- An abort that arrives while `executeRun()` awaits `runtime()` (`mcp-daemon.ts:174`) is
  missed, and the script runs to its end for nobody.
- Parts of a script that nobody awaits may still call tools after the outcome was told;
  a call that is chained to a sibling and starts while the siblings settle is not waited
  for before the transport closes.
- `mcpRunHelpText` (`mcp-cli-core.ts`) says that scripts are killed after 120 seconds by
  default. A worker of the daemon is; in a process of its own a script that keeps
  polling outlives the soft timeout, and the process ends when it does.
- A second interrupt of the native client is swallowed.

The extension and its channels:

- `RecipeLaunchError`s are remembered: a Recipe that failed to load once keeps the
  session from taking prompts until the next `session_start`, although it loads again.
- A reload sets `state` to null before Pi is idle: a turn that is still running goes on
  without the payload policy, and a prompt in that window loads the edited Recipe under
  the model of the old one. `NoForeignModel` excepts the window, and session switches
  while a reload waits are not modelled.
- A `close()` that rejects in `session_shutdown` skips what comes after it: the private
  runtime, stopping the daemon, restoring the environment. `ShutdownRejects` records it.
- In tools mode `clearSessionMcpCli()` deletes `MCPORTER_CONFIG` (`mcp.ts:795`) before it
  awaits the removal of its files, and its caller notes the value to give back only after
  that (`pi-extension.ts:1019`): one removal that rejects loses the value. Another
  `configureMcp()` after a later failure overwrites a value that was noted, and a private
  runtime whose clean-up rejected is overwritten likewise. `spoiled` records each.
- cli mode replaces `MCPORTER_CONFIG` and never gives it back. After an edit from cli to
  tools mode and a reload, line 1018 takes the cli session's own configuration, whose file
  it has just removed, for the ambient one, and hands that back. When one half of the
  `Promise.all` in cli mode rejects, the other goes on and may set the variable after the
  session has failed (`LateMcpSession`). `HandsBackTheProcess` therefore promises the
  user's own value only while no configuration in cli mode began to take effect, and the
  user is taken to have set one.
- A follow-up that is taken up in the loop in which the delivery failure was shown is
  not guarded.
- References of a thread that is addressed by the id of a reply are stored under that
  id, and a message posted there is not recognised as the agent's own when the thread is
  read by its root.

Recipes that the checker passes and the runtime refuses (`Overlooked`), or reads differently:

- `runtime.python.version` that is not a string: the checker does not look at it.
- `agents/D.YAML`: the checker takes only lower-case suffixes for YAML.
- An agent file reached by its directory and by its name: the runtime reads it twice
  and finds the agent "declared by multiple files"; the checker lists it once.
- A pattern that ends in `**` after the name of a file, such as `agents/a.yaml/**`: the
  checker's `glob_match_parts` (`lib.rs:2788`) lets `**` match nothing, so it finds the
  file; the runtime's expression (`recipe-package.ts:582`) wants something after the slash
  and reports a glob with no matches.
- A resource pattern with blanks around it (not modelled): the checker trims it, the
  runtime (`recipe-package.ts:795`) does not.
- An agents directory without YAML files passes the checker and has no agent to launch.
- The pattern `././agents` is accepted by the checker alone. The other way round, the
  checker is stricter about project paths, blank names, duplicates and local files.
- In the older block `model:` a blank `cache_retention` counts as not given, so the parent's
  is inherited (`recipe-model.ts:176`); the options of the block `ai:` are taken as written.
- A tool selector with blanks around it is trimmed everywhere but where the explicit
  tools of a server are written for mcporter, so that the tool is offered and refused.
- An eager tool that the agent's "*" selects and the package does not fails when the
  session starts, not when the Recipe is checked or resolved.
- In a session whose MCP configuration the host materialised, the `mcp` command answers
  to the agent the host made it for, not to the one that runs.

## 6. Not modelled

Left out for good: wording, rendering, logging and telemetry; provider and model
traffic inside a Pi session; help text, argument parsing and output shaping of the CLIs;
build scripts and bindings; the memory index, which truncates one text. Two Pi
processes in one workspace. A daemon that accepts and never answers
(`mcp-daemon-client.ts:85`: its ping has no deadline).

Left out of what is modelled in part: judges, specs and the content of resource files
in the checker; the text of manifests, extension and prompt paths, model transport and
provider environments in resolution; tool schemas, payload contracts and connector
metadata; search, reactions, users, files and the configuration of channels, uploads
and the conversion of text to blocks in the Slack adapter; the memo of `mcp-catalog.ts`;
the drawing of the terminal dialogs; the completion queue across a reload.

## 7. Plan

1. Done: run controllers and their contract, completion queue, run store, daemon
   start, calls, catalogs, session lease; `mcp run` with the native client, the catalog
   cache, the extension's launch with the reply guard, channel threads and interactions,
   recipes from the checker to the calls of a session.
2. Next: the completion queue and the run store composed with a reload
   (`pi-extension.ts:1269`); the memo of `mcp-catalog.ts`; uploads of the Slack adapter.
3. Proofs: what the modules of step 2 promise, and the checker's cases of `Overlooked`
   one by one, each as the exact condition under which the two programs part.
