# DevOrbit: a verification model of the main process

DevOrbit is an Electron desktop hub: it opens terminals for coding agents, lets
agents delegate tasks to one another through a local *agent bridge*, runs an
orchestration of steps over them, and keeps a set of small JSON stores on disk.
This directory holds TLA+ modules for the parts of `src/main` where the order of
events matters, TLC runs over small instances, and TLAPS proofs that hold for
every instance. Paths below are relative to the repository.

The agent bridge is at the centre: its semaphore, lock per target, task cycles,
delivery of an instruction, turn and service are modelled in detail, composed with
one another and proved. Around it, nineteen smaller components have a module each, are
checked in one run, `parts`, and have their invariants proved. Section 9 says what is
left out.

## 1. Inventory

JavaScript runs one callback at a time, so a *step* is one callback run to
completion: a method call, a timer, an abort listener, a PTY event, or the part of
an `async` function between two `await`s. The races of this program are between
such steps.

| Component | State | Operations | What is hard | What makes it correct | |
|---|---|---|---|---|---|
| `semaphore.ts` | active count, FIFO of waiters, closed flag | acquire, tryAcquire, release, close, timer, abort | a timer, an abort and a grant race for one waiter | permits conserved, FIFO, no lost wake-up | modelled, proved |
| `bridge-service.ts`, `runTargetSerial` | map target -> tail promise | call, start, settle, clean-up | a call arrives between settlement and clean-up | mutual exclusion and FIFO per target | modelled, proved |
| `bridge-task-cycles.ts` | per target: generation, pending cycle, cached outcome with a TTL | begin, setPending, complete, cacheOutcome, cachedOutcome, cancelPending | an answer of generation n comes in after n+1 began | nothing of an old generation is returned | modelled, proved |
| `agent-instruction.ts`, `sendAgentInstruction` | place in the delivery, attempt, writes to the PTY | gate, ready wait, content, paste settle, Enter, ack wait, abort | abort between any two checkpoints; retry after a late ack; restart of the terminal under the same id | content once, Enter once per attempt, nothing after an abort | modelled, proved |
| `bridge-turn.ts`, `createBridgeTurn` | submitted, acknowledged, candidate, evidence, promise | PTY data, exit, error, timers, cancel, fail, phases | result before ack, ack before result, timers | settles once, an answer only after the ack | modelled, proved |
| `bridge-service.ts`, registry and handlers | agent's status, turns, cycles, outcomes | send, ask, wait, run, register, unregister, PTY events, readiness checks, aborts | all of the above at once | section 6 | modelled for one target, proved |
| `agent-bridge.ts`, `agent-bridge-runtime.ts` | sockets, their lines, the request served, events | line, serve, answer, close, stop | close during a handler, stop between two requests | one answer per request, in order; events in pairs | modelled: `BridgeSockets` |
| `codex-bridge-health.ts` | per launch: status, handshake token, timer, waiters | begin, started, handshake, registry change, exit, wait | a handshake of a launch that was replaced | connected is earned by this launch's handshake | modelled: `CodexHealth` |
| `mcp/*`, `hitl.ts` | pending approvals, waiters, permits | call, request, decide, expire, go away | decision, timer and disconnect race | a tool runs under its own approval | modelled: `ToolCalls` |
| `audit-ledger.ts` | queue, file, size | append, cut, crash | torn lines, a cut that fails half-way | an acknowledged entry is lost with a torn line or by age only | modelled: `AuditLedger` |
| `atomic-file.ts`, `evolution-store.ts`, `hybrid-memory.ts` | list in memory, file, backup | add, trim, remove, load, recover | each file operation may fail or be the last, the recovery of the backup too | the file, or its backup, has the last success | modelled in part: `RecordStore` |
| `process-runner.ts` | runs, processes, timer, output limit | spawn, exit, close, abort, dispose | exit before close, signals that fail | every run ends, every process is killed | modelled: `ProcessRunner` |
| `bridge-headless.ts`, quit of `index.ts` | active turns, finalizers, writes | run, finalize, write, drain | the quit overtakes a turn at any place | the memory server is stopped last | modelled in part: `HeadlessTurns` |
| `ai-memory-service.ts`, `ai-memory-job.ts` | state, child, Job Object, polls | start, reconfigure, poll, stop, exit | all of them overlap at every await | no server process is forgotten | modelled in part: `MemoryService` |
| `ai-memory-launcher.ts` | reservations, sessions, keys | prepare, register, exit, finalize | a terminal id is used again while the old session is finalized | the scope is freed; nobody's session is ended as "the latest" | modelled in part: `MemorySessions` |
| `ai-memory-migration.ts` | receipt, its backup | migrate, check, recover | two reads of two files, beside a rewrite | a published receipt keeps old writers out | modelled in part: `LegacyMigration` |
| `orchestration-engine.ts`, `-service.ts`, `-store.ts`, `-ipc.ts` | seats, roles, quotas, the last 200 events; cache and file per project | bind, report quota, assign, remove, turn failed | a bind reads beside the queue; writes fail; the limit per hour is counted in the events that are left | no role without a seat; what was answered was saved | modelled in part: `Continuity`, `Orchestration` |
| `terminal-session.ts`, `pty-pipe.ts` | PTYs, output buffers, cables, rates | start, stop, data, flush, exit, connect, forward | restart under the same id with output pending | output in its place; cables have no cycle | modelled in part: `TerminalPipes` |
| `terminal-ipc.ts`, `agent-turn.ts` | attempts, turn sessions, queue per terminal | turn, start, stop, result, idle timer | a start or stop between the awaits of a turn | an answer is the one to this prompt | modelled in part: `AgentTurns` |
| `updater.ts` | status, timer, download, installation | check, download, verify, install, quit | overlapping checks, quit during a verification | only a verified binary replaces the application | modelled in part: `Updater` |
| `WorkspaceCanvas.tsx`, `agent-dispatch.ts` | nodes, run, progress, tasks | start, report, advance, hand off, take over, reset | late, repeated and foreign reports | the run moves by results of its own tasks | modelled in part: `CanvasRun` |
| `agent-task-delivery.ts`, `WorkspaceTerminal.tsx`, `IntegratedWorkspace.tsx` | deliveries, slot of the next result | queue, mount, send, result, unmount | a component that is mounted again while it sends | sent once; a result has its task | modelled in part: `TaskDelivery` |
| `config.ts` | vault, keys in `config.json`, overlay | load, save, migrate | safe storage comes and goes; writes fail | a key is not lost, nor written in clear text | modelled in part: `ConfigSecrets` |
| `codex-auth.ts` | active login, generation, process | start, cancel, exit, timeout | a newer start during an await of the older | one outcome; no process left | modelled: `CodexLogin` |
| `usage-store.ts` | events, keys, offsets, two files that are each replaced in two renames | refresh, append, load, prune, save the offset | scans outside the queue; crash between two renames, or in an append | an event is counted once, and none is missed | modelled in part: `UsageEvents` |
| `ai-usagebar-config-lock.ts` | tail promise per path | withConfigLock | as `runTargetSerial` | mutual exclusion per path | same promise chain as `TargetLocks` |
| routing, ranking, text stores, log parsing, git, providers, windows, renderer | various | various | I/O, parsing, presentation | | not modelled |

## 2. How the parts interact

A request reaches `agent-bridge.ts` over a local socket, or comes through the MCP
server, which admits it with a `Semaphore`. `agent-bridge-runtime.ts` validates it
and calls a handler of `bridge-service.ts`. The handler

1. checks that the target is ready and queues behind the other calls for the same
   target (`runTargetSerial`);
2. begins a cycle (`BridgeTaskCycles.begin`) and arms a turn (`createBridgeTurn`)
   on the PTY's event bus, so that no output is missed;
3. delivers the instruction (`sendAgentInstruction`): waits until the terminal is
   quiet, writes the content, presses Enter, waits for the first output;
4. a *send* answers "accepted" here and leaves the cycle pending; an *ask* keeps
   its place in the line until the turn is over; a *wait* joins the pending cycle
   or arms a waiter of its own; a *run* starts a process of its own.

The turn is settled by the agent's result frame, by an exit or an error of the
terminal, by a fatal message of the model, by a timer, or by a cancellation. Three
things then happen in an order that matters: the callbacks that the service put on
the turn's promise (agent's status, cycle, outcome), the continuation of whatever
awaits that promise (the handler), and the start of the next call in the line.

Beyond the bridge:

- *Quit* (`index.ts`): aborts headless turns, waits for them, for their finalizers and
  for the outcomes they write, each with a limit, and stops the memory server then.
- *Launching a terminal* (`terminal-ipc.ts`): prepares the external memory's session,
  the Codex health entry and the command line, with awaits in between; each of them
  compares the terminal's attempt with its own before it goes on. Turns of the canvas
  start agents the same way, in a queue per terminal that explicit starts and stops
  do not enter.
- *Tools* (`mcp/*`): take a permit of a shared `Semaphore` after their approval.
- *Orchestration*: called by the handlers of IPC, by failed turns and by reports of
  quotas; it announces the state it has written.
- *Canvas* (renderer): a run's tasks become deliveries, which a mounted terminal sends
  through a turn or by typing; results come back in the terminal's output or as the
  turn's answer, and are reported to the run.

## 3. Modules

| Module | Of the source | Kind |
|---|---|---|
| `Semaphore`, `SemaphoreProofs` | `semaphore.ts` | state machine; proofs |
| `SerialQueue` | what `runTargetSerial` promises | abstract specification |
| `TargetLocks`, `TargetLocksProofs` | `runTargetSerial` | implementation; proof of refinement |
| `BridgeTaskCycles` | the class, one operator per method | operators on a record |
| `TaskCycles`, `TaskCyclesProofs` | an object of that class in use, with a clock | state machine with history; proofs |
| `AgentInstruction`, `AgentInstructionProofs` | `sendAgentInstruction`, the gate before it, the PTY session | state machine; proofs |
| `BridgeTurn` | `createBridgeTurn` | state machine |
| `TurnDelivery`, `TurnDeliveryProofs` | `prepareTurn` and one delivery: instances of the last two on one terminal | composition; proofs |
| `TurnContract` | what a delivered turn promises to the service | abstract specification |
| `BridgeService`, `BridgeServiceProofs` | registry, PTY subscriber and handlers, one target | state machine; proofs |
| `ToolCalls` | the MCP server's `callTool` with `HITLManager` | composition of the two |
| `Continuity` | `orchestration-engine.ts`, one operator per function | operators on a project's state |
| `Orchestration` | service, store and handlers, over `Continuity` | composition |
| `BridgeSockets`, `CodexHealth`, `AuditLedger`, `RecordStore`, `ProcessRunner`, `HeadlessTurns`, `MemoryService`, `MemorySessions`, `LegacyMigration`, `TerminalPipes`, `AgentTurns`, `Updater`, `CanvasRun`, `TaskDelivery`, `ConfigSecrets`, `CodexLogin`, `UsageEvents` | see section 1 | state machines |
| `Parts` | | the nineteen parts in one specification: a behaviour chooses a part; what is claimed of them |
| `PartsProcessProofs` | runner, headless turns, memory service and sessions, Codex login and health, turns, deliveries, canvas | proofs |
| `PartsDataProofs` | sockets, tools, updater, migration, stores, ledger, keys, usage, orchestration, pipes | proofs |
| `MC...` | | constants, fairness, symmetry and views for TLC |

How they fit: `TargetLocks` implements `SerialQueue`, and `BridgeService` uses the
latter's rule (`line`: the calls that are not settled, in order). `TurnDelivery`
implements `TurnContract`, and `BridgeService` has its two variables as the fields
`promise` and `delivery` of a turn and moves them as the contract says
(`EndDelivery`, `TurnTimer`, `PtyData`). `BridgeService` calls the operators of
`BridgeTaskCycles` as the code calls the methods. So the service is checked against
the parts' promises, and the parts against the code.

`Parts` has the variables of the modules in the four rows above it, each instance with its
own, and a frame that leaves those of the other parts alone. The module has no bound but
the constants'. `MCParts` gives these their values, adds fairness, and lets callers
that are alike start in one order.

### Correspondence

*`Semaphore`*: `active`, `waiters` and `closed` are the fields; `state` is how each
call's promise stands; `opts` are the listeners a waiter has armed. Each action ends
in `Pump`, as each method ends in `pump()`.

*`TargetLocks`*: `locks` is the map; `previous` is the promise a call chained itself
on. `Call`, `Begin`, `Settle` and `CleanUp` are the four callbacks of a call.

*`BridgeTaskCycles`*: the two maps and the cache are fields of a record; the cache is
a sequence in insertion order, because eviction takes the oldest insertion.
`TaskCycles` adds a clock and the history that says what should be answered.

*`AgentInstruction`*: `pc` is the place where the function waits, `woke` how that wait
ended; `Resume...` is the code up to the next wait. The continuation of a wait that
ended runs before the next timer or event (`Asleep`); only an exit, a stop or a
restart, which flush pending output in their own callback, may find one queued. A
restart replaces the session under the same id and emits nothing.

*`BridgeTurn`*: `outcome` is the promise; a chunk of output is one of four kinds of
text with one of six kinds of frame, which is all the code tells apart.

*`BridgeService`*: `agent` has the entries of `agents`, `states`, `startupChecks`,
`activeTurns` and `currentTurns` for the target; `cycles` is the object; `line` is the
lock; `req` is each request and the handler serving it; `turn` each turn or waiter;
`outcomes` the calls of `onOutcome`. Continuations come in the order the promises
queue them: `React` (callbacks of `prepareTurn` and `trackCycle`), then `Conclude` and
`Answer` (handlers), then `Begin` (the next call). The events outside wait for all of
them (`Quiet`), except an exit and a stop, which flush output first.

| Action | Code |
|---|---|
| `Arrive`, `Skip` | `runTargetSerial`, its abort check |
| `RefuseBusy`, `RefuseUnready`, `StartTurn` | send and ask up to the delivery |
| `AnswerFromCache`, `Join`, `ArmWaiter` | wait up to `awaitResult` |
| `StartRun`, `RunEnds` | run |
| `React` | `pending.then` of `prepareTurn`, `trackCycle` |
| `Accept`, `Refuse` | send and ask after the delivery |
| `AnswerOwn`, `AnswerJoined` | ask and wait after `awaitResult` |
| `DeliveryEnds`, `TurnTimer` | `sendInstruction` returns or throws; the turn's timers |
| `RequestAbort` | `linkAbortSignal`, `awaitResult` |
| `PtyData`, `PtyExit`, `PtyError` | the subscribers of the registry and of the turns |
| `ReadinessCheck`, `Launch`, `Register`, `Stop` | `startReadinessCheck`, start of a terminal, `registerAgent`, stop and `unregisterAgent` |
| `Expire` | the TTL of a cached outcome |

The other components. Everywhere `at`, `step` or `pc` of a caller is the await it
stands at, and an action is the code up to the next one.

| Module | State of the model | State of the code |
|---|---|---|
| `BridgeSockets` | `received`, `begun`, `serving`, `sent`, `event` | lines of a socket, the chain of its requests, answers written, events emitted |
| `CodexHealth` | `launch`, `configured`, `spawned`, `pty`, `accepted`, `waiter` | the entry of a terminal with its handshake token, and the promises that wait |
| `ToolCalls` | `use`, `request`, `waiters`, `due` | place of a `callTool`, HITL requests, `waitForDecision`, timers that are due |
| `AuditLedger` | `log`, `openLine`, `tail`, `size`, `step` | the file's lines, a torn line at its end, what is remembered of its tail and size, the write's place |
| `RecordStore` | `main`, `storeBak`, `memory`, `before`, `storeStep`, `forgotten` | file, backup, list in memory, the list to roll back to, place in the atomic write, and whether a load went on without a backup that it could not move into place |
| `ProcessRunner` | `run`, `proc`, `asked`, `children` | promise of a run, its process, signals sent, the set that `dispose` ends |
| `HeadlessTurns` | `turn`, `tree`, `active`, `finalizer`, `write`, `quit` | active turns, process trees, the sets that the quit drains |
| `MemoryService` | `state`, `child`, `contained`, `config`, `generation`, `starting`, `recon`, `poll` | fields of the controller and of the Job Object; of the configuration the switch and whether a project is enabled. A reconfiguration decides by the switch it was given and by the projects of the last one (`Decide`) |
| `MemorySessions` | `reserved`, `session`, `memoryPty`, `inFlight` | reservations, active sessions, PTYs, finalizations |
| `LegacyMigration` | `receipt`, `receiptBak`, `migration`, `writer` | the two files, places of the migrations and of the checks |
| `Continuity`, `Orchestration` | `logged`, `handoffs`; `cache`, `file`, `queue`, `job`, `call` | how many events there have been, and the handoffs among them with their numbers, of which the code has the last 200 events (`EventLimit`); the bound state, the project's file, the promise chain, the operation under way |
| `TerminalPipes` | `live`, `current`, `buffer`, `edges`, `windows` | sessions and generations, joined chunks, `connections`, rate windows |
| `AgentTurns` | `launchAttempt`, `process`, `turnSession`, `turnQueue`, `agentCall` | `terminalLaunchAttempts`, the PTY, `turnSessions`, the queue, places of the calls |
| `Updater` | `status`, `check`, `download`, `phase`, `installer` | the state announced, the check under way, the file downloaded, the quit |
| `CanvasRun` | `node`, `canvasRun`, `progress`, `manual`, `tasks` | nodes, the run, progress of the agents, tasks sent |
| `TaskDelivery` | `task`, `deliveries`, `slot`, `mounted`, `awaiting` | the queued task, registry, slot of the next result, the component |
| `ConfigSecrets` | `plain`, `vault`, `overlay`, `op` | `config.json`, the vault file, keys kept in memory, the operation under way |
| `CodexLogin` | `loginGeneration`, `login`, `loginChild`, `loginState` | `loginGeneration`, `activeLoginSession`, processes, states announced |
| `UsageEvents` | `source`, `usageFile`, `fileTail`, `rewrite`, `aside`, `savedOffset`, `events`, `dedupeKeys`, `offset`, `refresh` | the agents' log, `events.jsonl` and how it ends, its replacement by a load with what was moved to the backup, `scan-state.json`, memory, places of the refreshes |

## 4. Runs

| Run | Instance | States | What it shows |
|---|---|---|---|
| `semaphore` | 4 requests, 2 permits | 2,538 | permits conserved, work conserved, FIFO, every waiter answered |
| `target_locks` | 3 calls on one target, 1 on another | 22,257 | refinement of `SerialQueue` with its liveness, no lock left in the map |
| `task_cycles` | 3 targets, 2 generations, 2 entries, 3 instants | 60,324 | an answer is current and fresh, lost only by eviction |
| `agent_instruction` | 3 attempts, paste wait, 3 sessions | 1,670 | content once, nothing after an abort, a truthful report |
| `turn_delivery` | 2 attempts, 2 sessions, all texts, 5 frames | 431,648 | nothing typed for a dead turn, no orphan, answers earned, `TurnContract` with its liveness |
| `bridge_tasks` | 2 requests of any kind | 152,428 | one turn at a time, no dead cycle, no false busy, no old answer, a stopped target keeps no task, outcomes recorded once, every request answered, every accepted task ends |
| `parts` | nineteen components, see below | 665,917 | sections 5 and 6 |
| `instruction_restart`, `cancellation_kept`, `model_failure_overwritten`, `usage_rewrite_lost`, `legacy_writer_opens` | 2 sessions, 2 requests, 3 refreshes with a restart, 2 migrations | | the disagreements of section 7 |

Why these bounds are enough to make the interesting cases happen:

- *Semaphore*: two holders and two waiters coexist, and a timer or an abort takes a
  waiter out of the middle of the queue.
- *Locks*: three calls on a target give a holder, a waiter, and one that arrives
  between settlement and clean-up; the second target shows that lines are independent.
- *Cycles*: more targets than entries, so that refreshing and eviction meet; two
  generations, so that an answer can be late; a TTL of one tick and three instants, so
  that an entry can expire and be given again.
- *Instruction*: three attempts, one more than the default, so that the last retry is
  not the first; three sessions, so that a restart can happen in two places.
- *Turn*: `blocked` is left out of the frames, as the code treats it like `completed`.
- *Service*: each of two requests is a send, an ask, a wait or a run, so that every two
  operations overlap in every order: the second is refused, waits in the line, joins the
  first one's cycle or comes after it, while timers, aborts, exits, restarts and stops
  come in between. What a third request could add to these is left to the proofs, which
  are for any set of requests (section 8).

- *Parts*: a behaviour chooses one of the nineteen at its start; the variables of the
  others have no value. The components share no state there, so that the states add up
  and nothing is lost. Two callers of a kind are enough for one to come between any two
  steps of the other; where a third makes a difference, there are three:
  - two runs of commands; two headless turns and one quit; two sockets with two
    requests each; two waiters and two launches of Codex, one other start;
  - three tool calls, two of which need approval, on one permit;
  - six entries in a ledger of three lines, two torn writes; three additions to a
    store of two records; two migrations and two old writers;
  - three calls of the orchestration (quota, failed turn, removal) on three seats and
    two roles, one stop or crash, a clock of two instants; a list of three events, which
    a handoff and what comes before it fill, so that older handoffs leave the count;
  - two reconfigurations, one poll and two processes of the memory server; three
    launches on two terminals; three terminals, two starts each and two chunks;
  - both distributions of the updater, two calls to install and two to quit;
  - a canvas of three agents, with an empty plan and one of two steps, one handoff, two
    asked tasks and two reports; two mounts of a terminal with two tasks;
  - two keys and two saves, which set or clear one key each, one load and one restart;
    two logins and one cancel;
  - two turns, one start and one stop of a terminal, on two models;
  - three refreshes of the usage, two lines of a log, a limit of one event, two restarts:
    the load after the first has something to prune, and the second may cut it off.

  In `memory`, `config`, `turns` and `usage`, callers that are alike start in the order
  of their names (`InOrder`), and two installations that differ by the names of their
  keys are looked at once.

`CHECK_DEADLOCK FALSE` is set where an instance ends when all its requests are
served, its clock has run out, or the part has ended.

Type invariants are not among the runs' properties: all are proved, as theorems of their
own or as parts of an inductive invariant. The inductive invariants of the parts were
checked on the instances of `parts` before they were proved.

`MCBridgeService` masks state that no action reads and no checked property tells
apart: what was reflected, why an agent failed, which failure it was once the
callbacks of a turn have run, the order of recorded outcomes, and the signal of an
answered request. Two states with the same view have steps to states with the same
views. No symmetry is used, because the run also checks liveness.

## 5. Fairness

- *Continuations run* (`Internal`, `Resume`): the promise queue is emptied before the
  next event.
- *Timers fire*: `setTimeout` is armed for every wait of the delivery, for every turn
  (`bridge-turn.ts:97`) and for the gate. Fairness is on the timers only: output,
  results, exits, aborts and users owe nothing.
- *Holders release* (`Semaphore`): `runExclusive` releases in a `finally` block. *Tasks
  settle* (`SerialQueue`): the runs of `turn_delivery` and `bridge_tasks` show that
  they do.

- *Parts* (`Progress`, weak fairness for each caller): a process that was killed ends,
  and its pipes close after it; file operations, commands and HTTP requests end, with
  success or not, because they have timeouts or are the operating system's; a timer
  that is armed fires; what is queued begins once what is before it has ended. A user
  owes no decision, no click and no result, an agent no answer, and nobody a restart.

## 6. What is claimed of the service

- `OneOpenTurn`: one turn at a time listens to a terminal. The code never checks it.
- `PendingIsLive`: nothing that is over keeps a target refusing tasks.
- `BusyMeansOpenTurn`, `UnregisteredHasNoTask`: status, registration and turns agree.
- `NoOldAnswerWhileRunning`: while a task runs, no older result can be given as its answer.
- `OutcomeRecordedOnce`: `onOutcome` gets each outcome once, and no cancellation.
- `EveryRequestIsAnswered`, `AcceptedTaskEnds`: requests and tasks come to an end.

And of the parts (`Parts`; `EveryCallEnds` is in `MCParts`):

- `EveryCallEnds`: each call of a part comes to its end, past failures, aborts and what
  was queued before it.
- `AnsweredIsSaved`: an orchestration call that succeeds has been written.
- `NoProcessLeft`: a process belongs to somebody who can still end it, or was told to
  end; no agent runs in a terminal that was stopped.
- `QuitDrains`: unless a drain ran out of time, the turns that were active when the quit
  began, with their finalizers and writes, come before the stop of the memory server.
  A turn that is spawned later is not waited for.
- `NothingRunsUnchecked`: tools that need approval have this very one, given in time;
  what is installed was verified.
- `OneAnswerPerRequest`: a socket's requests are answered once and in order.
- `FilesSurvive`: after any failed write or crash, the ledger, the stores, the receipt
  and the keys are what was acknowledged, up to what each module's property exempts by
  name.
- `EventsAreCounted`: a token event is once in the file and once in memory, none that the
  saved offset is past is missed, and memory has what a load would find, up to what
  `UsageEvents` exempts by name.
- `OrchestrationIsSound`: roles are held by seats that exist; the handoffs of a role keep
  to the cooldown, and to the limit per hour as far as the list of events reaches. The
  engine counts a role's handoffs in the events of all types that it keeps, the last 200
  (`orchestration-engine.ts:71` and `:184`, `orchestration-continuity.ts:144` and `:407`):
  when others push them out within the hour, more handoffs than the limit are made.
- `LaunchesEndCleanly`: the memory's scope is freed, a connection is earned by its own
  launch, a login has one outcome, a session is dropped by its owner only: of an
  explicit start that runs, by a turn of its own attempt or one that joined an attempt
  before its start ran (the code looks at the attempt, not at who started the process).
- `OutputFollowsCables`: cables have no cycle, rate windows belong to cables, output
  comes in its place.
- `CanvasRunIsSound`: a run takes its own results once and in order, and waits for a
  task that is out.
- `TasksAreDelivered`: a task is sent once, its result has its name, and a turn's answer
  is the one to its prompt.

Some of these have exemptions: flags of the model that say that the code took a path on
which the property does not hold (`orphans` in `CodexLogin`, `undone` and `loose` in
`ConfigSecrets`, `early` in `AgentTurns`, `keyless`, `apart`, `joined` and `leftBehind` in
`UsageEvents`, `forgotten` in `RecordStore`, `crossed` and `overlapped` in
`LegacyMigration`, `failed` in `MemorySessions`, `tears` in `AuditLedger`). Each is named
in the comment of its property, and section 9 lists the behaviours behind them. For
`crossed` and `leftBehind`, a run of section 7 checks the property without the exemption.

## 7. Where code and documentation disagree

- `instruction_restart` (`agent-instruction.ts:446`): a terminal that is restarted while
  the ack is awaited gets the retry's Enter during its boot. The module's own comment
  says that this race is what it exists to prevent.
- `cancellation_kept` (`bridge-service.ts:797`): `docs/agent-bridge.md` says that a
  cancellation does not persist as a result. When the terminal is stopped during an
  ask, the handler caches the cancellation, because it looks at the request's signal
  and not at the outcome.
- `model_failure_overwritten` (`bridge-service.ts:700`): the documentation says that a
  known model failure is marked with its reason. If it is recognized during the
  delivery, the handler overwrites the mark with `starting`.
- `usage_rewrite_lost` (`usage-store.ts:410`): the comment at line 406 says that a load
  that prunes the events rewrites them atomically. `writeFileAtomically` moves the file to
  its backup before it renames the new one into its place (`atomic-file.ts:40` and `:48`),
  and this store never reads a backup. When the process ends between the two, or the
  second rename fails and so does the one that moves the backup back (line 52), no events
  file is left, and the saved offset is past all that was in it.
- `legacy_writer_opens` (`ai-memory-migration.ts:531`): the comment at line 699 says that
  only the absence of receipt and backup admits an old writer, and
  `project-hybrid-memory.ts:10` that a verified receipt ends its writes. The check reads
  the receipt, reads it again and then its backup; a second migration that rewrites the
  receipt moves each file away from the read that looks for it.

## 8. Proofs

Every theorem is for all values of the constants, under the named assumptions of the
module that declares them.

`SemaphoreProofs` (any limit, any finite set of requests): type correctness,
`PermitsConserved`, `WorkConserving`, `NoOvertaking`. Conservation is not inductive
alone: how many waiters a `pump()` grants depends on the queue, and `WorkConserving`
bounds it to one. `NoOvertaking` is about steps, and follows from the invariant: a new
waiter is appended, a rejected one is taken out without moving the others
(`SpliceProperties`), and the one waiter that a release grants is the head.

`TargetLocksProofs` (any targets and calls): type correctness; the promise chain
implements `SerialQueue`; mutual exclusion; `NoLockLeak`. A call waits for one promise only. That
is enough because of `Chained`: the promise is that of the call made just before,
unless all earlier calls had settled.

`TaskCyclesProofs` (any finite set of targets, any limit and TTL): type correctness,
`AnswerIsCurrent`, `OnlyAFullCacheForgets`. Two things make the invariant inductive. Every entry of the cache is what was given last for the current
cycle (`EntriesAreCurrent`), since `begin()` deletes the entry when it replaces the
cycle. And entries stand in the order in which their ids came in (`InOrder`): every
method only *thins* the sequence, replaces in place or appends (`Thins`,
`WithoutLemma`, `PruneLemma`, `PutPresent`, `PutAbsent`), so that when `prune()` drops
the first of a full cache, all others came after it, which are as many as the cache
holds (`FullLemma`). It is assumed that an absent entry differs from any that is given.

`AgentInstructionProofs` (any number of attempts and sessions, with and without a paste
wait): type correctness, `TypedOnce`, `ReportMatchesTyping`, `AbortIsPrompt`,
`NothingTypedAfterAbort`. What was typed is a function of the place where the call
stands (`Typing`), and of how its wait ended (`Waking`).

`TurnDeliveryProofs` (any output, attempts and sessions): the five
safety properties of the run, and that every step of waiter and delivery is a step or a
stutter of `TurnContract` (its safety part). The waiter keeps its invariant (`TurnInv`)
under everything but the ack, which may come only after Enter; that is the delivery's
part (`DeliveryInv`). Nothing is typed for a turn that is over, because a settlement
that finds the delivery under way is a failure, whose callback has aborted it before it
goes on. It is assumed (`TurnNoneAssumption`) that `None` is no result.

`BridgeServiceProofs` (any set of requests): `TypeOK`, `OneOpenTurn`, `PendingIsLive`,
`BusyMeansOpenTurn`, `UnregisteredHasNoTask`, `NoOldAnswerWhileRunning`,
`OutcomeRecordedOnce`. It is assumed that `None` is neither a
request nor an entry of the cycles, as `undefined` is in the code, nor a settled result
(`NoneIsNoReply`). The argument:

- Two locks overlap. An ask keeps its place in the line until its turn is over; a send
  or a wait leaves a pending cycle. `OpenIsHeld` says that an open turn is held by one
  of them, so a request that is first in the line and finds no pending cycle finds no
  open turn (`NobodyLive`), and may arm one.
- None of this is inductive for open turns. Between the settlement of a turn and its
  callbacks, its cycle is still pending, and the callback that clears it must not clear
  a newer one. So the invariant is about *live* turns (open, or settled with callbacks
  due): one at a time is live (`OneLive`), and the pending cycle belongs to it with its
  generation (`PendingIsCurrent`).
- `AgentInv` adds the agent: an open task is the active turn of a registered agent
  (`TaskHasAgent`, the reason why a stop cancels it), and busy means that the current
  turn is live (`BusyHasTurn`). A refused delivery may set the state without a look at
  it, because nobody else is live then (`DeliveringAlone`).
- Almost all actions arm nothing; `SettlingStep` and `AgentStaysInvariant` treat them
  at once, and each action has a lemma that shows that it is of that kind.
- A task that begins makes everything cached older than the target's generation
  (`NoneIsNewer`), and a waiter is armed when nothing is cached. What could still cache
  an answer under an open turn is a handler that caches the outcome of its own turn,
  after the callbacks of that turn. It keeps the head of the line until then, so nobody
  else can have armed one (`AnswererAlone`).
- `emittedCycles` compares keys only, and a wait that arms a waiter has the generation of
  the task before it. That no outcome is recorded twice follows from the keys
  (`Distinct`); that none is lost is the hard part: the key of a task must still be free
  when its outcome is due (`DueIsNotRecorded`). It is, because every task that was armed
  has a generation of its own (`OwnGenerations`), and what is recorded under a key is
  the outcome of the request that has it (`Logged`). Then whatever is over is recorded
  (`OverIsRecorded`), unless it was cancelled.

`PartsProcessProofs` and `PartsDataProofs` (any instance of each part): the eleven
invariants of `parts` and `AnsweredIsSaved`. A step keeps the part that the behaviour has
chosen (`PartStays`) and is one of that part (`RunnerMoves`, ...), so that each part has an
inductive invariant of its own. Few of the properties are inductive; what they lack is
mostly who owns something between two steps of a handler.

- *Runner, headless turns*: besides types, a turn is active exactly until it has ended,
  and `Drains` says what each stage of the quit has achieved for a turn that was active
  at its beginning.
- *Memory service*: a start spawns only when everything spawned before was told to end
  (`OneServer`); so one process at most was not, and it is the controller's.
- *Memory sessions*: a session is there once and for its own terminal (`OwnSession`), and
  a finalization that comes late is of a launch that was registered (`Registered`).
- *Login*: generations are unique, and the active session has the current one
  (`Generations`); who has a process or a timer has not been told (`Settles`).
- *Codex health*: an id that is over never comes back (`EntryIsHonest`).
- *Turns of a terminal*: only the head of the queue is under way (`TurnQueued`), and
  the prompt that the process works on is that of the waiting turn, or of one that failed
  and has left a terminal in which nobody may type (`PromptIsOwn`).
- *Deliveries*: a task is on its way in one mount at most and was delivered as often as
  the registry says (`OnItsWay`); the slot names the newest task that anybody works on.
- *Canvas*: where a run is in its plan is a function of its phase and of the results
  that it took (`RunInPhase`).
- *Sockets*: what was sent is one behind what is served (`SentInOrder`).
- *Tools*: that a queued call was approved follows from what request and decision say of
  one another since the request was made (`RequestAsked`, `DecidedStands`, `NobodyLeft`).
- *Updater*: once a binary is offered, nothing under way can replace it (`OfferedStays`).
- *Migration*: until two of them overlap, one at a time rewrites the receipt, and a check
  that nobody crossed found what is still true (`RewritesAlone`, `FoundNothing`).
- *Stores*: at each step of a write, one of the two files has the last success
  (`FilesInStep`). A load that could not move the backup leaves it where it is, so that
  the files still have that success; it is the memory that has forgotten it.
- *Ledger*: lines stand in the order of their appends, no line without an append
  (`LinesInOrder`), so that whatever a cut removes is old enough (`KeptOrCut`); the
  acknowledged entries that are neither there nor cut are no more than the torn writes,
  one of which may still be open at the end of the file.
- *Keys*: the files alone hold what each key may be, between any two steps of an
  operation (`KeysOnDisk`), because it writes over what it has read (`OpHasRead`,
  `OpHasWritten`).
- *Usage*: no offset, of the store, of its file or of a scan, is ahead of the events that
  are in the file, in its rewrite, or lost in one of the ways that are exempt
  (`OffsetsAreBehind`), and the keys in memory are those of the file and of the append
  under way (`KeysAreKnown`). A rewrite is over before anything else is done with the
  store (`RewriteIsFirst`), so that no append meets a file that was moved aside. `Kept` of
  `Kept`: cutting to the limit at every append gives what one cut gives (`KeptJoins`).
- *Orchestration*: every state, in memory, on disk or on its way, is one that the engine
  leaves (`LeftByEngine`): each operation of the engine has a lemma. A handoff after the
  cooldown and below the limit keeps all pairs that the list of events can hold spaced, not
  just neighbours: numbers and times grow together, so that those counted are the last of
  the handoffs, and they are `MaxPerHour` - 1 at most (`SpacedOn`).
- *Terminals*: what waits in a buffer follows what its listener has heard up to the last
  chunk written (`InPlace`). For the cables: the search that `SetPipe` makes is a
  recursive function; a walk of as many cables as there are terminals is closed under
  the cables (`WalkIsWhole`, as it grows by a terminal with each step until it is), so
  that a cable to a terminal that it did not reach closes no cycle (`StaysAcyclic`).

The two recursive functions (the walk, and the selection of unseen events) are used by
their equations. Where a fact about them needs an induction it is one over a *set* of
numbers (`NatSetInduction`, from the well-foundedness of < on Nat).

What is assumed of the constants: `None` is none of the values that it is an alternative
to (`BridgeAssumption`, `PidsAssumption`, ...), calls of different kinds differ
(`TurnsAssumption`, `MigrationAssumption`), the ledger's entries differ from one another
and from a torn line, and the tail that a cut reads, a megabyte in the code, has at least
two lines, the first of which is dropped (`LedgerAssumption`); keys are set to values or cleared
(`ConfigAssumption`); terminals are finitely many (`PipesAssumption`). Of orchestration:
cooldown, limit and hour are natural numbers, as `parseOrchestrationState` requires, and
the files at the start are what an earlier run of the application has left
(`OrchestrationAssumption`, `LeftByEngine`): the engine checks new roles and handoffs, not
what it reads.

Only model-checked: liveness and refinement with liveness (`EveryWaiterAnswered`,
`SerialFairSpec`, `ContractFairSpec`, `EveryRequestIsAnswered`, `AcceptedTaskEnds`,
`EveryCallEnds`), which the prover does not reach (fairness, ENABLED); for the two
refinements, their safety part is proved. The properties of the four runs of section 7
are false. No module declares a RECURSIVE operator.

## 9. What is left out, and the plan

Abstractions of `BridgeService`: one target, since every map of the service is keyed by
the target (what targets share is the cache, which is in `TaskCycles`); requests that
are rejected before they are queued (aliases, delegation guard, caller identities)
leave nothing behind and are not actions; failure codes are reduced to what the code
decides by; `emittedCycles` keeps 512 keys, more than an instance reaches; the text of
answers and reflections is one class.

Abstractions of the parts: a file is read without error when it is there, unless its
module says otherwise; a choice among candidates (seats, binaries, ports) is any choice;
texts, formats, command lines and what is logged are left out.

Not modelled: routing scores, text search and ranking, log parsing, git, the command
lines of providers, accounts, validation, the windows, and nearly all of the renderer.
They are most of the program's lines, and their difficulty is data, files and
presentation: they keep no state that two actors share, so that a model of them would
repeat the code. `ai-usagebar-service.ts`, `ai-memory-sync.ts`, `mcp/transports`,
telemetry and `pipe-ipc-queue.ts` were read for state of that kind; what they have is a
lock, a flag or a queue of one writer.

Known behaviours without a property of their own. The models have most of them, and
the exemptions of section 6 are theirs; none contradicts a run above.

*Bridge.* `cycles.begin()` runs before `prepareTurn()` looks at the state, so that a
send refused there has dropped the last result. A terminal that is restarted and
registered anew keeps the pending cycle of the old session until that turn ends.
`emittedCycles` forgets its oldest key after 512.

*Terminals.* An explicit start or stop does not cancel a turn that waits for its result
(comment at `terminal-ipc.ts:655`): a PTY killed by a stop or restart emits no exit, so
that the turn stays in the queue until its idle timeout and may take a marker that
answers a prompt of the new session. A terminal restarted as a shell keeps its turn
session, and the next turn of the same provider and model is typed into the shell. A turn sent
while an explicit start is being prepared joins its attempt and the old session. When
`sendInstruction` throws, the waiter stays armed until its timer. The last output is not
forwarded by cables on a stop; a clock set back holds a rate window.

*Canvas.* A handoff or takeover leaves the agent's progress at "running", so that tasks
by hand are refused until a new run or a reset. A second task armed for a terminal
takes the slot, and a late marker of the first is taken for the second's. A
remounted component that waits sends a task again that was reported as failed. A change
of the default executor forgets an active run. A late result through an unmounted
canvas saves its old state. A marker printed while no component is mounted is lost for
Codex. Repeated results reach the orchestration twice. The registry keeps 256
deliveries.

*Orchestration.* `bindProject` reads outside the queue and then sets the cache, so that a
mutation between the two is lost in memory (`orchestration-service.ts:157`). A read that
fails for a moment is taken as an empty state. Two hundred other events within an hour
free a role's limit of handoffs.

*Memory.* The default workstream may be shared by two writers after an overlap. A late
health answer after a disable announces a server that is gone. Two migrations at once
may lose the receipt. `HybridMemory` does not roll back.

*Files.* A torn line of the ledger takes the next entry with it, as one of `events.jsonl`
does (comment at `usage-store.ts:403`: only that line is dropped); there, a line that
lacks only its newline is read until the next append joins it, and then both are lost.
When an append of events fails at the limit, the failed events stay in memory without
their keys, and are counted twice by the next scan (comment at `usage-store.ts:451`:
memory and file stay alike). A load whose rewrite of the events failed has put them in
memory without their keys, where they stay if the next load finds no file. A
`scan-state.json` lost between its two renames starts the scan from the beginning, which
is harmless as far as the keys reach. `EvolutionStore` and `HybridMemory` go on with an empty list when
the backup is there and cannot be moved into place (`atomic-file.ts:83`): the next write
that succeeds replaces the records with what was added since. 20,000 keys for 50,000
events: a scan from further back counts again. A slower scan sets the offset back. A
failed read of the vault or of `events.jsonl` is taken as an empty file. A key cleared
while the vault is unencrypted and safe storage is missing comes back with the others
(comment at `config.ts:815`); a vault that cannot be removed stays, silently.

*Login.* A start that waits for the browser's path is not looked at again when a newer
start or a cancel has come: it spawns, and takes over the active session (comment at
`codex-auth.ts:180`, which says that this cannot happen). `NoLoginLeft` exempts the processes
of such starts by name (`orphans`), so that no property finds this race.

*Updater.* A failed portable download schedules no further check; an installer that
cannot be spawned is not reported. `genuine` is decided when a download ends: that somebody
else replaces the verified file on the disk before its use (`updater.ts:1217`) is outside
the model, and `OnlyVerifiedInstalls` says nothing about it.

*Deliveries.* `Typed` types a task only while no result of it is owed or printed, so that
the second typing of a send that is repeated after it failed does not show; no property
depends on it.

*Editor* (`WorkspaceEditor.tsx`, not modelled). Moving a file while its save is in flight
leaves it "saving"; a save during a delete writes the file again.

What a next step would add: two targets in one `BridgeService` with a delegation from
one to the other; the editor's saves against moves and deletes; the refinement of
`TurnContract` by `BridgeService`'s own turns, which now is by construction.
