-------------------------------- MODULE Parts --------------------------------
(***************************************************************************)
(* The components that do not touch the bridge's turns, each on its own: a *)
(* behaviour chooses one of PartNames at the start and runs that part's    *)
(* specification, while the variables of the others have no value.  The    *)
(* properties are the questions these components have in common.           *)
(***************************************************************************)
EXTENDS Naturals, Sequences, FiniteSets

CONSTANTS
  PartNames,             \* the parts chosen from
  None

VARIABLES part

-----------------------------------------------------------------------------
(* The parts: what each is made for, its state, and its specification *)

CONSTANTS RunnerCalls
VARIABLES run, proc, asked, children, disposed
Runner == INSTANCE ProcessRunner

CONSTANTS Turns
VARIABLES turn, tree, aborted, active, finalizer, write, quit, waiting, timedOut, drained
Headless == INSTANCE HeadlessTurns

CONSTANTS Sockets, Requests
ASSUME BridgeAssumption == None \notin Requests
VARIABLES closed, received, begun, serving, sent, event, stopped
Bridge == INSTANCE BridgeSockets

CONSTANTS ToolUses, NeedsApproval, Permits
VARIABLES use, request, due, waiters, gone, decided
Tools == INSTANCE ToolCalls

CONSTANTS Entries, LedgerLines, TailLines, MaxTears
VARIABLES log, openLine, tail, size, step, next, acked, tears
Ledger == INSTANCE AuditLedger WITH MaxLines <- LedgerLines
ASSUME LedgerAssumption ==
  /\ LedgerLines \in Nat /\ TailLines \in 2 .. LedgerLines
  /\ Entries \in Seq(Ledger!ToSet(Entries)) /\ "torn" \notin Ledger!ToSet(Entries)
  /\ \A i, j \in DOMAIN Entries : Entries[i] = Entries[j] => i = j

CONSTANTS MaxAdds, MaxRecords, RollsBack
ASSUME RollsBackAssumption == RollsBack \subseteq BOOLEAN
VARIABLES rollsBack, main, storeBak, memory, before, storeStep, backedUp, added, saved, forgotten
Records == INSTANCE RecordStore WITH bak <- storeBak, step <- storeStep

CONSTANTS Migrations, LegacyWriters
ASSUME MigrationAssumption == Migrations \cap LegacyWriters = {}
VARIABLES receipt, receiptBak, migration, writer, published, closedBefore, crossed, overlapped
Migration == INSTANCE LegacyMigration WITH file <- receipt, bak <- receiptBak

CONSTANTS Distributions, InstallCalls, QuitCalls
VARIABLES distribution, status, check, retryTimer, download, genuine, path,
  autoInstallOnAppQuit, portableInstallTriggered, installer, phase, replaced
Update == INSTANCE Updater

CONSTANTS Seats, Roles, Escalation, Threshold, Cooldown, MaxPerHour, Hour, EventLimit,
  Projects, Calls, OpOf, ProjectOf, Saved, LastInstant
VARIABLES projectPath, cache, file, queue, job, call, clock, ended
Orchestra == INSTANCE Orchestration

\* Handoffs of a role that are spaced, past its cooldown, and numbered among the events.
Spaced(done, cold, logged) ==
  /\ \A i \in 1 .. Len(done) : done[i].at + Cooldown <= cold /\ done[i].nr <= logged
  /\ \A i, j \in 1 .. Len(done) :
       /\ i < j => done[i].at + Cooldown <= done[j].at /\ done[i].nr < done[j].nr
       /\ j - i >= MaxPerHour /\ done[j].nr - done[i].nr < EventLimit =>
            done[i].at + Hour < done[j].at

\* What the engine leaves of a project: roles of seats that exist, and such handoffs.
LeftByEngine(plan) ==
  /\ plan = [enabled |-> plan.enabled, roles |-> plan.roles, seats |-> plan.seats,
             cooldown |-> plan.cooldown, logged |-> plan.logged, handoffs |-> plan.handoffs]
  /\ plan.enabled \in BOOLEAN /\ DOMAIN plan.roles = Roles
  /\ \A r \in Roles : plan.roles[r] \in DOMAIN plan.seats \cup {None}
  /\ plan.cooldown \in [Roles -> Nat] /\ plan.logged \in Nat
  /\ plan.handoffs \in [Roles -> Seq([at : Nat, nr : Nat])]
  /\ \A r \in Roles : Spaced(plan.handoffs[r], plan.cooldown[r], plan.logged)

\* The policy is in bounds (parseOrchestrationState), and the file of a project is
\* one that an earlier run of the application left.
ASSUME OrchestrationAssumption ==
  /\ Cooldown \in Nat /\ MaxPerHour \in Nat /\ Hour \in Nat /\ EventLimit \in Nat
  /\ IsFiniteSet(Roles)
  /\ \A p \in Projects : LeftByEngine(Saved[p])
  /\ \A c \in Calls :
       /\ ProjectOf[c] \in Projects \cup {None}
       /\ OpOf[c].kind \in
            {"setEnabled", "upsertSeat", "removeSeat", "assignRole", "reportQuota", "turnDone",
             "reportSeatFailure", "reportSeatSuccess", "turnFailed", "reportCodexUsage"}
       /\ OpOf[c].kind = "setEnabled" => OpOf[c].on \in BOOLEAN
       /\ OpOf[c].kind = "reportCodexUsage" => IsFiniteSet(OpOf[c].used)

CONSTANTS Reconfigs, Polls, Pids
ASSUME PidsAssumption == None \notin Pids
VARIABLES state, owned, conflict, child, contained, alive, told, config, generation,
  starting, recon, poll, booted, serviceStopped
Memory == INSTANCE MemoryService WITH job <- contained, stopped <- serviceStopped

CONSTANTS Launches, TerminalOf, Explicit
ASSUME LaunchesAssumption == None \notin Launches
VARIABLES memoryLaunch, isDefault, attempt, memoryPty, reserved, session, finished, lastKey,
  inFlight, overlapping, early, failed
Sessions == INSTANCE MemorySessions WITH
  launch <- memoryLaunch, pty <- memoryPty, active <- session

CONSTANTS HealthLaunches, HealthWaiters, OtherStarts
VARIABLES launch, configured, spawned, pty, accepted, others, waiter, earned, over
Health == INSTANCE CodexHealth

CONSTANTS Terminals, MaxStarts, MaxChunks, BufferParts, EventParts, MaxForwards, MaxClock
ASSUME PipesAssumption == IsFiniteSet(Terminals)
VARIABLES live, current, wrote, buffer, edges, windows, pipeClock, starts, heard, misheard
Pipes == INSTANCE TerminalPipes WITH clock <- pipeClock

CONSTANTS Agents, Coordinator, Plans, Handoffs, CanvasTasks, MaxReports, MaxChanges
ASSUME CanvasAssumption ==
  Coordinator \in Agents /\ Plans \subseteq Seq(Agents) /\ None \notin Nat
VARIABLES node, canvasRun, progress, manual, followed, tasks, changes, taken
Canvas == INSTANCE CanvasRun WITH MaxTasks <- CanvasTasks, run <- canvasRun

CONSTANTS Mounts, MaxTasks
ASSUME DeliveryAssumption == None \notin 1 .. MaxTasks /\ MaxTasks \in Nat
VARIABLES codex, task, newest, mounted, mounts, completed, delivered, failures, deliveries, slot,
  sending, awaiting, deliveredTimes, owed, printed, canvasTold, unnamed
Delivery == INSTANCE TaskDelivery WITH
  failed <- failures, waiting <- awaiting, sent <- deliveredTimes, told <- canvasTold

CONSTANTS Keys, Vals, OldPlain, OldVault, Saves, Loads, Updates, ConfigRestarts, Clear, Keep
ASSUME ConfigAssumption ==
  /\ None \notin Vals \cup {Clear, Keep} /\ Clear # Keep
  /\ OldPlain \in Vals /\ OldVault \in Vals
  /\ Updates \subseteq [Keys -> Vals \cup {Clear, Keep}]
VARIABLES plain, vault, overlay, available, op, configCall, restarts, acceptable, loose, undone
Secrets == INSTANCE ConfigSecrets WITH MaxRestarts <- ConfigRestarts, call <- configCall

CONSTANTS Starts, Cancels
ASSUME LoginAssumption == None \notin Starts
VARIABLES loginGeneration, login, loginStart, loginChild, killed, loginState, cancel, loginTold,
  overtaken, orphans
Login == INSTANCE CodexLogin WITH
  active <- login, start <- loginStart, child <- loginChild, session <- loginState,
  told <- loginTold

CONSTANTS TurnCalls, StartCalls, StopCalls, Models
ASSUME TurnsAssumption ==
  /\ TurnCalls \cap StartCalls = {} /\ StopCalls \cap (TurnCalls \cup StartCalls) = {}
  /\ None \notin TurnCalls \cup StartCalls \cup StopCalls \cup Models
  /\ "timeout" \notin TurnCalls /\ "exit" \notin TurnCalls
VARIABLES launchAttempt, process, turnSession, turnQueue, agentCall, model, answer, work, joined
AgentTurn == INSTANCE AgentTurns WITH
  attempt <- launchAttempt, turn <- agentCall, early <- joined

CONSTANTS Refreshes, MaxLines, MaxEvents, MaxRestarts
ASSUME UsageAssumption == MaxEvents \in Nat
VARIABLES source, usageFile, fileTail, rewrite, aside, savedOffset, events, dedupeKeys, offset,
  loaded, refresh, pruned, joinedLines, leftBehind, keyless, apart, usageRestarts
Usage == INSTANCE UsageEvents WITH
  file <- usageFile, tail <- fileTail, joined <- joinedLines, restarts <- usageRestarts

-----------------------------------------------------------------------------
(* The specification *)

runnerVars == <<run, proc, asked, children, disposed>>
headlessVars == <<turn, tree, aborted, active, finalizer, write, quit, waiting, timedOut, drained>>
bridgeVars == <<closed, received, begun, serving, sent, event, stopped>>
toolVars == <<use, request, due, waiters, gone, decided>>
ledgerVars == <<log, openLine, tail, size, step, next, acked, tears>>
storeVars == <<rollsBack, main, storeBak, memory, before, storeStep, backedUp, added, saved, forgotten>>
migrationVars ==
  <<receipt, receiptBak, migration, writer, published, closedBefore, crossed, overlapped>>
updaterVars ==
  <<distribution, status, check, retryTimer, download, genuine, path,
    autoInstallOnAppQuit, portableInstallTriggered, installer, phase, replaced>>
orchestrationVars == <<projectPath, cache, file, queue, job, call, clock, ended>>
serviceVars ==
  <<state, owned, conflict, child, contained, alive, told, config, generation,
    starting, recon, poll, booted, serviceStopped>>
sessionVars ==
  <<memoryLaunch, isDefault, attempt, memoryPty, reserved, session, finished, lastKey,
    inFlight, overlapping, early, failed>>
healthVars == <<launch, configured, spawned, pty, accepted, others, waiter, earned, over>>
pipeVars == <<live, current, wrote, buffer, edges, windows, pipeClock, starts, heard, misheard>>
canvasVars == <<node, canvasRun, progress, manual, followed, tasks, changes, taken>>
deliveryVars ==
  <<codex, task, newest, mounted, mounts, completed, delivered, failures, deliveries, slot,
    sending, awaiting, deliveredTimes, owed, printed, canvasTold, unnamed>>

configVars ==
  <<plain, vault, overlay, available, op, configCall, restarts, acceptable, loose, undone>>
loginVars ==
  <<loginGeneration, login, loginStart, loginChild, killed, loginState, cancel, loginTold,
    overtaken, orphans>>
agentVars ==
  <<launchAttempt, process, turnSession, turnQueue, agentCall, model, answer, work, joined>>
usageVars ==
  <<source, usageFile, fileTail, rewrite, aside, savedOffset, events, dedupeKeys, offset, loaded,
    refresh, pruned, joinedLines, leftBehind, keyless, apart, usageRestarts>>

partVars ==
  <<part, runnerVars, headlessVars, bridgeVars, toolVars, ledgerVars, storeVars, migrationVars,
    updaterVars, orchestrationVars, serviceVars, sessionVars, healthVars, pipeVars,
    canvasVars, deliveryVars, configVars, loginVars, agentVars, usageVars>>

\* The variables of the parts that were not chosen have no value.
Init ==
  /\ part \in PartNames
  /\ IF part = "runner"
       THEN Runner!Init
       ELSE run = None /\ proc = None /\ asked = None /\ children = None /\ disposed = None
  /\ IF part = "headless"
       THEN Headless!Init
       ELSE turn = None /\ tree = None /\ aborted = None /\ active = None /\ finalizer = None
            /\ write = None /\ quit = None /\ waiting = None /\ timedOut = None /\ drained = None
  /\ IF part = "bridge"
       THEN Bridge!Init
       ELSE closed = None /\ received = None /\ begun = None /\ serving = None /\ sent = None
            /\ event = None /\ stopped = None
  /\ IF part = "tools"
       THEN Tools!Init
       ELSE use = None /\ request = None /\ due = None /\ waiters = None /\ gone = None
            /\ decided = None
  /\ IF part = "ledger"
       THEN Ledger!Init
       ELSE log = None /\ openLine = None /\ tail = None /\ size = None /\ step = None
            /\ next = None /\ acked = None /\ tears = None
  /\ IF part = "records"
       THEN Records!Init
       ELSE rollsBack = None /\ main = None /\ storeBak = None /\ memory = None /\ before = None
            /\ storeStep = None /\ backedUp = None /\ added = None /\ saved = None
            /\ forgotten = None
  /\ IF part = "migration"
       THEN Migration!Init
       ELSE receipt = None /\ receiptBak = None /\ migration = None /\ writer = None
            /\ published = None /\ closedBefore = None /\ crossed = None /\ overlapped = None
  /\ IF part = "updater"
       THEN Update!Init
       ELSE distribution = None /\ status = None /\ check = None /\ retryTimer = None
            /\ download = None /\ genuine = None /\ path = None /\ autoInstallOnAppQuit = None
            /\ portableInstallTriggered = None /\ installer = None /\ phase = None
            /\ replaced = None
  /\ IF part = "orchestration"
       THEN Orchestra!Init
       ELSE projectPath = None /\ cache = None /\ file = None /\ queue = None /\ job = None
            /\ call = None /\ clock = None /\ ended = None
  /\ IF part = "memory"
       THEN Memory!Init
       ELSE state = None /\ owned = None /\ conflict = None /\ child = None /\ contained = None
            /\ alive = None /\ told = None /\ config = None /\ generation = None
            /\ starting = None /\ recon = None /\ poll = None /\ booted = None
            /\ serviceStopped = None
  /\ IF part = "sessions"
       THEN Sessions!Init
       ELSE memoryLaunch = None /\ isDefault = None /\ attempt = None /\ memoryPty = None
            /\ reserved = None /\ session = None /\ finished = None /\ lastKey = None
            /\ inFlight = None /\ overlapping = None /\ early = None /\ failed = None
  /\ IF part = "health"
       THEN Health!Init
       ELSE launch = None /\ configured = None /\ spawned = None /\ pty = None /\ accepted = None
            /\ others = None /\ waiter = None /\ earned = None /\ over = None
  /\ IF part = "pipes"
       THEN Pipes!Init
       ELSE live = None /\ current = None /\ wrote = None /\ buffer = None /\ edges = None
            /\ windows = None /\ pipeClock = None /\ starts = None /\ heard = None
            /\ misheard = None
  /\ IF part = "canvas"
       THEN Canvas!Init
       ELSE node = None /\ canvasRun = None /\ progress = None /\ manual = None /\ followed = None
            /\ tasks = None /\ changes = None /\ taken = None
  /\ IF part = "delivery"
       THEN Delivery!Init
       ELSE codex = None /\ task = None /\ newest = None /\ mounted = None /\ mounts = None
            /\ completed = None /\ delivered = None /\ failures = None /\ deliveries = None
            /\ slot = None /\ sending = None /\ awaiting = None /\ deliveredTimes = None
            /\ owed = None /\ printed = None /\ canvasTold = None /\ unnamed = None
  /\ IF part = "config"
       THEN Secrets!Init
       ELSE plain = None /\ vault = None /\ overlay = None /\ available = None /\ op = None
            /\ configCall = None /\ restarts = None /\ acceptable = None /\ loose = None
            /\ undone = None
  /\ IF part = "login"
       THEN Login!Init
       ELSE loginGeneration = None /\ login = None /\ loginStart = None /\ loginChild = None
            /\ killed = None /\ loginState = None /\ cancel = None /\ loginTold = None
            /\ overtaken = None /\ orphans = None
  /\ IF part = "turns"
       THEN AgentTurn!Init
       ELSE launchAttempt = None /\ process = None /\ turnSession = None /\ turnQueue = None
            /\ agentCall = None /\ model = None /\ answer = None /\ work = None /\ joined = None
  /\ IF part = "usage"
       THEN Usage!Init
       ELSE source = None /\ usageFile = None /\ fileTail = None /\ rewrite = None /\ aside = None
            /\ savedOffset = None /\ events = None /\ dedupeKeys = None /\ offset = None
            /\ loaded = None /\ refresh = None /\ pruned = None /\ joinedLines = None
            /\ leftBehind = None /\ keyless = None /\ apart = None /\ usageRestarts = None

\* Only the part that was chosen moves.
Frame(p) ==
  /\ part = p
  /\ part' = part
  /\ IF p = "runner" THEN TRUE ELSE UNCHANGED runnerVars
  /\ IF p = "headless" THEN TRUE ELSE UNCHANGED headlessVars
  /\ IF p = "bridge" THEN TRUE ELSE UNCHANGED bridgeVars
  /\ IF p = "tools" THEN TRUE ELSE UNCHANGED toolVars
  /\ IF p = "ledger" THEN TRUE ELSE UNCHANGED ledgerVars
  /\ IF p = "records" THEN TRUE ELSE UNCHANGED storeVars
  /\ IF p = "migration" THEN TRUE ELSE UNCHANGED migrationVars
  /\ IF p = "updater" THEN TRUE ELSE UNCHANGED updaterVars
  /\ IF p = "orchestration" THEN TRUE ELSE UNCHANGED orchestrationVars
  /\ IF p = "memory" THEN TRUE ELSE UNCHANGED serviceVars
  /\ IF p = "sessions" THEN TRUE ELSE UNCHANGED sessionVars
  /\ IF p = "health" THEN TRUE ELSE UNCHANGED healthVars
  /\ IF p = "pipes" THEN TRUE ELSE UNCHANGED pipeVars
  /\ IF p = "canvas" THEN TRUE ELSE UNCHANGED canvasVars
  /\ IF p = "delivery" THEN TRUE ELSE UNCHANGED deliveryVars
  /\ IF p = "config" THEN TRUE ELSE UNCHANGED configVars
  /\ IF p = "login" THEN TRUE ELSE UNCHANGED loginVars
  /\ IF p = "turns" THEN TRUE ELSE UNCHANGED agentVars
  /\ IF p = "usage" THEN TRUE ELSE UNCHANGED usageVars

Next ==
  \/ part = "runner" /\ Runner!Next /\ Frame("runner")
  \/ part = "headless" /\ Headless!Next /\ Frame("headless")
  \/ part = "bridge" /\ Bridge!Next /\ Frame("bridge")
  \/ part = "tools" /\ Tools!Next /\ Frame("tools")
  \/ part = "ledger" /\ Ledger!Next /\ Frame("ledger")
  \/ part = "records" /\ Records!Next /\ Frame("records")
  \/ part = "migration" /\ Migration!Next /\ Frame("migration")
  \/ part = "updater" /\ Update!Next /\ Frame("updater")
  \/ part = "orchestration" /\ Orchestra!Next /\ Frame("orchestration")
  \/ part = "memory" /\ Memory!Next /\ Frame("memory")
  \/ part = "sessions" /\ Sessions!Next /\ Frame("sessions")
  \/ part = "health" /\ Health!Next /\ Frame("health")
  \/ part = "pipes" /\ Pipes!Next /\ Frame("pipes")
  \/ part = "canvas" /\ Canvas!Next /\ Frame("canvas")
  \/ part = "delivery" /\ Delivery!Next /\ Frame("delivery")
  \/ part = "config" /\ Secrets!Next /\ Frame("config")
  \/ part = "login" /\ Login!Next /\ Frame("login")
  \/ part = "turns" /\ AgentTurn!Next /\ Frame("turns")
  \/ part = "usage" /\ Usage!Next /\ Frame("usage")

Spec == Init /\ [][Next]_partVars

-----------------------------------------------------------------------------
(* Properties *)

\* No process outlives what it was started for unless somebody was told to end
\* it: those of process-runner.ts, the memory server, headless turns, and the CLI
\* of a login; and no agent runs in a terminal that was stopped.
NoProcessLeft ==
  CASE part = "runner"   -> Runner!NoRunnerProcessLeft
    [] part = "memory"   -> Memory!NoProcessLeft
    [] part = "headless" -> Headless!NoHeadlessProcessLeft
    [] part = "login"    -> Login!NoLoginLeft
    [] part = "turns"    -> AgentTurn!NothingAfterStop
    [] OTHER             -> TRUE

\* The quit stops the memory server after what needs it (before-quit of index.ts).
QuitDrains == part = "headless" => Headless!QuitDrains

\* A tool that needs approval runs with this approval only (hitl.ts and the MCP
\* server), and only a verified binary is installed (updater.ts).
NothingRunsUnchecked ==
  /\ part = "tools" => Tools!OnlyApprovedToolsRun
  /\ part = "updater" => Update!OnlyVerifiedInstalls

\* The sockets of the bridge answer in order and once (handleSocket).
OneAnswerPerRequest == part = "bridge" => Bridge!OneAnswerPerRequest

\* What was acknowledged outlives failed writes and crashes, as far as each of these
\* properties says: entries of the audit ledger, records of the stores, the receipt that
\* closes the old memory, and the keys of the configuration, which are not written in
\* clear text either.
FilesSurvive ==
  CASE part = "ledger"    -> Ledger!LedgerKeepsEntries
    [] part = "records"   -> Records!SavedSurvives /\ Records!MemoryIsSaved
    [] part = "migration" -> Migration!ReceiptSurvives /\ Migration!LegacyStaysClosed
    [] part = "config"    -> Secrets!SecretsSurvive /\ Secrets!NoNewPlaintext
    [] OTHER              -> TRUE

\* Token events, in memory and on the disk: each is counted once, and none that the
\* saved offset is past is missed but where NothingSkipped says so (usage-store.ts).
EventsAreCounted ==
  part = "usage" => Usage!CountedOnce /\ Usage!NothingSkipped /\ Usage!MemoryIsFile

\* Roles and handoffs of the orchestration state, in memory and in its file.
OrchestrationIsSound ==
  part = "orchestration" => Orchestra!NoDanglingRole /\ Orchestra!HandoffsSpaced

\* A call of the orchestration service that succeeds has been written.
AnsweredIsSaved == [][part = "orchestration" => Orchestra!AnswersSaved]_partVars

\* Launches leave nothing behind that later ones trip over: the scope of the
\* external memory (ai-memory-launcher.ts), the health of a Codex launch and those
\* who wait for it (codex-bridge-health.ts), the outcome of a login
\* (codex-auth.ts), and the session of an agent's terminal (terminal-ipc.ts).
LaunchesEndCleanly ==
  CASE part = "sessions" -> Sessions!ScopeIsFreed
    [] part = "health"   -> Health!ConnectedIsEarned
    [] part = "login"    -> Login!OneOutcome
    [] part = "turns"    -> AgentTurn!SessionIsKept
    [] OTHER             -> TRUE

\* Output of terminals: its order, and the cables that carry it (pty-pipe.ts and
\* terminal-session.ts).
OutputFollowsCables ==
  part = "pipes" => Pipes!PipesStayAcyclic /\ Pipes!WindowsFollowCables /\ Pipes!OutputInPlace

\* The run of a coordinator on the canvas goes by its own tasks, one after the
\* other, and waits for one that is out (WorkspaceCanvas.tsx).
CanvasRunIsSound ==
  part = "canvas" =>
    Canvas!RunTakesItsTasks /\ Canvas!RunWaitsForATask /\ Canvas!ManualTaskIsOut

\* A task reaches its terminal once, and its result finds its way back by name,
\* across mounts of the terminal (agent-task-delivery.ts); the answer that a turn
\* of a terminal takes is the one to its own prompt (agent-turn.ts).
TasksAreDelivered ==
  /\ part = "delivery" => Delivery!TaskIsSentOnce /\ Delivery!ResultHasItsTask
  /\ part = "turns" => AgentTurn!AnswerIsOwn

\* A writer of the old memory is let in only in the absence of a receipt and of
\* its backup, as the comments in isLegacyWriterReadOnly say.
OnlyAbsenceOpens == part = "migration" => Migration!OnlyAbsenceOpens

\* A load of the token events that prunes their file rewrites it atomically, as the
\* comment in loadLocked says.
PruningKeepsEvents == part = "usage" => Usage!RewriteKeepsEvents
=============================================================================
