---------------------------- MODULE HeadlessTurns ----------------------------
(***************************************************************************)
(* Headless turns (bridge-headless.ts) and the end of the application      *)
(* (before-quit in index.ts): each turn runs one process tree, may leave a *)
(* finalizer to run and an outcome to write, both of which need the memory *)
(* server, and the quit drains turns, finalizers and writes, each for a    *)
(* bounded time, before it stops that server.                              *)
(***************************************************************************)
CONSTANTS Turns          \* requests for a headless turn

VARIABLES
  turn,          \* per turn: its step
  tree,          \* per turn: its process tree
  aborted,       \* turns whose caller has gone
  active,        \* activeHeadlessRuns
  finalizer,     \* per turn
  write,         \* per turn: the write of its outcome
  quit,          \* the step of the quit
  waiting,       \* what the drain in course waits for
  timedOut,      \* whether some drain gave up
  drained        \* the turns that were active when the quit began

headlessVars ==
  <<turn, tree, aborted, active, finalizer, write, quit, waiting, timedOut,
    drained>>

quitting == <<quit, waiting, timedOut, drained>>

Init ==
  /\ turn = [t \in Turns |-> "new"]
  /\ tree = [t \in Turns |-> "none"]
  /\ aborted = {} /\ active = {}
  /\ finalizer = [t \in Turns |-> "none"]
  /\ write = [t \in Turns |-> "none"]
  /\ quit = "no" /\ waiting = {} /\ timedOut = FALSE /\ drained = {}

ServerRuns == quit # "stopped"

-----------------------------------------------------------------------------
(* A turn *)

\* The server of the bridge closes with the quit; sockets it has accepted stay.
Request(t) ==
  /\ turn[t] = "new"
  /\ ServerRuns
  /\ turn' = [turn EXCEPT ![t] = "preparing"]
  /\ UNCHANGED <<tree, aborted, active, finalizer, write, quitting>>

\* A turn ends: its promise settles and it is no longer active; the finalizer
\* of a wrapped launch is started, and the handler emits an outcome, if any.
End(ts, outcome) ==
  /\ active' = active \ ts
  /\ finalizer' = [t \in Turns |-> IF t \in ts /\ finalizer[t] = "due"
                                   THEN "running" ELSE finalizer[t]]
  /\ write' = [t \in Turns |-> IF t \in ts /\ outcome THEN "pending" ELSE write[t]]

\* Without a command the turn is rejected; a memory launch that cannot be
\* prepared is done without; a spawn that throws leaves its finalizer.
Unprepared(t) ==
  /\ turn[t] = "preparing"
  /\ turn' = [turn EXCEPT ![t] = "over"]
  /\ \E wrapped \in BOOLEAN :
       finalizer' = [finalizer EXCEPT ![t] = IF wrapped THEN "running" ELSE "none"]
  /\ UNCHANGED <<tree, aborted, active, write, quitting>>

Spawn_Untracked(t) ==
  /\ turn[t] = "preparing"
  /\ turn' = [turn EXCEPT ![t] = IF t \in aborted THEN "aborting" ELSE "running"]
  /\ tree' = [tree EXCEPT ![t] = "alive"]
  /\ finalizer' = [finalizer EXCEPT ![t] = "due"]
  /\ UNCHANGED <<aborted, active, write, quitting>>

\* The turn is spawned and becomes active; one whose caller has gone is killed
\* at once.
Spawn(t) ==
  /\ turn[t] = "preparing"
  /\ turn' = [turn EXCEPT ![t] = IF t \in aborted THEN "aborting" ELSE "running"]
  /\ tree' = [tree EXCEPT ![t] = "alive"]
  /\ active' = active \cup {t}
  /\ \E wrapped \in BOOLEAN :
       finalizer' = [finalizer EXCEPT ![t] = IF wrapped THEN "due" ELSE "none"]
  /\ UNCHANGED <<aborted, write, quitting>>

\* 'close', whatever the process printed, or 'error'.
Closed(t) ==
  /\ tree[t] = "alive"
  /\ tree' = [tree EXCEPT ![t] = "dead"]
  /\ IF turn[t] = "running"
     THEN turn' = [turn EXCEPT ![t] = "over"] /\ \E o \in BOOLEAN : End({t}, o)
     ELSE UNCHANGED <<turn, active, finalizer, write>>
  /\ UNCHANGED <<aborted, quitting>>

Abort(t) ==
  /\ turn[t] \in {"preparing", "running"}
  /\ t \notin aborted
  /\ aborted' = aborted \cup {t}
  /\ turn' = [turn EXCEPT ![t] = IF @ = "running" THEN "aborting" ELSE @]
  /\ UNCHANGED <<tree, active, finalizer, write, quitting>>

Timeout(t) ==
  /\ turn[t] = "running"
  /\ turn' = [turn EXCEPT ![t] = "expiring"]
  /\ UNCHANGED <<tree, aborted, active, finalizer, write, quitting>>

Killed_OnlyDead(t) ==
  /\ turn[t] \in {"aborting", "expiring"} /\ tree[t] = "dead"
  /\ turn' = [turn EXCEPT ![t] = "over"]
  /\ End({t}, turn[t] = "expiring")
  /\ UNCHANGED <<tree, aborted, quitting>>

\* The tree is dead, or five seconds have passed: only now does the turn settle,
\* with a failure if its time was up and without an outcome if it was aborted.
Killed(t) ==
  /\ turn[t] \in {"aborting", "expiring"}
  /\ turn' = [turn EXCEPT ![t] = IF tree[t] = "dead" THEN "over" ELSE "givenUp"]
  /\ End({t}, turn[t] = "expiring")
  /\ UNCHANGED <<tree, aborted, quitting>>

Finalized(t) ==
  /\ finalizer[t] = "running"
  /\ finalizer' = [finalizer EXCEPT ![t] = IF ServerRuns THEN "done" ELSE "late"]
  /\ UNCHANGED <<turn, tree, aborted, active, write, quitting>>

Written(t) ==
  /\ write[t] = "pending"
  /\ write' = [write EXCEPT ![t] = IF ServerRuns THEN "done" ELSE "late"]
  /\ UNCHANGED <<turn, tree, aborted, active, finalizer, quitting>>

-----------------------------------------------------------------------------
(* The quit *)

Finalizing == {t \in Turns : finalizer[t] = "running"}
Writing == {t \in Turns : write[t] = "pending"}

\* drainHeadlessRuns: abort the active turns and wait for each to be done.
Quit ==
  /\ quit = "no"
  /\ quit' = "runs"
  /\ waiting' = active
  /\ drained' = active
  /\ turn' = [t \in Turns |-> IF t \in active /\ turn[t] = "running"
                              THEN "aborting" ELSE turn[t]]
  /\ UNCHANGED <<tree, aborted, active, finalizer, write, timedOut>>

\* A drain is over when what it waits for is, or when its time is.
DrainEnds(step, busy, nextStep, nextWaiting) ==
  /\ quit = step
  /\ quit' = nextStep
  /\ waiting' = nextWaiting
  /\ timedOut' = (timedOut \/ waiting \cap busy # {})
  /\ UNCHANGED <<turn, tree, aborted, active, finalizer, write, drained>>

RunsDrained == DrainEnds("runs", active, "finalizers", Finalizing)

FinalizersDrained_Skipped == DrainEnds("finalizers", {}, "writes", Turns)

FinalizersDrained == DrainEnds("finalizers", Finalizing, "writes", Turns)

\* The last drain looks again until nothing is pending; then the server stops.
WritesDrained == DrainEnds("writes", Writing, "stopped", {})

Next ==
  \/ Quit \/ RunsDrained \/ FinalizersDrained \/ WritesDrained
  \/ \E t \in Turns :
       \/ Request(t) \/ Unprepared(t) \/ Spawn(t) \/ Closed(t)
       \/ Abort(t) \/ Timeout(t) \/ Killed(t) \/ Finalized(t) \/ Written(t)

\* Preparation, timers and kills end; a quit is not left half way.
Progress(t) ==
  Unprepared(t) \/ Spawn(t) \/ Timeout(t) \/ Killed(t) \/ Finalized(t) \/ Written(t)
QuitProgress == RunsDrained \/ FinalizersDrained \/ WritesDrained

Spec ==
  /\ Init /\ [][Next]_headlessVars
  /\ \A t \in Turns : WF_headlessVars(Progress(t))
  /\ WF_headlessVars(QuitProgress)

-----------------------------------------------------------------------------

Unfinished(t) ==
  turn[t] \notin {"new", "over", "givenUp"} \/ t \in Finalizing \cup Writing

\* A process tree that is alive belongs to an active turn, which a quit aborts,
\* or could not be killed.
NoHeadlessProcessLeft ==
  \A t \in Turns : tree[t] = "alive" => t \in active \/ turn[t] = "givenUp"

\* Unless a drain ran out of time, the turns that were active when the quit
\* began have ended, and their finalizers and outcomes were served, before the
\* memory server stops.
QuitDrains ==
  quit = "stopped" /\ ~timedOut =>
    \A t \in drained :
      /\ turn[t] \in {"over", "givenUp"}
      /\ finalizer[t] \in {"none", "done"}
      /\ write[t] \in {"none", "done"}
=============================================================================
