---------------------------- MODULE MemoryService ----------------------------
(***************************************************************************)
(* The controller of the external memory server (ai-memory-service.ts) and *)
(* the containment of its process (ai-memory-job.ts): start, reconfigure,  *)
(* the polls of its health, stop, and the exit of the process, which may   *)
(* overlap at every await.                                                 *)
(*                                                                         *)
(* What a server answers is any answer: nothing, a compatible server (ours *)
(* or another), or something else on its port.  The search for a binary,   *)
(* its download and its check are one step that finds one, finds none or   *)
(* throws.  Of the configuration, the switch and whether some project is   *)
(* enabled.                                                                *)
(***************************************************************************)
EXTENDS Naturals, FiniteSets

CONSTANTS
  Reconfigs,     \* calls of reconfigure, each made once
  Polls,         \* calls of health, each made once
  Pids,          \* processes that can be spawned
  None

VARIABLES
  state, owned, conflict,   \* as in the controller
  child,         \* the process it knows as its own, or None
  job,           \* the process in the open Job Object, or None
  alive,         \* processes it spawned that run
  told,          \* processes it asked to end
  config,        \* this.config: the switch, and whether some project is enabled
  generation,    \* lifecycleGeneration
  starting,      \* the start in flight (startPromise)
  recon,         \* per call of reconfigure: its step
  poll,          \* per call of health: its step
  booted, stopped

service == <<state, owned, conflict>>
process == <<child, job, alive, told>>
vars == <<service, process, config, generation, starting, recon, poll, booted,
          stopped>>

NoStart == [at |-> "none", gen |-> 0]

Configs == [switch : BOOLEAN, projects : BOOLEAN]

On(cfg) == cfg.switch /\ cfg.projects

Init ==
  /\ state = "unavailable" /\ owned = FALSE /\ conflict = FALSE
  /\ child = None /\ job = None /\ alive = {} /\ told = {}
  /\ config \in Configs
  /\ generation = 0
  /\ starting = NoStart
  /\ recon = [r \in Reconfigs |-> [at |-> "new"]]
  /\ poll = [h \in Polls |-> "new"]
  /\ booted = FALSE /\ stopped = FALSE

Service(s, o, c) == state' = s /\ owned' = o /\ conflict' = c

Stale == starting.gen # generation

\* stopOwnChild, which also sets owned to FALSE: kill it and close its job.
StopOwnChild ==
  /\ told' = told \cup ({child} \ {None})
  /\ child' = None
  /\ job' = None
  /\ UNCHANGED alive

-----------------------------------------------------------------------------
(* start: one at a time; a call during a start shares it. *)

\* start(): shares a start in flight, or does nothing while the memory is off;
\* `gen' is the generation the caller has already taken.
StartService(gen) ==
  IF starting # NoStart THEN generation' = gen /\ UNCHANGED <<service, starting>>
  ELSE IF ~On(config')
  THEN generation' = gen /\ Service("unavailable", FALSE, FALSE) /\ UNCHANGED starting
  ELSE /\ generation' = gen + 1
       /\ Service("starting", owned, FALSE)
       /\ starting' = [at |-> "probing", gen |-> generation']

\* The boot of the application, before it opens a window.
Boot ==
  /\ ~booted /\ ~stopped
  /\ booted' = TRUE
  /\ UNCHANGED <<process, config, recon, poll, stopped>>
  /\ StartService(generation)

ProbeEnds ==
  /\ starting.at = "probing"
  /\ IF Stale THEN starting' = NoStart /\ UNCHANGED service
     ELSE \/ /\ starting' = [starting EXCEPT !.at = "finding"]
             /\ UNCHANGED service
          \/ /\ starting' = [starting EXCEPT !.at = "verifying"]
             /\ Service("running", FALSE, conflict)
          \/ /\ starting' = NoStart
             /\ Service("degraded", FALSE, TRUE)
  /\ UNCHANGED <<process, config, generation, recon, poll, booted, stopped>>

\* No binary, and none to download for this platform: not checked for staleness.
NoBinary ==
  /\ starting.at = "finding"
  /\ starting' = NoStart
  /\ \E s \in {"error", "degraded"} : Service(s, owned, conflict)
  /\ UNCHANGED <<process, config, generation, recon, poll, booted, stopped>>

\* The search, the download or the check of the version throws: what runs is
\* ended, and only a start that is not stale says so.  A binary of the wrong
\* version is only refused.
FindFails ==
  /\ starting.at = "finding"
  /\ starting' = NoStart
  /\ \/ /\ StopOwnChild
        /\ Service(IF Stale THEN state ELSE "error", FALSE, conflict)
     \/ /\ ~Stale
        /\ Service("error", owned, conflict)
        /\ UNCHANGED process
  /\ UNCHANGED <<config, generation, recon, poll, booted, stopped>>

\* A binary was found: spawn it, unless the start is stale.  Containment closes
\* the job it has and puts the process in a new one, or fails.
Found ==
  /\ starting.at = "finding"
  /\ IF Stale THEN starting' = NoStart /\ UNCHANGED process
     ELSE \E pid \in Pids \ (alive \cup told) :
            /\ child' = pid
            /\ alive' = alive \cup {pid}
            /\ job' \in {None, pid}
            /\ starting' = [at |-> "waiting", gen |-> starting.gen, pid |-> pid]
            /\ UNCHANGED told
  /\ UNCHANGED <<service, config, generation, recon, poll, booted, stopped>>

\* waitForHealth ended.  A stale start only ends the process it spawned; a
\* healthy server that is not that process is an external one.
WaitEnds ==
  /\ starting.at = "waiting"
  /\ \/ /\ Stale
        /\ starting' = NoStart
        /\ IF child = starting.pid
           THEN StopOwnChild /\ Service(state, FALSE, conflict)
           ELSE UNCHANGED <<process, service>>
     \/ /\ ~Stale
        /\ starting' = NoStart
        /\ StopOwnChild
        /\ Service("degraded", FALSE, conflict)
     \/ /\ ~Stale
        /\ starting' = [starting EXCEPT !.at = "verifying"]
        /\ Service("running", child = starting.pid, conflict)
        /\ UNCHANGED process
  /\ UNCHANGED <<config, generation, recon, poll, booted, stopped>>

\* verifyEnabledScopes ended; staleness is not checked after it.
VerifyEnds ==
  /\ starting.at = "verifying"
  /\ starting' = NoStart
  /\ \/ UNCHANGED service
     \/ \E c \in BOOLEAN : Service("degraded", owned, c)
  /\ UNCHANGED <<process, config, generation, recon, poll, booted, stopped>>

-----------------------------------------------------------------------------
(* reconfigure *)

Becomes(r, at) == recon' = [recon EXCEPT ![r] = [at |-> at]]

\* The decision: by the switch of this call's own configuration, and the projects of
\* the last one (this.config).
Decide(r, gen, switch) ==
  IF ~switch \/ ~config'.projects
  THEN /\ StopOwnChild
       /\ Service("unavailable", FALSE, FALSE)
       /\ generation' = gen
       /\ Becomes(r, "done")
       /\ UNCHANGED starting
  ELSE /\ UNCHANGED process
       /\ IF state \in {"running", "degraded"}
          THEN /\ Becomes(r, "verifying")
               /\ generation' = gen
               /\ UNCHANGED <<service, starting>>
          ELSE Becomes(r, "done") /\ StartService(gen)

\* The call: the start in flight becomes stale and is waited for; then the
\* markers of projects that were turned off are removed; then the decision.
Reconfigure(r) ==
  /\ recon[r].at = "new"
  /\ booted /\ ~stopped
  /\ config' \in Configs
  /\ LET optOut == On(config) /\ ~On(config') IN
     IF starting = NoStart /\ ~optOut
     THEN Decide(r, generation + 1, config'.switch)
     ELSE /\ recon' = [recon EXCEPT ![r] =
               IF starting = NoStart THEN [at |-> "optingOut", switch |-> config'.switch]
               ELSE [at |-> "awaiting", switch |-> config'.switch, for |-> starting.gen,
                     optOut |-> optOut]]
          /\ generation' = generation + 1
          /\ UNCHANGED <<service, process, starting>>
  /\ UNCHANGED <<poll, booted, stopped>>

\* The start in flight at the call is over.
Awaited(r) ==
  /\ recon[r].at = "awaiting"
  /\ starting.gen # recon[r].for
  /\ UNCHANGED <<config, poll, booted, stopped>>
  /\ IF recon[r].optOut
     THEN /\ recon' = [recon EXCEPT ![r] = [at |-> "optingOut", switch |-> recon[r].switch]]
          /\ UNCHANGED <<service, process, starting, generation>>
     ELSE Decide(r, generation, recon[r].switch)

OptedOut(r) ==
  /\ recon[r].at = "optingOut"
  /\ UNCHANGED <<config, poll, booted, stopped>>
  /\ Decide(r, generation, recon[r].switch)

\* A marker that cannot be removed rejects the call.
OptOutFails(r) ==
  /\ recon[r].at = "optingOut"
  /\ Becomes(r, "failed")
  /\ UNCHANGED <<service, process, config, generation, starting, poll, booted, stopped>>

Reverified(r) ==
  /\ recon[r].at = "verifying"
  /\ Becomes(r, "done")
  /\ \/ Service("running", owned, FALSE)
     \/ \E c \in BOOLEAN : Service("degraded", owned, c)
  /\ UNCHANGED <<process, config, generation, starting, poll, booted, stopped>>

-----------------------------------------------------------------------------
(* health, stop, and the end of a process *)

\* The doctor asks the server only when it is not ours.
Poll(h) ==
  /\ poll[h] = "new"
  /\ booted /\ ~owned
  /\ poll' = [poll EXCEPT ![h] =
       IF state = "running" \/ (state = "degraded" /\ ~conflict)
       THEN "asking" ELSE "done"]
  /\ UNCHANGED <<service, process, config, generation, starting, recon, booted, stopped>>

PollEnds(h) ==
  /\ poll[h] = "asking"
  /\ poll' = [poll EXCEPT ![h] = "done"]
  /\ \/ IF state = "degraded" THEN Service("running", owned, FALSE)
        ELSE UNCHANGED service
     \/ Service("degraded", owned, FALSE)
  /\ UNCHANGED <<process, config, generation, starting, recon, booted, stopped>>

Stop ==
  /\ ~stopped
  /\ stopped' = TRUE
  /\ generation' = generation + 1
  /\ StopOwnChild
  /\ Service("unavailable", FALSE, FALSE)
  /\ UNCHANGED <<config, starting, recon, poll, booted>>

Exit_OfAnyProcess(pid) ==
  /\ pid \in alive
  /\ alive' = alive \ {pid}
  /\ child' = None
  /\ job' = None
  /\ UNCHANGED <<told, service, config, generation, starting, recon, poll, booted, stopped>>

\* A process ends, asked or not; its exit is only minded while it is the child.
Exit(pid) ==
  /\ pid \in alive
  /\ alive' = alive \ {pid}
  /\ UNCHANGED told
  /\ IF child = pid
     THEN /\ child' = None
          /\ job' = None
          /\ IF owned /\ state = "running"
             THEN Service("degraded", FALSE, conflict) ELSE UNCHANGED service
     ELSE UNCHANGED <<child, job, service>>
  /\ UNCHANGED <<config, generation, starting, recon, poll, booted, stopped>>

StartStep == ProbeEnds \/ NoBinary \/ FindFails \/ Found \/ WaitEnds \/ VerifyEnds

ReconfigStep(r) == Awaited(r) \/ OptedOut(r) \/ OptOutFails(r) \/ Reverified(r)

Next ==
  \/ Boot \/ StartStep \/ Stop
  \/ \E r \in Reconfigs : Reconfigure(r) \/ ReconfigStep(r)
  \/ \E h \in Polls : Poll(h) \/ PollEnds(h)
  \/ \E pid \in Pids : Exit(pid)

\* Probes, searches and checks have timeouts; the removal of a marker is I/O.
Progress(c) == \/ c \in Reconfigs /\ ReconfigStep(c)
               \/ c \in Polls /\ PollEnds(c)

Spec ==
  /\ Init /\ [][Next]_vars
  /\ WF_vars(StartStep)
  /\ \A c \in Reconfigs \cup Polls : WF_vars(Progress(c))

-----------------------------------------------------------------------------

\* Of the processes the controller spawned, the only one that it has not asked
\* to end is the child it knows, so that stop() can reach it; and the open Job
\* Object never holds another process.
NoProcessLeft == alive \ told \subseteq {child} /\ job \in {None, child}

Unfinished(c) ==
  \/ c \in Reconfigs /\ recon[c].at \notin {"new", "done", "failed"}
  \/ c \in Polls /\ poll[c] = "asking"
StartUnfinished == starting # NoStart
=============================================================================
