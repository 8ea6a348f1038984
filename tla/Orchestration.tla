---------------------------- MODULE Orchestration ----------------------------
(***************************************************************************)
(* orchestration-service.ts with its store and its handlers: the           *)
(* continuity state of the bound project, kept in memory (cache) and in    *)
(* .devorbit/orchestration.json of the project.                            *)
(*                                                                         *)
(* A handler binds its project, which reads the file outside the queue,    *)
(* and then submits its operation; operations run one at a time            *)
(* (runExclusive): load, mutate, write, and then remember and announce.    *)
(* The path a file is read from is taken when the read starts, and the     *)
(* path a state is written to when the write starts.                       *)
(*                                                                         *)
(* A state in memory or on disk is a pair: plan, the state of the engine,  *)
(* and by, a history of the calls whose effects it holds.                  *)
(***************************************************************************)
EXTENDS Continuity

CONSTANTS
  Projects,      \* paths of projects
  Calls,         \* calls of handlers, each made once
  OpOf,          \* the operation of a call: [Calls -> a record with a kind]
  ProjectOf,     \* the project of a call, None if it binds none (usage reports)
  Saved,         \* what the files hold before: [Projects -> a plan]
  LastInstant    \* bound on the clock

VARIABLES
  projectPath,   \* the bound project, or None
  cache,         \* its state as last read or written, or None
  file,          \* the file of each project
  queue,         \* operations, the running one first
  job,           \* the running operation's step, state and path
  call,          \* per call: its step, and what its bind has read
  clock,
  ended          \* a stop or a crash happens at most once

vars == <<projectPath, cache, file, queue, job, call, clock, ended>>

Idle == [at |-> "idle"]

Nothing == [plan |-> Empty, by |-> {}]

Init ==
  /\ projectPath = None
  /\ cache = None
  /\ file = [p \in Projects |-> [plan |-> Saved[p], by |-> {}]]
  /\ queue = <<>>
  /\ job = Idle
  /\ call = [c \in Calls |-> [at |-> "new"]]
  /\ clock = 0
  /\ ended = FALSE

At(c, step) == call[c].at = step

\* What a read of the file of `p' may give: any failure is an empty state.
Readable(p) == {file[p], Nothing}

-----------------------------------------------------------------------------
(* bindProject, and the submission of the operation. *)

BindProject(c) ==
  /\ At(c, "new")
  /\ ProjectOf[c] # None
  /\ projectPath' = ProjectOf[c]
  /\ cache' = None
  /\ call' = [call EXCEPT ![c] = [at |-> "reading"]]
  /\ UNCHANGED <<file, queue, job, clock, ended>>

\* The store reads the file of the project that was bound when the read began.
ReadFile(c) ==
  /\ At(c, "reading")
  /\ \E state \in Readable(ProjectOf[c]) :
       call' = [call EXCEPT ![c] = [at |-> "read", seen |-> state]]
  /\ UNCHANGED <<projectPath, cache, file, queue, job, clock, ended>>

\* The end of a read sets the cache, whoever is bound by then.
Submit(c) ==
  /\ \/ At(c, "read") /\ cache' = call[c].seen
     \/ At(c, "new") /\ ProjectOf[c] = None /\ UNCHANGED cache
  /\ IF projectPath = None
     THEN call' = [call EXCEPT ![c] = [at |-> "refused"]] /\ UNCHANGED queue
     ELSE /\ call' = [call EXCEPT ![c] = [at |-> "queued"]]
          /\ queue' = Append(queue, c)
  /\ UNCHANGED <<projectPath, file, job, clock, ended>>

-----------------------------------------------------------------------------
(* The operations, as changes of a plan. *)

Mutate(op, plan) ==
  CASE op.kind = "setEnabled"        -> SetEnabled(plan, op.on)
    [] op.kind = "upsertSeat"        -> UpsertSeat(plan, op.seat, op.role)
    [] op.kind = "removeSeat"        -> RemoveSeat(plan, op.seat)
    [] op.kind = "assignRole"        -> AssignRole(plan, op.role, op.seat)
    [] op.kind = "reportQuota"       -> UpdateQuota(plan, op.seat, op.spent)
    [] op.kind = "reportSeatFailure" -> ReportSeatFailure(plan, op.seat, clock)
    [] op.kind = "reportSeatSuccess" -> ReportSeatSuccess(plan, op.seat)
    [] op.kind = "turnDone"          ->
         ReportSeatSuccess(AssignRole(plan, op.role, op.seat), op.seat)
    [] op.kind = "turnFailed"        ->
         UpdateQuota(ReportSeatFailure(AssignRole(plan, op.role, op.seat),
                                       op.seat, clock),
                     op.seat, TRUE)
    [] op.kind = "reportCodexUsage"  ->
         [plan EXCEPT !.seats =
            [s \in DOMAIN @ |-> IF s \in op.used
                                THEN [@[s] EXCEPT !.spent = op.spent] ELSE @[s]],
                      !.logged = @ + Cardinality(op.used \cap DOMAIN plan.seats)]

\* A role given by a turn is assigned only if the seat exists: AssignRole
\* ignores an unknown seat.

WantsHandoff(op) ==
  op.kind = "turnFailed" \/ (op.kind = "reportQuota" /\ op.spent)

Finish(answer) ==
  /\ call' = [call EXCEPT ![Head(queue)] = [at |-> answer]]
  /\ queue' = Tail(queue)
  /\ job' = Idle

\* The first half of persist: the path is read now.
Persist(state, phase) ==
  job' = [at |-> "write", to |-> projectPath, state |-> state, phase |-> phase]

\* The second half: remember, announce, and plan a handoff if one is due.  With
\* no project bound any more there is nothing to wait for.  Which providers are ready
\* is asked when the handoff is planned.
Remember(state, phase) ==
  LET op == OpOf[Head(queue)] IN
  IF phase = 1 /\ WantsHandoff(op) /\ state.plan.enabled
  THEN \E ready \in SUBSET Seats : \E h \in PlanHandoff(state.plan, op.seat, clock, ready) :
         LET next == [state EXCEPT !.plan = h.state] IN
         IF projectPath = None THEN cache' = next /\ Finish("answered")
         ELSE cache' = state /\ Persist(next, 2) /\ UNCHANGED <<call, queue>>
  ELSE cache' = state /\ Finish("answered")

Apply(state) ==
  LET c == Head(queue) IN
  [plan |-> Mutate(OpOf[c], state.plan), by |-> state.by \cup {c}]

\* load(): no project, the cache, or the file.
Start ==
  /\ queue # <<>>
  /\ job = Idle
  /\ IF projectPath = None THEN Finish("refused")
     ELSE /\ IF cache # None THEN Persist(Apply(cache), 1)
             ELSE job' = [at |-> "load", from |-> projectPath]
          /\ UNCHANGED <<call, queue>>
  /\ UNCHANGED <<projectPath, cache, file, clock, ended>>

Load ==
  /\ job.at = "load"
  /\ \E state \in Readable(job.from) : job' = [at |-> "loaded", state |-> state]
  /\ UNCHANGED <<projectPath, cache, file, queue, call, clock, ended>>

Loaded ==
  /\ job.at = "loaded"
  /\ IF projectPath = None THEN Remember(Apply(job.state), 1)
     ELSE /\ cache' = job.state
          /\ Persist(Apply(job.state), 1)
          /\ UNCHANGED <<queue, call>>
  /\ UNCHANGED <<projectPath, file, clock, ended>>

\* The temporary file becomes the file of the project.
Write ==
  /\ job.at = "write"
  /\ job' = [job EXCEPT !.at = "written"]
  /\ file' = [file EXCEPT ![job.to] = job.state]
  /\ UNCHANGED <<projectPath, cache, queue, call, clock, ended>>

WriteFails_Swallowed ==
  /\ job.at = "write"
  /\ job' = [job EXCEPT !.at = "written"]
  /\ UNCHANGED <<projectPath, cache, file, queue, call, clock, ended>>

WriteFails_BreaksTheChain ==
  /\ job.at = "write"
  /\ job' = [at |-> "failed"]
  /\ UNCHANGED <<projectPath, cache, file, queue, call, clock, ended>>

\* A write that fails rejects the call and leaves the cache alone.
WriteFails ==
  /\ job.at = "write"
  /\ Finish("failed")
  /\ UNCHANGED <<projectPath, cache, file, clock, ended>>

Written ==
  /\ job.at = "written"
  /\ Remember(job.state, job.phase)
  /\ UNCHANGED <<projectPath, file, clock, ended>>

-----------------------------------------------------------------------------

\* stop(), when the application quits.
Stop ==
  /\ projectPath # None
  /\ ~ended
  /\ projectPath' = None
  /\ cache' = None
  /\ ended' = TRUE
  /\ UNCHANGED <<file, queue, job, call, clock>>

\* The process dies and starts again: files are left as they are.
Crash ==
  /\ ~ended
  /\ ended' = TRUE
  /\ projectPath' = None
  /\ cache' = None
  /\ queue' = <<>>
  /\ job' = Idle
  /\ call' = [c \in Calls |->
                IF call[c].at \in {"reading", "read", "queued"}
                THEN [at |-> "lost"] ELSE call[c]]
  /\ UNCHANGED <<file, clock>>

Tick ==
  /\ clock < LastInstant
  /\ clock' = clock + 1
  /\ UNCHANGED <<projectPath, cache, file, queue, job, call, ended>>

Next ==
  \/ \E c \in Calls : BindProject(c) \/ ReadFile(c) \/ Submit(c)
  \/ Start \/ Load \/ Loaded \/ Write \/ WriteFails \/ Written
  \/ Stop \/ Crash \/ Tick

\* Reads and writes of files come to an end.
Progress(c) == ReadFile(c) \/ (At(c, "read") /\ Submit(c))
QueueProgress == Start \/ Load \/ Loaded \/ Write \/ Written

Spec ==
  /\ Init /\ [][Next]_vars
  /\ \A c \in Calls : WF_vars(Progress(c))
  /\ WF_vars(QueueProgress)

-----------------------------------------------------------------------------

Unfinished(c) == call[c].at \in {"reading", "read", "queued"}

Held ==
  {file[p] : p \in Projects} \cup ({cache} \ {None})
    \cup (IF job.at \in {"loaded", "write", "written"} THEN {job.state} ELSE {})

\* A role is held by a seat that exists, in memory and on disk, through every
\* order of removals, assignments and handoffs.
NoDanglingRole ==
  \A state \in Held : \A r \in Roles :
    state.plan.roles[r] \in DOMAIN state.plan.seats \cup {None}

\* The handoffs of a role keep to the cooldown, and to the limit per hour as far as the
\* events reach: those that EventLimit events of any type have pushed out of the
\* list are counted no more.
HandoffsSpaced ==
  \A state \in Held : \A r \in Roles :
    LET done == state.plan.handoffs[r] IN
    \A i, j \in DOMAIN done :
      /\ i < j => done[j].at >= done[i].at + Cooldown
      /\ j - i >= MaxPerHour /\ done[j].nr - done[i].nr < EventLimit =>
           done[j].at > done[i].at + Hour

\* A call is answered with success, and its events announced, only when its
\* effect is in the file of a project (or no project was bound to write to).
AnswersSaved ==
  \A c \in Calls :
    call[c].at # "answered" /\ call'[c].at = "answered" =>
      projectPath = None \/ (job.at = "written" /\ c \in file[job.to].by)

AnsweredIsSaved == [][AnswersSaved]_vars
=============================================================================
