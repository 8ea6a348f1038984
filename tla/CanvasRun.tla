------------------------------ MODULE CanvasRun ------------------------------
(***************************************************************************)
(* The run of a coordinator and its specialists on the canvas of a project *)
(* (WorkspaceCanvas.tsx and agent-dispatch.ts): a plan by the coordinator, *)
(* one step per specialist in their order, and a last step by the          *)
(* coordinator.  Each step is a task for an agent, and the run moves on    *)
(* when a result of that task is reported.  Meanwhile the user, handoffs   *)
(* and takeovers send tasks too.                                           *)
(*                                                                         *)
(* A terminal may report a task more than once, of the run or not, late or *)
(* not (TaskDelivery).  Tasks are numbered in the order they were sent.    *)
(* taken has the tasks whose results moved the run on.                     *)
(***************************************************************************)
EXTENDS Naturals, Sequences, SequencesExt

CONSTANTS
  Agents,
  Coordinator,
  Plans,         \* sequences of specialists that a run may find on the canvas
  Handoffs,      \* events of the orchestration service that name an agent
  MaxTasks,      \* tasks sent before a new one is asked for
  MaxReports,    \* reports of one task
  MaxChanges,    \* changes of a node, and resets
  None

VARIABLES
  node,          \* per agent: "absent", "unset" (no provider or account) or "ready"
  run,           \* orchestrationRef: None or a run
  progress,      \* agentProgress, per agent
  manual,        \* manualTasksRef
  followed,      \* continuityHandledRef
  tasks,         \* tasks sent: their agent, the run and step or 0, and their reports
  changes,
  taken

canvasVars == <<node, run, progress, manual, followed, tasks, changes, taken>>

Init ==
  /\ node = [a \in Agents |-> "ready"]
  /\ progress = [a \in Agents |-> "none"]
  /\ run = None /\ manual = {} /\ followed = {} /\ tasks = <<>> /\ changes = 0 /\ taken = <<>>

Active == run # None /\ run.phase \notin {"complete", "blocked"}

-----------------------------------------------------------------------------
(* Sending *)

\* dispatchAgentTask: only an agent that is set up gets the task.
Sent(sent, a, r, step) ==
  IF node[a] = "ready" THEN Append(sent, [agent |-> a, run |-> r, step |-> step, reports |-> 0])
  ELSE sent

Shown(shown, a) == [shown EXCEPT ![a] = IF node[a] = "ready" THEN "running" ELSE "blocked"]

\* dispatchOrchestrationTask: the run waits for the task, or is blocked.
Waiting(r, sent) ==
  IF node[r.agent] = "ready" THEN [r EXCEPT !.task = Len(sent) + 1] ELSE [r EXCEPT !.phase = "blocked"]

\* The number of a run is that of its first task.
StartRun(plan) ==
  /\ ~Active /\ Len(tasks) < MaxTasks
  /\ node[Coordinator] # "absent" /\ \A i \in DOMAIN plan : node[plan[i]] # "absent"
  /\ LET id == Len(tasks) + 1
         r == [id |-> id, phase |-> "planning", plan |-> plan, agent |-> Coordinator,
               task |-> None, results |-> <<>>, last |-> None]
     IN /\ run' = Waiting(r, tasks)
        /\ tasks' = Sent(tasks, Coordinator, id, 1)
  /\ progress' = Shown([a \in Agents |-> IF Contains(plan, a) THEN "queued" ELSE "none"], Coordinator)
  /\ taken' = <<>>
  /\ UNCHANGED <<node, manual, followed, changes>>

\* A task that the user sends to an agent that coordinates nothing.
SendAgentTask(a) ==
  /\ ~Active /\ Len(tasks) < MaxTasks
  /\ a # Coordinator /\ node[a] # "absent" /\ progress[a] \notin {"queued", "running"}
  /\ tasks' = Sent(tasks, a, 0, 0)
  /\ manual' = IF node[a] = "ready" THEN manual \cup {a} ELSE manual \ {a}
  /\ progress' = Shown(progress, a)
  /\ UNCHANGED <<node, run, followed, changes, taken>>

\* A handoff is followed once; a takeover is asked for by the user.  Both go to
\* the agent whatever it does.
SendAnyway(a) ==
  /\ node[a] # "absent" /\ Len(tasks) < MaxTasks
  /\ tasks' = Sent(tasks, a, 0, 0)
  /\ progress' = Shown(progress, a)
  /\ UNCHANGED <<node, run, manual, changes, taken>>

FollowHandoff(h, a) == h \notin followed /\ followed' = followed \cup {h} /\ SendAnyway(a)

SurvivorTakeover(a) == SendAnyway(a) /\ UNCHANGED followed

-----------------------------------------------------------------------------
(* Reports *)

Awaited_AnyTask(t) == Active /\ run.agent = tasks[t].agent /\ run.last # t

\* The run waits for this task of this agent, and has not handled its result.
Awaited(t) ==
  /\ Active
  /\ run.agent = tasks[t].agent
  /\ run.task \in {None, t}
  /\ run.last # t

Told(t) == [tasks EXCEPT ![t].reports = @ + 1]

\* A report ends the task that the user sent to the agent, whichever it is.
Ended(a, state) == IF a \in manual THEN [progress EXCEPT ![a] = state] ELSE progress

\* reportAgentTaskFailure, and reportAgentResult with a result that says "blocked".
ReportFailure(t, state) ==
  LET a == tasks[t].agent IN
  /\ tasks[t].reports < MaxReports
  /\ tasks' = Told(t)
  /\ manual' = manual \ {a}
  /\ IF Awaited(t)
     THEN /\ run' = [run EXCEPT !.phase = "blocked", !.last = t]
          /\ progress' = [progress EXCEPT ![a] = "blocked"]
     ELSE UNCHANGED run /\ progress' = Ended(a, state)
  /\ UNCHANGED <<node, followed, changes, taken>>

\* The run after the result of its task t, before the next step is sent.
After(r, t) ==
  LET results == IF r.phase = "specialist" THEN Append(r.results, r.agent) ELSE r.results
      done == [r EXCEPT !.results = results, !.task = None, !.last = t]
  IN IF Len(results) < Len(r.plan)
     THEN [done EXCEPT !.phase = "specialist", !.agent = r.plan[Len(results) + 1]]
     ELSE [done EXCEPT !.phase = "finalizing", !.agent = Coordinator]

ReportResult(t) ==
  LET a == tasks[t].agent
      told == [Ended(a, "completed") EXCEPT ![a] = "completed"]
  IN
  /\ tasks[t].reports < MaxReports
  /\ manual' = manual \ {a}
  /\ \/ /\ ~Awaited(t)
        /\ tasks' = Told(t) /\ progress' = Ended(a, "completed")
        /\ UNCHANGED <<run, taken>>
     \/ /\ Awaited(t) /\ run.phase = "finalizing"
        /\ tasks' = Told(t) /\ progress' = told
        /\ run' = [run EXCEPT !.phase = "complete", !.last = t]
        /\ taken' = Append(taken, t)
     \/ /\ Awaited(t) /\ run.phase # "finalizing"
        /\ LET r == After(run, t) IN
           /\ run' = Waiting(r, tasks)
           /\ tasks' = Sent(Told(t), r.agent, r.id, Len(taken) + 2)
           /\ progress' = Shown(told, r.agent)
        /\ taken' = Append(taken, t)
  /\ UNCHANGED <<node, followed, changes>>

\* A result without the name of a task ends what the user asked of the agent.
ReportUnnamed(a) ==
  /\ a \in manual
  /\ manual' = manual \ {a}
  /\ progress' = [progress EXCEPT ![a] = "completed"]
  /\ UNCHANGED <<node, run, followed, tasks, changes, taken>>

-----------------------------------------------------------------------------
(* The canvas changes *)

\* A node is removed, or its provider or account is taken away or given.
ChangeNode(a, to) ==
  /\ changes < MaxChanges /\ node[a] \notin {"absent", to}
  /\ node' = [node EXCEPT ![a] = to]
  /\ changes' = changes + 1
  /\ UNCHANGED <<run, progress, manual, followed, tasks, taken>>

\* The default executor changes, or the canvas is shown again: the run is forgotten.
Reset(forgotten) ==
  /\ changes < MaxChanges /\ run # None
  /\ run' = None /\ progress' = [a \in Agents |-> "none"] /\ taken' = <<>>
  /\ manual' = manual \ forgotten
  /\ changes' = changes + 1
  /\ UNCHANGED <<node, followed, tasks>>

Next ==
  \/ \E plan \in Plans : StartRun(plan)
  \/ \E a \in Agents :
       \/ SendAgentTask(a) \/ SurvivorTakeover(a) \/ ReportUnnamed(a)
       \/ \E h \in Handoffs : FollowHandoff(h, a)
       \/ \E to \in {"absent", "unset", "ready"} : ChangeNode(a, to)
  \/ \E t \in 1..Len(tasks) :
       ReportResult(t) \/ \E state \in {"blocked", "completed"} : ReportFailure(t, state)
  \/ \E forgotten \in {{}, Agents} : Reset(forgotten)

Spec == Init /\ [][Next]_canvasVars

-----------------------------------------------------------------------------

\* A run moves on by the results of its own tasks only, one result per step and
\* in the order of its plan, whatever late, repeated or foreign reports come in
\* between; it is complete when every specialist's result has been taken.
RunTakesItsTasks ==
  run # None =>
    /\ \A i \in 1..Len(taken) : tasks[taken[i]].run = run.id /\ tasks[taken[i]].step = i
    /\ run.results = SubSeq(run.plan, 1, Len(run.results))
    /\ run.phase = "complete" => run.results = run.plan /\ Len(taken) = Len(run.plan) + 2

\* A run that goes on waits for a task that is out, of its next step, and of
\* which nothing was reported: no result of it was overlooked.
RunWaitsForATask ==
  Active =>
    /\ run.task \in 1..Len(tasks)
    /\ tasks[run.task] =
         [agent |-> run.agent, run |-> run.id, step |-> Len(taken) + 1, reports |-> 0]

\* What counts as sent by the user is out: its agent has not reported on it.
ManualTaskIsOut ==
  \A a \in manual : \E t \in 1..Len(tasks) :
    tasks[t].agent = a /\ tasks[t].run = 0 /\ tasks[t].reports = 0
=============================================================================
