---------------------------- MODULE TaskDelivery ----------------------------
(***************************************************************************)
(* How the tasks of an agent on the canvas reach its terminal, and how its *)
(* results come back (agent-task-delivery.ts, the effect that delivers a   *)
(* task and the listener of the PTY in WorkspaceTerminal.tsx, and          *)
(* queueAgentTask of IntegratedWorkspace.tsx).                             *)
(*                                                                         *)
(* The terminal's component may be unmounted and mounted again at any      *)
(* time; what it awaits goes on without it.  The registry of deliveries    *)
(* and the slot that names the next result live in the module and survive. *)
(* The agent's CLI works in the main process: it prints one result for     *)
(* each task it was given, unless it exits first.                          *)
(***************************************************************************)
EXTENDS Naturals, FiniteSets

CONSTANTS
  Mounts,        \* mounts of the component, numbered from 1
  MaxTasks,
  None

Tasks == 1..MaxTasks

VARIABLES
  codex,         \* the provider is Codex, which answers through the PTY only
  task,          \* agentTasks of the node: a task or None
  newest,        \* the last task that was queued
  mounted,       \* the mount that is on screen, 0 for none
  mounts,        \* mounts so far
  completed,     \* per mount: completedTaskRef
  delivered,     \* per mount: deliveredTaskResultsRef
  failed,        \* per mount: reportedTaskFailuresRef
  deliveries,    \* per task: "none", "in-flight" or "delivered"
  slot,          \* activeResultTasks of the terminal: a task or None
  sending,       \* deliveries under way, as <<mount, task>>
  waiting,       \* effects that await the delivery of another, as <<mount, task>>
  sent,          \* per task: deliveries that succeeded
  owed,          \* tasks the CLI works on
  printed,       \* tasks whose result the CLI printed
  told,          \* tasks of which the canvas got a result or a failure
  unnamed        \* the canvas missed a result that should have had a name

deliveryVars ==
  <<codex, task, newest, mounted, mounts, completed, delivered, failed, deliveries, slot,
    sending, waiting, sent, owed, printed, told, unnamed>>

Init ==
  /\ codex \in BOOLEAN
  /\ task = None /\ newest = 0 /\ mounted = 0 /\ mounts = 0 /\ slot = None
  /\ completed = [m \in Mounts |-> None]
  /\ delivered = [m \in Mounts |-> {}] /\ failed = [m \in Mounts |-> {}]
  /\ deliveries = [t \in Tasks |-> "none"] /\ sent = [t \in Tasks |-> 0]
  /\ sending = {} /\ waiting = {} /\ owed = {} /\ printed = {} /\ told = {}
  /\ unnamed = FALSE

-----------------------------------------------------------------------------
(* The component *)

\* A new task replaces the one that was queued.
QueueAgentTask ==
  /\ newest < MaxTasks
  /\ newest' = newest + 1 /\ task' = newest + 1
  /\ UNCHANGED <<codex, mounted, mounts, completed, delivered, failed, deliveries, slot,
                 sending, waiting, sent, owed, printed, told, unnamed>>

Mount ==
  /\ mounted = 0 /\ mounts + 1 \in Mounts
  /\ mounts' = mounts + 1 /\ mounted' = mounts + 1
  /\ UNCHANGED <<codex, task, newest, completed, delivered, failed, deliveries, slot,
                 sending, waiting, sent, owed, printed, told, unnamed>>

\* The clean-up of the effect: it no longer waits for the delivery of another.
Left(m) == {w \in waiting : w[1] # m}

Unmount ==
  /\ mounted # 0
  /\ waiting' = Left(mounted)
  /\ mounted' = 0
  /\ UNCHANGED <<codex, task, newest, mounts, completed, delivered, failed, deliveries, slot,
                 sending, sent, owed, printed, told, unnamed>>

ClaimDelivery_Always(m, t) ==
  /\ sending' = sending \cup {<<m, t>>}
  /\ waiting' = Left(m)
  /\ deliveries' = [deliveries EXCEPT ![t] = "in-flight"]

\* claimAgentTaskDelivery, and what its caller does: send, or wait for who does.
ClaimDelivery(m, t) ==
  IF deliveries[t] = "none"
  THEN /\ deliveries' = [deliveries EXCEPT ![t] = "in-flight"]
       /\ sending' = sending \cup {<<m, t>>}
       /\ waiting' = Left(m)
  ELSE waiting' = Left(m) \cup {<<m, t>>} /\ UNCHANGED <<deliveries, sending>>

\* The effect of the component runs: for a new task, or again for the same one
\* when another of its dependencies changed.
Effect ==
  LET m == mounted t == task IN
  /\ m # 0
  /\ IF t = None \/ completed[m] = t
     THEN waiting' = Left(m) /\ UNCHANGED <<completed, deliveries, slot, sending>>
     ELSE /\ slot' = t
          /\ IF deliveries[t] = "delivered"
             THEN /\ completed' = [completed EXCEPT ![m] = t]
                  /\ waiting' = Left(m) /\ UNCHANGED <<deliveries, sending>>
             ELSE ClaimDelivery(m, t) /\ UNCHANGED completed
  /\ UNCHANGED <<codex, task, newest, mounted, mounts, delivered, failed, sent, owed, printed,
                 told, unnamed>>

\* The delivery that an effect waited for has ended: it is done, or takes over.
Resume(m, t) ==
  /\ <<m, t>> \in waiting /\ deliveries[t] # "in-flight"
  /\ IF deliveries[t] = "delivered"
     THEN /\ completed' = [completed EXCEPT ![m] = t]
          /\ waiting' = waiting \ {<<m, t>>} /\ UNCHANGED <<deliveries, sending>>
     ELSE ClaimDelivery(m, t) /\ UNCHANGED completed
  /\ UNCHANGED <<codex, task, newest, mounted, mounts, delivered, failed, slot, sent, owed,
                 printed, told, unnamed>>

-----------------------------------------------------------------------------
(* What the canvas is told *)

Cleared(s, t) == IF s = t THEN None ELSE s

\* A result of t through mount m; the task leaves the queue of the node.
Tell(t) == told' = told \cup {t} /\ task' = Cleared(task, t)

\* deliverTaskResult, once per mount and task.
DeliverResult(m, t) ==
  IF t \in delivered[m] THEN UNCHANGED <<delivered, told, task>>
  ELSE delivered' = [delivered EXCEPT ![m] = @ \cup {t}] /\ Tell(t)

\* reportTaskFailure, once per mount and task.
ReportFailure(m, t) ==
  IF t \in failed[m] THEN UNCHANGED <<failed, slot, told, task>>
  ELSE failed' = [failed EXCEPT ![m] = @ \cup {t}] /\ slot' = Cleared(slot, t) /\ Tell(t)

Settle(t, ok) ==
  /\ deliveries' = IF deliveries[t] # "in-flight" THEN deliveries
                   ELSE [deliveries EXCEPT ![t] = IF ok THEN "delivered" ELSE "none"]
  /\ sent' = IF ok THEN [sent EXCEPT ![t] = @ + 1] ELSE sent

-----------------------------------------------------------------------------
(* Deliveries *)

\* The main process types the task; it may do so and still report a failure.
Typed(m, t) ==
  /\ <<m, t>> \in sending /\ t \notin owed \cup printed
  /\ owed' = owed \cup {t}
  /\ UNCHANGED <<codex, task, newest, mounted, mounts, completed, delivered, failed,
                 deliveries, slot, sending, waiting, sent, printed, told, unnamed>>

SendFails(m, t) ==
  /\ <<m, t>> \in sending
  /\ sending' = sending \ {<<m, t>>}
  /\ Settle(t, FALSE)
  /\ ReportFailure(m, t)
  /\ UNCHANGED <<codex, newest, mounted, mounts, completed, delivered, waiting, owed,
                 printed, unnamed>>

\* The turn ends with the result the CLI printed.
TurnEnds(m, t) ==
  /\ ~codex /\ <<m, t>> \in sending /\ t \in printed
  /\ sending' = sending \ {<<m, t>>}
  /\ DeliverResult(m, t)
  /\ slot' = Cleared(slot, t)
  /\ completed' = [completed EXCEPT ![m] = t]
  /\ Settle(t, TRUE)
  /\ UNCHANGED <<codex, newest, mounted, mounts, failed, waiting, owed, printed, unnamed>>

Accepted_ClearsSlot(m, t) ==
  /\ <<m, t>> \in sending /\ t \in owed \cup printed
  /\ sending' = sending \ {<<m, t>>}
  /\ slot' = Cleared(slot, t)
  /\ completed' = [completed EXCEPT ![m] = t]
  /\ Settle(t, TRUE)
  /\ UNCHANGED <<codex, task, newest, mounted, mounts, delivered, failed, waiting, owed,
                 printed, told, unnamed>>

\* The instruction was accepted, or the turn ends without a result: the result
\* is still to come from the PTY, and the slot must name it.
Accepted(m, t) ==
  /\ <<m, t>> \in sending /\ t \in owed \cup printed
  /\ sending' = sending \ {<<m, t>>}
  /\ slot' = IF ~codex /\ t \in delivered[m] THEN Cleared(slot, t) ELSE slot
  /\ completed' = [completed EXCEPT ![m] = t]
  /\ Settle(t, TRUE)
  /\ UNCHANGED <<codex, task, newest, mounted, mounts, delivered, failed, waiting, owed,
                 printed, told, unnamed>>

-----------------------------------------------------------------------------
(* The PTY *)

\* The result of task t, which the listener gives to the task in the slot.  A
\* result that says "failed" is reported as a failure.
Marker(t, ok) ==
  LET m == mounted s == slot IN
  /\ t \in owed
  /\ owed' = owed \ {t} /\ printed' = printed \cup {t}
  /\ IF m = 0 THEN UNCHANGED <<slot, delivered, failed, told, task, unnamed>>
     ELSE /\ slot' = None
          /\ unnamed' = (unnamed \/ (s = None /\ t = newest /\ t \notin told))
          /\ IF s = None \/ s \in delivered[m] THEN UNCHANGED <<delivered, failed, told, task>>
             ELSE /\ delivered' = [delivered EXCEPT ![m] = @ \cup {s}]
                  /\ failed' = IF ok THEN failed ELSE [failed EXCEPT ![m] = @ \cup {s}]
                  /\ IF ok \/ s \notin failed[m] THEN Tell(s) ELSE UNCHANGED <<told, task>>
  /\ UNCHANGED <<codex, newest, mounted, mounts, completed, deliveries, sending, waiting, sent>>

\* The CLI exits, or its terminal fails; a task in the slot has no answer to expect.
Exit ==
  /\ owed' = {}
  /\ IF mounted # 0 /\ slot # None THEN ReportFailure(mounted, slot)
     ELSE UNCHANGED <<failed, slot, told, task>>
  /\ UNCHANGED <<codex, newest, mounted, mounts, completed, delivered, deliveries, sending,
                 waiting, sent, printed, unnamed>>

Next ==
  \/ QueueAgentTask \/ Mount \/ Unmount \/ Effect \/ Exit
  \/ \E t \in Tasks :
       \/ \E ok \in BOOLEAN : Marker(t, ok)
       \/ \E m \in Mounts :
            Resume(m, t) \/ Typed(m, t) \/ SendFails(m, t) \/ TurnEnds(m, t) \/ Accepted(m, t)

Spec == Init /\ [][Next]_deliveryVars

\* A call of the main process ends (it has timeouts), and those who wait for it go on.
Progress(t) == \E m \in Mounts : Resume(m, t) \/ SendFails(m, t) \/ TurnEnds(m, t) \/ Accepted(m, t)

Unfinished(t) == \E m \in Mounts : <<m, t>> \in sending \cup waiting

-----------------------------------------------------------------------------

\* Whoever is mounted while a task is delivered, it is sent by one at a time, and
\* not again once a delivery of it succeeded.
TaskIsSentOnce ==
  \A t \in Tasks :
    /\ sent[t] <= 1
    /\ Cardinality({m \in Mounts : <<m, t>> \in sending}) + sent[t] <= 1

\* A result that is printed while the component is on screen carries the name of
\* its task, also if the component was mounted after the task was sent: unless a
\* newer task was queued, or the canvas had been told of this one before.
ResultHasItsTask == ~unnamed
=============================================================================
