---------------------------- MODULE BridgeService ----------------------------
(***************************************************************************)
(* createBridgeService() of src/main/bridge-service.ts, for one target:    *)
(* the registry and its PTY subscriber, and the handlers of send, ask,     *)
(* wait and run.  Every map of the service is keyed by the target, so that *)
(* targets do not meet; what they share is in TaskCycles.                  *)
(*                                                                         *)
(* A step is one callback.  The calls of a target are queued as            *)
(* SerialQueue says, a cycle is kept as BridgeTaskCycles says, and a turn  *)
(* behaves as TurnContract says: this module has a field for its promise   *)
(* and one for its delivery, and the service's callbacks on both.          *)
(*                                                                         *)
(* Continuations run before the next event.  They run in the order they    *)
(* were queued in: the callbacks that prepareTurn() and trackCycle() put   *)
(* on a promise (React) come before whatever awaits that promise, and a    *)
(* call's settlement comes before the start of the next (Begin).           *)
(***************************************************************************)
EXTENDS Naturals, Sequences, FiniteSets, SequencesExt

CONSTANTS Target, Requests,
          Ops,    \* the operations that requests may ask for
          None

ASSUME OpsAssumption == Ops \subseteq {"send", "ask", "wait", "run"}
ASSUME NoneIsNoRequest == None \notin Requests
ASSUME NoneIsNoEntry ==
  None \notin [generation : Nat, payload : Requests, persistent : BOOLEAN]

C == INSTANCE BridgeTaskCycles WITH Ids <- {Target}, MaxEntries <- 1, Ttl <- 1

VARIABLES
  agent,      \* agents, states, startupChecks, activeTurns, currentTurns of the target
  cycles,     \* the BridgeTaskCycles object
  line,       \* targetLocks: the calls of the target that are not settled, in order
  req,        \* each request and the handler that serves it
  turn,       \* the turn, or the result waiter, that a request armed
  outcomes,   \* the calls of onOutcome; emittedCycles are their keys
  reflected   \* the classes of the outcomes given to onReflection

vars == <<agent, cycles, line, req, turn, outcomes, reflected>>
logs == <<outcomes, reflected>>

Statuses == {"starting", "ready", "busy", "failed", "stopped"}
Failures == {"failed", "startup_failed", "model_failure", "cancelled"}
Settled == {"answered"} \cup Failures

ASSUME NoneIsNoReply == None \notin Settled

Unregistered ==
  [registered |-> FALSE, alive |-> FALSE, status |-> "starting", reason |-> None,
   checking |-> FALSE, active |-> None, current |-> None]

Init ==
  /\ agent = Unregistered
  /\ cycles = C!NewCycles
  /\ line = <<>>
  /\ req = [r \in Requests |-> [op |-> None, pc |-> "idle", generation |-> 0, aborted |-> FALSE,
                                awaits |-> None, reply |-> None]]
  /\ turn = [r \in Requests |-> [promise |-> "none", delivery |-> "none", stopped |-> FALSE,
                                 reacted |-> FALSE]]
  /\ outcomes = <<>> /\ reflected = {}

Generation == C!Generation(cycles, Target)
HasPending == C!HasPending(cycles, Target)
Delegated(r) == req[r].op \in {"send", "ask"}
Outcome(r) == [class |-> turn[r].promise, of |-> r]

------------------------------------------------------------------------------
\* Continuations that are queued.

Unreacted(r) == turn[r].promise \in Settled /\ ~turn[r].reacted
Reacted == \A r \in Requests : ~Unreacted(r)

CanConclude(r) == req[r].pc = "delivering" /\ turn[r].delivery # "running"
Joined(r) == req[r].awaits # r
CanAnswer(r) ==
  /\ req[r].pc = "waiting"
  /\ turn[req[r].awaits].promise \in Settled \/ (Joined(r) /\ req[r].aborted)
CanBegin(r) == req[r].pc = "queued" /\ Head(line) = r

Quiet ==
  \A r \in Requests : ~Unreacted(r) /\ ~CanConclude(r) /\ ~CanAnswer(r) /\ ~CanBegin(r)

------------------------------------------------------------------------------
\* setState(): the state of an agent that is gone is not kept.
SetState(a, status, reason) ==
  IF a.registered
  THEN [a EXCEPT !.status = status, !.reason = reason, !.checking = (status = "starting")]
  ELSE a

\* A promise is settled once.
Settle(t, r, class) ==
  IF r \in Requests /\ t[r].promise = "open" THEN [t EXCEPT ![r].promise = class] ELSE t

PendingPayload == IF HasPending THEN cycles.pending[Target].payload ELSE None

\* cycles.cancelPending(): the handle cancels the promise of the entry.
CancelPending(t) ==
  /\ cycles' = C!CancelPending(cycles, Target)
  /\ turn' = Settle(t, PendingPayload, "cancelled")

\* emitOutcomeOnce(): no cancellation, and once per key.  The bound on
\* emittedCycles, 512 keys, is above what an instance reaches.
Emit(key, outcome) ==
  outcomes' = IF outcome.class = "cancelled" \/ \E o \in Range(outcomes) : o.key = key
              THEN outcomes ELSE Append(outcomes, [key |-> key, outcome |-> outcome])

Reflect(outcome) == reflected' = reflected \cup {outcome.class}

\* The handler's promise settles, and with it the call's place in the line.
Reply(r, reply) ==
  /\ req' = [req EXCEPT ![r].pc = "done", ![r].awaits = None, ![r].reply = reply]
  /\ line' = Tail(line)

------------------------------------------------------------------------------
\* A request arrives: runTargetSerial().  One that resolveTarget() or
\* assertAgentReady() rejects is answered at once and leaves nothing behind.
Ready == agent.registered /\ agent.alive /\ agent.status = "ready"

Arrive(r, op) ==
  /\ Quiet /\ req[r].pc = "idle"
  /\ agent.registered \/ agent.alive
  /\ op \in {"send", "ask"} => Ready
  /\ req' = [req EXCEPT ![r].op = op, ![r].pc = "queued"]
  /\ line' = Append(line, r)
  /\ UNCHANGED <<agent, cycles, turn, logs>>

\* Its turn in the line came.
Begins(r, ops) == Reacted /\ CanBegin(r) /\ ~req[r].aborted /\ req[r].op \in ops

Skip(r) ==
  /\ Reacted /\ CanBegin(r) /\ req[r].aborted
  /\ Reply(r, "error")
  /\ UNCHANGED <<agent, cycles, turn, logs>>

RefuseBusy(r) ==
  /\ Begins(r, {"send", "ask"}) /\ HasPending
  /\ Reply(r, "error")
  /\ UNCHANGED <<agent, cycles, turn, logs>>

\* prepareTurn() throws: the cycle has begun, nothing is armed.
RefuseUnready(r) ==
  /\ Begins(r, {"send", "ask"}) /\ ~HasPending /\ agent.status # "ready"
  /\ cycles' = C!Begin(cycles, Target)
  /\ Reply(r, "error")
  /\ UNCHANGED <<agent, turn, logs>>

Arm(r, begun) ==
  /\ cycles' = IF req[r].op = "send"
               THEN C!SetPending(begun, Target, C!Generation(begun, Target), r, TRUE) ELSE begun
  /\ req' = [req EXCEPT ![r].pc = "delivering", ![r].generation = C!Generation(begun, Target)]
  /\ turn' = [turn EXCEPT ![r].promise = "open", ![r].delivery = "running"]
  /\ agent' = [SetState(agent, "busy", None) EXCEPT !.active = r, !.current = r]
  /\ UNCHANGED <<line, logs>>

StartTurn_KeepsCycle(r) ==
  /\ Begins(r, {"send", "ask"}) /\ ~HasPending /\ agent.status = "ready"
  /\ Arm(r, cycles)

StartTurn_IgnoresPending(r) ==
  /\ Begins(r, {"send", "ask"}) /\ agent.status = "ready"
  /\ Arm(r, C!Begin(cycles, Target))

StartTurn_Unchecked(r) ==
  /\ Begins(r, {"send", "ask"}) /\ ~HasPending
  /\ Arm(r, C!Begin(cycles, Target))

StartTurn(r) ==
  /\ Begins(r, {"send", "ask"}) /\ ~HasPending /\ agent.status = "ready"
  /\ Arm(r, C!Begin(cycles, Target))

Cached == C!CachedOutcome(cycles, Target, 0)

AnswerFromCache(r) ==
  /\ Begins(r, {"wait"})
  /\ \E outcome \in Cached : Reply(r, outcome.class)
  /\ UNCHANGED <<agent, cycles, turn, logs>>

\* A wait joins the cycle that is pending, or arms a waiter of its own.
Join(r) ==
  /\ Begins(r, {"wait"}) /\ Cached = {} /\ C!IsPendingFor(cycles, Target, Generation)
  /\ req' = [req EXCEPT ![r].pc = "waiting", ![r].awaits = PendingPayload]
  /\ cycles' = C!Looked(cycles, Target, 0)
  /\ UNCHANGED <<agent, line, turn, logs>>

ArmWaiter(r) ==
  /\ Begins(r, {"wait"}) /\ Cached = {} /\ ~C!IsPendingFor(cycles, Target, Generation)
  /\ req' = [req EXCEPT ![r].pc = "waiting", ![r].awaits = r, ![r].generation = Generation]
  /\ cycles' = C!SetPending(C!Looked(cycles, Target, 0), Target, Generation, r, FALSE)
  /\ turn' = [turn EXCEPT ![r].promise = "open"]
  /\ UNCHANGED <<agent, line, logs>>

StartRun(r) ==
  /\ Begins(r, {"run"})
  /\ IF agent.registered /\ ~HasPending
     THEN req' = [req EXCEPT ![r].pc = "headless"] /\ UNCHANGED line
     ELSE Reply(r, "error")
  /\ UNCHANGED <<agent, cycles, turn, logs>>

Begin(r) ==
  \/ Skip(r)
  \/ RefuseBusy(r) \/ RefuseUnready(r) \/ StartTurn(r)
  \/ AnswerFromCache(r) \/ Join(r) \/ ArmWaiter(r)
  \/ StartRun(r)

------------------------------------------------------------------------------
\* The callbacks of prepareTurn() and of trackCycle() on a promise.

\* The turn is over: a failure aborts its delivery, and the agent's state follows.
StateAfter(r) ==
  CASE turn[r].promise = "startup_failed" -> SetState(agent, "failed", "startup")
    [] turn[r].promise = "model_failure" -> SetState(agent, "failed", "model")
    [] turn[r].promise = "answered" -> SetState(agent, "ready", None)
    [] OTHER -> SetState(agent, "starting", None)

TurnOver_OnlyAnswers(r) ==
  agent' = IF agent.status = "busy" /\ agent.current = r /\ turn[r].promise = "answered"
           THEN StateAfter(r) ELSE agent

TurnOver(r) ==
  agent' = IF agent.status = "busy" /\ agent.current = r THEN StateAfter(r) ELSE agent

CycleOver_CancellationKeepsEntry(r) ==
  IF turn[r].promise = "cancelled"
  THEN UNCHANGED <<cycles, logs>>
  ELSE /\ cycles' = C!Complete(cycles, Target, req[r].generation, Outcome(r), 0)
       /\ IF req[r].op = "send" THEN Reflect(Outcome(r)) ELSE UNCHANGED reflected
       /\ Emit(<<"cycle", req[r].generation>>, Outcome(r))

CycleOver_SendSilent(r) ==
  IF turn[r].promise = "cancelled"
  THEN cycles' = C!CancelPending(cycles, Target) /\ UNCHANGED logs
  ELSE /\ cycles' = C!Complete(cycles, Target, req[r].generation, Outcome(r), 0)
       /\ UNCHANGED logs

CycleOver(r) ==
  IF turn[r].promise = "cancelled"
  THEN cycles' = C!CancelPending(cycles, Target) /\ UNCHANGED logs
  ELSE /\ cycles' = C!Complete(cycles, Target, req[r].generation, Outcome(r), 0)
       /\ IF req[r].op = "send" THEN Reflect(Outcome(r)) ELSE UNCHANGED reflected
       /\ Emit(<<"cycle", req[r].generation>>, Outcome(r))

React(r) ==
  /\ Unreacted(r)
  /\ turn' = [turn EXCEPT ![r].reacted = TRUE,
                          ![r].stopped = @ \/ (Delegated(r) /\ turn[r].promise \in Failures)]
  /\ IF Delegated(r) THEN TurnOver(r) ELSE UNCHANGED agent
  /\ IF req[r].op = "ask" THEN UNCHANGED <<cycles, logs>> ELSE CycleOver(r)
  /\ UNCHANGED <<line, req>>

------------------------------------------------------------------------------
\* The handlers of send and ask after the delivery.

Delivered(r) == turn[r].delivery = "acked" /\ turn[r].promise \notin Failures

Accept(r) ==
  /\ Reacted /\ CanConclude(r) /\ Delivered(r)
  /\ IF req[r].op = "send" THEN Reply(r, "accepted")
     ELSE req' = [req EXCEPT ![r].pc = "waiting", ![r].awaits = r] /\ UNCHANGED line
  /\ UNCHANGED <<agent, cycles, turn, logs>>

RefusalClass(r) ==
  IF turn[r].delivery = "cancelled" \/ (turn[r].delivery = "threw" /\ req[r].aborted)
  THEN "cancelled" ELSE "failed"

\* The turn failed or nothing was delivered: turn.fail(), then the cycle is cancelled.
Refuse(r) ==
  /\ Reacted /\ CanConclude(r) /\ ~Delivered(r)
  /\ LET over == Settle(turn, r, RefusalClass(r))
     IN IF req[r].op = "send" THEN CancelPending(over) ELSE turn' = over /\ UNCHANGED cycles
  /\ agent' = SetState(agent, "starting", None)
  /\ Reply(r, "error")
  /\ UNCHANGED logs

Conclude(r) == Accept(r) \/ Refuse(r)

\* The handlers of ask and wait after awaitResult().  A wait that joined a cycle
\* leaves it when its signal is aborted.
AnswerOwn_Silent(r) ==
  /\ Reacted /\ CanAnswer(r) /\ ~Joined(r)
  /\ cycles' = IF req[r].aborted THEN cycles
               ELSE C!CacheOutcome(cycles, Target, req[r].generation, Outcome(r), 0)
  /\ Reflect(Outcome(r))
  /\ Reply(r, turn[r].promise)
  /\ UNCHANGED <<agent, turn, outcomes>>

AnswerOwn(r) ==
  /\ Reacted /\ CanAnswer(r) /\ ~Joined(r)
  /\ cycles' = IF req[r].aborted THEN cycles
               ELSE C!CacheOutcome(cycles, Target, req[r].generation, Outcome(r), 0)
  /\ Reflect(Outcome(r))
  /\ IF req[r].op = "ask" THEN Emit(<<"cycle", req[r].generation>>, Outcome(r))
     ELSE UNCHANGED outcomes
  /\ Reply(r, turn[r].promise)
  /\ UNCHANGED <<agent, turn>>

AnswerJoined(r) ==
  /\ Reacted /\ CanAnswer(r) /\ Joined(r)
  /\ LET outcome == IF req[r].aborted THEN [class |-> "cancelled", of |-> r]
                    ELSE Outcome(req[r].awaits)
     IN Reflect(outcome) /\ Reply(r, outcome.class)
  /\ UNCHANGED <<agent, cycles, turn, outcomes>>

Answer(r) == AnswerOwn(r) \/ AnswerJoined(r)

Internal == \E r \in Requests : Begin(r) \/ React(r) \/ Conclude(r) \/ Answer(r)

------------------------------------------------------------------------------
\* What comes from outside, one event at a time.

\* sendInstruction() ends: see TurnContract.
EndDelivery(r, delivery, promise) ==
  /\ Quiet /\ turn[r].delivery = "running"
  /\ CASE delivery = "acked" -> turn[r].promise = "open" /\ ~turn[r].stopped
       [] delivery = "cancelled" -> turn[r].stopped /\ promise = turn[r].promise
       [] delivery = "refused" -> ~turn[r].stopped /\ promise = turn[r].promise
       [] delivery = "threw" -> promise = turn[r].promise
  /\ turn' = [turn EXCEPT ![r].delivery = delivery, ![r].promise = promise]
  /\ UNCHANGED <<agent, cycles, line, req, logs>>

DeliveryEnds(r) ==
  \/ \E promise \in {"open", "answered", "failed"} : EndDelivery(r, "acked", promise)
  \/ \E delivery \in {"cancelled", "refused", "threw"} : EndDelivery(r, delivery, turn[r].promise)

\* runHeadlessTurn() resolves or rejects.
RunEnds(r, class) ==
  /\ Quiet /\ req[r].pc = "headless"
  /\ Reply(r, class)
  /\ IF class = "error" THEN UNCHANGED outcomes
     ELSE Emit(<<"run", r>>, [class |-> class, of |-> r])
  /\ UNCHANGED <<agent, cycles, turn, reflected>>

\* The idle or the overall timer of a turn or waiter.
TurnTimer_OnlyTurns(r) ==
  /\ Quiet /\ turn[r].promise = "open" /\ Delegated(r)
  /\ turn' = Settle(turn, r, "failed")
  /\ UNCHANGED <<agent, cycles, line, req, logs>>

TurnTimer(r) ==
  /\ Quiet /\ turn[r].promise = "open"
  /\ turn' = Settle(turn, r, "failed")
  /\ UNCHANGED <<agent, cycles, line, req, logs>>

\* The client disconnects: linkAbortSignal() while the instruction is delivered,
\* awaitResult() while the result is awaited.
RequestAbort(r) ==
  /\ Quiet /\ req[r].pc \in {"queued", "delivering", "waiting", "headless"} /\ ~req[r].aborted
  /\ req' = [req EXCEPT ![r].aborted = TRUE]
  /\ turn' = CASE req[r].pc = "delivering" -> [turn EXCEPT ![r].stopped = TRUE]
               [] req[r].pc = "waiting" /\ ~Joined(r) -> Settle(turn, r, "cancelled")
               [] OTHER -> turn
  /\ UNCHANGED <<agent, cycles, line, logs>>

\* The registry's PTY subscriber: output of a ready agent starts a new check; a
\* known failure is recognized while the agent starts.
Texts == {"plain", "startup", "model"}

OnData(text) ==
  LET a == IF agent.status = "ready" THEN SetState(agent, "starting", None) ELSE agent
  IN agent' = IF a.registered /\ a.status = "starting" /\ text # "plain"
              THEN SetState(a, "failed", text) ELSE a

\* Output that answers the turn or waiter r, makes it fail, or leaves it.
Listens(r, class) ==
  CASE class \in {"answered", "failed"} -> turn[r].delivery \in {"none", "acked"}
    [] class = "model_failure" -> Delegated(r)

PtyData(text) ==
  /\ Quiet /\ agent.alive
  /\ OnData(text)
  /\ \/ turn' = turn
     \/ \E r \in Requests, class \in {"answered", "failed", "model_failure"} :
          /\ turn[r].promise = "open" /\ Listens(r, class)
          /\ (class = "model_failure") = (text = "model")
          /\ turn' = Settle(turn, r, class)
  /\ UNCHANGED <<cycles, line, req, logs>>

\* An exit and a stop first flush the pending output, in the same callback: they
\* may find continuations queued.  A waiter takes a last line without its end for an
\* answer, as far as it has seen that line.
PtyExit ==
  /\ agent.alive
  /\ agent' = [SetState(agent, "stopped", None) EXCEPT !.alive = FALSE]
  /\ \E told \in SUBSET {r \in Requests : ~Delegated(r)} :
       turn' = [r \in Requests |->
                 IF turn[r].promise # "open" THEN turn[r]
                 ELSE [turn[r] EXCEPT !.promise = IF r \in told THEN "answered" ELSE "failed"]]
  /\ UNCHANGED <<cycles, line, req, logs>>

\* A terminal error; a restart that cannot spawn leaves no terminal.
PtyError ==
  /\ Quiet
  /\ \E reason \in {"startup", "model"}, alive \in {agent.alive, FALSE} :
       agent' = [SetState(agent, "failed", reason) EXCEPT !.alive = alive]
  /\ turn' = [r \in Requests |->
                IF turn[r].promise # "open" THEN turn[r]
                ELSE [turn[r] EXCEPT !.promise = IF Delegated(r) THEN "startup_failed" ELSE "failed"]]
  /\ UNCHANGED <<cycles, line, req, logs>>

\* waitAgentReady() of the current check resolves, as ready or timed out.
ReadinessCheck(timedOut) ==
  /\ Quiet /\ agent.checking
  /\ agent' = IF timedOut THEN SetState(agent, "failed", "startup") ELSE SetState(agent, "ready", None)
  /\ UNCHANGED <<cycles, line, req, turn, logs>>

Launch ==
  /\ Quiet /\ ~agent.alive
  /\ agent' = [agent EXCEPT !.alive = TRUE]
  /\ UNCHANGED <<cycles, line, req, turn, logs>>

\* registerAgent(): activeTurns and the pending cycle stay.
Register ==
  /\ Quiet
  /\ agent' = [agent EXCEPT !.registered = TRUE, !.status = "starting", !.reason = None,
                            !.checking = TRUE, !.current = None]
  /\ UNCHANGED <<cycles, line, req, turn, logs>>

\* stopTerminal() by the user, then cancelTarget() and unregisterAgent().
Stop ==
  /\ agent.registered \/ agent.alive
  /\ CancelPending(IF agent.active = None THEN turn
                   ELSE [Settle(turn, agent.active, "cancelled") EXCEPT ![agent.active].stopped = TRUE])
  /\ agent' = Unregistered
  /\ UNCHANGED <<line, req, logs>>

\* The cached outcome is older than the TTL.
Expire ==
  /\ Quiet /\ cycles.cache # <<>>
  /\ cycles' = [cycles EXCEPT !.cache = <<>>]
  /\ UNCHANGED <<agent, line, req, turn, logs>>

Timers(r) ==
  \/ DeliveryEnds(r)
  \/ \E class \in {"answered", "failed", "error"} : RunEnds(r, class)
  \/ TurnTimer(r)

Next ==
  \/ Internal
  \/ \E r \in Requests : Timers(r) \/ RequestAbort(r) \/ \E op \in Ops : Arrive(r, op)
  \/ \E text \in Texts : PtyData(text)
  \/ PtyExit \/ PtyError \/ Launch
  \/ \E timedOut \in BOOLEAN : ReadinessCheck(timedOut)
  \/ Register \/ Stop \/ Expire

Fairness == WF_vars(Internal) /\ \A r \in Requests : WF_vars(Timers(r))

Spec == Init /\ [][Next]_vars
FairSpec == Spec /\ Fairness
------------------------------------------------------------------------------
Idle == {"idle", "done"}

AgentOK ==
  /\ agent \in [registered : BOOLEAN, alive : BOOLEAN, status : Statuses,
                reason : {None, "startup", "model"}, checking : BOOLEAN,
                active : Requests \cup {None}, current : Requests \cup {None}]
  /\ agent.checking => agent.registered /\ agent.status = "starting"

LineOK ==
  /\ line \in Seq(Requests)
  /\ Range(line) = {r \in Requests : req[r].pc \notin Idle} /\ IsInjective(line)
  /\ \A r \in Requests : req[r].pc \in {"delivering", "waiting", "headless"} => Head(line) = r

TypeOK ==
  /\ AgentOK
  /\ LineOK
  /\ \A r \in Requests : turn[r].promise \in Settled \cup {"none", "open"}

\* One turn at a time listens to the terminal of a target, across requests that
\* overlap, tasks that outlive their request, and re-registrations: no result can
\* be taken for that of another task.
OneOpenTurn ==
  \A q, r \in Requests : turn[q].promise = "open" /\ turn[r].promise = "open" => q = r

\* A pending cycle is one that still has something to wait for, in the current
\* generation: nothing that is over keeps the target refusing tasks.
PendingIsLive ==
  Quiet /\ HasPending =>
    /\ C!IsPendingFor(cycles, Target, Generation)
    /\ turn[PendingPayload].promise = "open"

\* A target is busy exactly while the turn that made it busy is open.
BusyMeansOpenTurn ==
  Quiet /\ agent.current # None =>
    (agent.status = "busy" <=> turn[agent.current].promise = "open")

\* While a task runs, no older result is there to be given as its answer.
NoOldAnswerWhileRunning ==
  \A r \in Requests : turn[r].promise = "open" => Cached = {}

\* A target that was unregistered has no task left that listens to its terminal.
UnregisteredHasNoTask ==
  ~agent.registered => \A r \in Requests : Delegated(r) => turn[r].promise # "open"

\* onOutcome() gets the outcome of every sent task that is over and was not
\* cancelled, and every outcome that an ask answered with; and no outcome twice,
\* whoever else waited for it.
Times(r) == Cardinality({i \in DOMAIN outcomes : outcomes[i].outcome.of = r})
Concluded(r) ==
  IF req[r].op = "ask" THEN req[r].reply \in Settled ELSE turn[r].promise \in Settled

OutcomeRecordedOnce ==
  Quiet => \A r \in Requests :
    /\ Times(r) <= 1
    /\ Delegated(r) /\ Concluded(r) => Times(r) = IF turn[r].promise = "cancelled" THEN 0 ELSE 1

\* docs/agent-bridge.md: a cancellation does not persist as a result, so that no
\* wait is answered with one from the cache.
CancellationIsNotKept ==
  \A e \in Range(cycles.cache) : e.outcome.class # "cancelled"

\* docs/agent-bridge.md: a known model failure is marked as such; the mark stays
\* until the terminal fails again or stops, or the agent is registered anew.
ModelFailureIsMarked ==
  [][agent.reason = "model" /\ agent.current # None /\ agent'.current = agent.current =>
       agent'.status \in {"failed", "stopped"}]_vars

\* Every request that is queued is answered.
EveryRequestIsAnswered ==
  \A r \in Requests : req[r].pc = "queued" ~> req[r].pc = "done"

\* An accepted task ends with a recorded outcome or a cancellation.
AcceptedTaskEnds ==
  \A r \in Requests : req[r].reply = "accepted" ~> Times(r) = 1 \/ turn[r].promise = "cancelled"
==============================================================================
