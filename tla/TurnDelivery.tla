----------------------------- MODULE TurnDelivery -----------------------------
(***************************************************************************)
(* One turn as the bridge service runs it (prepareTurn() and the handlers  *)
(* of send and ask in src/main/bridge-service.ts): the waiter of           *)
(* BridgeTurn is armed, then the instruction of AgentInstruction is        *)
(* delivered under a controller that is aborted by the request's signal,   *)
(* by a turn that fails, and by the terminal being stopped.                *)
(*                                                                         *)
(* Three continuations run before the next event: that of the turn's       *)
(* promise (React), that of the delivery's wait (Proceed) and that of the  *)
(* handler (Conclude).  React is queued when the promise is settled, ahead *)
(* of the other two.                                                       *)
(***************************************************************************)
EXTENDS Naturals, Sequences, SequencesExt

CONSTANTS MaxSubmitAttempts, PasteSettles, None, MaxSessions,
          TextsIn, FramesIn   \* the chunks of output that are considered

VARIABLES
  pc, woke, attempt, settling, aborted, result, session, alive, writes,
  submitted, acknowledged, candidate, sawEcho, sawOutput, sawInvalid, outcome, seen,
  asks,            \* the request is an ask, not a send
  requestAborted,  \* the signal of the request's context
  reacted,         \* prepareTurn()'s callback on the promise has run
  concluded        \* the handler is past the delivery

I == INSTANCE AgentInstruction
T == INSTANCE BridgeTurn

ASSUME DeliveryAssumption == TextsIn \subseteq T!Texts /\ FramesIn \subseteq T!Frames
ASSUME TurnNoneAssumption == None \notin I!Wakes \cup I!Results \cup T!Answers \cup T!Outcomes

instruction == <<pc, woke, attempt, settling, aborted, result, session, alive, writes>>
turn == <<submitted, acknowledged, candidate, sawEcho, sawOutput, sawInvalid, outcome, seen>>
vars == <<instruction, turn, asks, requestAborted, reacted, concluded>>

Init ==
  /\ I!Init /\ T!Init
  /\ asks \in BOOLEAN
  /\ requestAborted = FALSE /\ reacted = FALSE /\ concluded = FALSE

Settled == outcome # None
Failed == Settled /\ outcome \notin {"completed", "blocked"}

\* No continuation is queued.
Quiet == I!Asleep /\ (Settled => reacted) /\ (result # None => concluded)

------------------------------------------------------------------------------
\* void pending.then(...): a turn that failed aborts its delivery.
React_NoAbort ==
  /\ Settled /\ ~reacted
  /\ reacted' = TRUE
  /\ UNCHANGED <<instruction, turn, asks, requestAborted, concluded>>

React ==
  /\ Settled /\ ~reacted
  /\ reacted' = TRUE
  /\ IF Failed /\ ~aborted THEN I!Abort ELSE UNCHANGED instruction
  /\ UNCHANGED <<turn, asks, requestAborted, concluded>>

\* The delivery goes on; onPhase reports submit_sent and acked to the turn.
Proceed ==
  /\ Settled => reacted
  /\ I!Resume(candidate # None)
  /\ IF Len(writes') > Len(writes) /\ Last(writes').what = "enter" THEN T!PhaseSubmitted
     ELSE IF result' = "acked" THEN T!PhaseAcked
     ELSE UNCHANGED turn
  /\ UNCHANGED <<asks, requestAborted, reacted, concluded>>

RefusalCode ==
  IF result = "threw"
  THEN IF requestAborted THEN "CANCELLED" ELSE "INSTRUCTION_DELIVERY_FAILED"
  ELSE result

\* The handler after `await sendInstruction(...)'.
Conclude_LeavesTurn ==
  /\ result # None /\ ~concluded /\ (Settled => reacted)
  /\ concluded' = TRUE
  /\ IF result = "threw" /\ ~Settled THEN T!Fail(RefusalCode) ELSE UNCHANGED turn
  /\ UNCHANGED <<instruction, asks, requestAborted, reacted>>

Conclude ==
  /\ result # None /\ ~concluded /\ (Settled => reacted)
  /\ concluded' = TRUE
  /\ IF result # "acked" /\ ~Settled THEN T!Fail(RefusalCode) ELSE UNCHANGED turn
  /\ UNCHANGED <<instruction, asks, requestAborted, reacted>>

------------------------------------------------------------------------------
bridge == <<asks, requestAborted, reacted, concluded>>

DeliveryTimer == Quiet /\ I!Timers /\ UNCHANGED <<turn, bridge>>

TurnTimer == Quiet /\ ~Settled /\ T!Timeout /\ UNCHANGED <<instruction, bridge>>

\* The subscribers of the PTY's event bus run in one step.
PtyData(text, frame, isAck) ==
  Quiet /\ I!PtyData(isAck) /\ T!OnData(text, frame) /\ UNCHANGED bridge

\* An exit, a stop and a restart first flush the session's pending output, in the
\* same callback: they may find its continuations still queued.
PtyExit == I!PtyExit /\ (IF Settled THEN UNCHANGED turn ELSE T!OnExit) /\ UNCHANGED bridge

PtyError == Quiet /\ I!PtyError /\ (IF Settled THEN UNCHANGED turn ELSE T!OnError) /\ UNCHANGED bridge

PtyRestart == I!PtyStart /\ UNCHANGED <<turn, bridge>>

\* stopTerminal() from the user, then unregisterAgent(): abort, then cancel.
StopTerminal ==
  /\ alive
  /\ alive' = FALSE
  /\ I!SignalAbort
  /\ T!Cancel
  /\ UNCHANGED <<session, pc, attempt, settling, result, writes, bridge>>

\* linkAbortSignal() while the instruction is delivered; then the signal belongs
\* to awaitResult(), which cancels the turn of an ask.
RequestAbort ==
  /\ Quiet /\ ~requestAborted
  /\ requestAborted' = TRUE
  /\ IF ~concluded
     THEN UNCHANGED turn /\ (IF aborted THEN UNCHANGED instruction ELSE I!Abort)
     ELSE UNCHANGED instruction /\ (IF asks /\ result = "acked" THEN T!Cancel ELSE UNCHANGED turn)
  /\ UNCHANGED <<asks, reacted, concluded>>

Internal == React \/ Proceed \/ Conclude

Next ==
  \/ Internal
  \/ DeliveryTimer \/ TurnTimer
  \/ \E text \in TextsIn, frame \in FramesIn, isAck \in BOOLEAN : PtyData(text, frame, isAck)
  \/ PtyExit \/ PtyError \/ PtyRestart \/ StopTerminal
  \/ RequestAbort

Fairness == WF_vars(Internal) /\ WF_vars(DeliveryTimer) /\ WF_vars(TurnTimer)

Spec == Init /\ [][Next]_vars
FairSpec == Spec /\ Fairness
------------------------------------------------------------------------------
TypeOK ==
  /\ I!TypeOK /\ T!TypeOK
  /\ {asks, requestAborted, reacted, concluded} \subseteq BOOLEAN

\* Nothing is typed for a turn that is over: a deadline, an exit or a stop that
\* wins while the delivery waits also stops the delivery.
NothingTypedForADeadTurn == [][Settled => writes' = writes]_vars

\* A delivery that was refused, cancelled or thrown leaves no waiter armed.
NoOrphanTurn == concluded /\ result # "acked" => Settled

promise ==
  CASE outcome = None -> None
    [] outcome \in {"completed", "blocked"} -> "answered"
    [] outcome = "PROVIDER_STARTUP_FAILED" -> "startup_failed"
    [] outcome = "MODEL_FAILURE" -> "model_failure"
    [] outcome = "CANCELLED" -> "cancelled"
    [] OTHER -> "failed"

delivery ==
  CASE result = None -> "running"
    [] result = "acked" -> "acked"
    [] result = "CANCELLED" -> "cancelled"
    [] result = "threw" -> "threw"
    [] OTHER -> "refused"

\* An answer counts only when Enter was pressed and confirmed, comes from a whole
\* frame of this turn, and is never left to the timers (see BridgeTurn).
AnswersAreEarned == T!AnswersAreEarned
NoAnswerLeftWaiting == T!NoAnswerLeftWaiting

\* The code of a turn that ran out of time tells what was seen of it.
DiagnosisIsTrue == T!DiagnosisIsTrue

\* The turn keeps its contract with the service ...
Contract == INSTANCE TurnContract
ContractSpec == Contract!Spec

\* ... and, with its timers, it always ends.
ContractFairSpec == Contract!FairSpec
==============================================================================
