--------------------------- MODULE AgentInstruction ---------------------------
(***************************************************************************)
(* One call of sendAgentInstruction() (src/main/agent-instruction.ts), with*)
(* the gate that src/main/index.ts puts before it, and the PTY session it  *)
(* writes to (src/main/terminal-session.ts).                               *)
(*                                                                         *)
(* The function is an async function with four places where it waits       *)
(* (`pc').  What ends a wait is recorded in `woke'; the code from there to *)
(* the next wait is the action Resume..., one step.  The continuation of a *)
(* wait that ended runs before the next timer or PTY event: Asleep guards  *)
(* the environment's actions.                                              *)
(*                                                                         *)
(* A restart of the terminal replaces its session under the same id and    *)
(* emits no event; a stop emits none either.                               *)
(***************************************************************************)
EXTENDS Naturals, Sequences, FiniteSets

CONSTANTS MaxSubmitAttempts,  \* maxSubmitAttempts
          PasteSettles,       \* the provider's hints ask for a pasteSettleMs
          None,
          MaxSessions         \* bound on the PTY sessions of the terminal

ASSUME InstructionAssumption ==
  /\ MaxSubmitAttempts \in Nat \ {0}
  /\ PasteSettles \in BOOLEAN
  /\ MaxSessions \in Nat \ {0}

VARIABLES pc,        \* gate, waiting_ready, pasting, awaiting_ack or done
          woke,      \* how the wait ended, None while it lasts
          attempt,   \* currentAttempt
          settling,  \* ~acceptingData: the echo of Enter is still ignored
          aborted,   \* the input's signal
          result,    \* the result's code, "acked", or "threw"
          session,   \* the PTY session of the terminal, counted from 1
          alive,     \* sessions.has(id)
          writes     \* what was written to the PTY, and to which session

vars == <<pc, woke, attempt, settling, aborted, result, session, alive, writes>>
pty == <<session, alive>>

Waits == {"gate", "waiting_ready", "pasting", "awaiting_ack"}
Wakes == {"passed", "ready", "timeout", "acked", "TERMINAL_EXITED",
          "PROVIDER_STARTUP_FAILED", "aborted", "threw"}
Failures == {"CANCELLED", "AGENT_NOT_READY", "INSTRUCTION_DELIVERY_FAILED",
             "INSTRUCTION_ACK_TIMEOUT", "TERMINAL_EXITED", "PROVIDER_STARTUP_FAILED"}
Results == Failures \cup {"acked", "threw"}

ASSUME NoneAssumption == None \notin Wakes \cup Results

Init ==
  /\ pc = "gate" /\ woke = None /\ attempt = 0 /\ settling = FALSE
  /\ aborted = FALSE /\ result = None
  /\ session = 1 /\ alive = TRUE /\ writes = <<>>

Asleep == woke = None

------------------------------------------------------------------------------
\* What ends a wait.

Wake(place, outcome) ==
  /\ pc = place /\ woke = None
  /\ woke' = outcome
  /\ UNCHANGED <<pc, attempt, settling, aborted, result, pty, writes>>

\* codexBridgeHealth.waitConnected(): not abortable, bounded by its own timer.
Gate_NoTimer == alive /\ Wake("gate", "passed")

Gate == Wake("gate", "passed") \/ Wake("gate", "threw")

\* terminalReadiness.waitReady() reports quiet output or its timeout.
Readiness ==
  \E place \in {"waiting_ready", "pasting"} : Wake(place, "ready") \/ Wake(place, "timeout")

EchoSettled ==
  /\ pc = "awaiting_ack" /\ woke = None /\ settling
  /\ settling' = FALSE
  /\ UNCHANGED <<pc, woke, attempt, aborted, result, pty, writes>>

AckTimeout == ~settling /\ Wake("awaiting_ack", "timeout")

\* Output of the terminal.  With ackPatterns, only some output is an ack.
PtyData(isAck) ==
  /\ alive
  /\ woke' = IF pc = "awaiting_ack" /\ woke = None /\ ~settling /\ isAck THEN "acked" ELSE woke
  /\ UNCHANGED <<pc, attempt, settling, aborted, result, pty, writes>>

\* exit and error events: the ready waiter takes them for quiet.
Fatal(event) ==
  woke' = IF woke # None THEN woke
          ELSE CASE pc \in {"waiting_ready", "pasting"} -> "ready"
                 [] pc = "awaiting_ack" -> event
                 [] OTHER -> woke

PtyExit ==
  /\ alive
  /\ alive' = FALSE
  /\ Fatal("TERMINAL_EXITED")
  /\ UNCHANGED <<pc, attempt, settling, aborted, result, session, writes>>

\* A failed spawn, or a process tree that could not be killed.
PtyError ==
  /\ ~alive
  /\ Fatal("PROVIDER_STARTUP_FAILED")
  /\ UNCHANGED <<pc, attempt, settling, aborted, result, pty, writes>>

PtyStop ==
  /\ alive
  /\ alive' = FALSE
  /\ UNCHANGED <<pc, woke, attempt, settling, aborted, result, session, writes>>

PtyStart ==
  /\ session < MaxSessions
  /\ session' = session + 1 /\ alive' = TRUE
  /\ UNCHANGED <<pc, woke, attempt, settling, aborted, result, writes>>

\* abortable(): the listener rejects the wait at once; the gate has none.
SignalAbort_WaitsForTimer == aborted' = TRUE /\ woke' = woke

SignalAbort ==
  /\ aborted' = TRUE
  /\ woke' = IF pc \in Waits \ {"gate"} /\ woke = None THEN "aborted" ELSE woke

Abort ==
  /\ ~aborted
  /\ SignalAbort
  /\ UNCHANGED <<pc, attempt, settling, result, pty, writes>>

------------------------------------------------------------------------------
\* The code between two waits.

End(r) ==
  /\ pc' = "done" /\ woke' = None /\ result' = r /\ settling' = FALSE
  /\ UNCHANGED <<aborted, pty>>

WaitAt(place) ==
  /\ pc' = place /\ woke' = None /\ settling' = (place = "awaiting_ack")
  /\ UNCHANGED <<aborted, result, pty>>

\* throwIfAborted(), then the write of Enter and the wait for its ack.
Submit(k, log) ==
  /\ attempt' = k
  /\ IF alive
     THEN /\ writes' = Append(log, [what |-> "enter", to |-> session])
          /\ WaitAt("awaiting_ack")
     ELSE writes' = log /\ End("INSTRUCTION_DELIVERY_FAILED")

Written == Append(writes, [what |-> "content", to |-> session])

ResumeCancelled ==
  /\ pc \in Waits /\ woke \notin {None, "threw"} /\ aborted
  /\ End("CANCELLED")
  /\ UNCHANGED <<attempt, writes>>

ResumeGate ==
  /\ pc = "gate" /\ woke # None
  /\ \/ woke = "threw" /\ End("threw")
     \/ woke = "passed" /\ ~aborted /\ (IF alive THEN WaitAt("waiting_ready") ELSE End("AGENT_NOT_READY"))
  /\ UNCHANGED <<attempt, writes>>

ResumeReady ==
  /\ pc = "waiting_ready" /\ woke # None /\ ~aborted
  /\ IF woke = "timeout" THEN End("AGENT_NOT_READY") /\ UNCHANGED <<attempt, writes>>
     ELSE IF ~alive THEN End("INSTRUCTION_DELIVERY_FAILED") /\ attempt' = 1 /\ UNCHANGED writes
     ELSE IF PasteSettles
     THEN writes' = Written /\ attempt' = 1 /\ WaitAt("pasting")
     ELSE Submit(1, Written)

ResumePasted ==
  /\ pc = "pasting" /\ woke # None /\ ~aborted
  /\ IF woke = "timeout" THEN End("AGENT_NOT_READY") /\ UNCHANGED <<attempt, writes>>
     ELSE Submit(attempt, writes)

\* resultReady is isResultReady() of the turn.
ResumeAck_RetriesContent(resultReady) ==
  /\ pc = "awaiting_ack" /\ woke # None /\ ~aborted
  /\ IF woke \in Failures THEN End(woke) /\ UNCHANGED <<attempt, writes>>
     ELSE IF woke = "acked" \/ resultReady THEN End("acked") /\ UNCHANGED <<attempt, writes>>
     ELSE IF attempt < MaxSubmitAttempts THEN Submit(attempt + 1, Written)
     ELSE End("INSTRUCTION_ACK_TIMEOUT") /\ UNCHANGED <<attempt, writes>>

ResumeAck_OneShort(resultReady) ==
  /\ pc = "awaiting_ack" /\ woke # None /\ ~aborted
  /\ IF woke \in Failures THEN End(woke) /\ UNCHANGED <<attempt, writes>>
     ELSE IF woke = "acked" \/ resultReady THEN End("acked") /\ UNCHANGED <<attempt, writes>>
     ELSE IF attempt + 1 < MaxSubmitAttempts THEN Submit(attempt + 1, writes)
     ELSE End("INSTRUCTION_ACK_TIMEOUT") /\ UNCHANGED <<attempt, writes>>

ResumeAck_IgnoresSignal(resultReady) ==
  /\ pc = "awaiting_ack" /\ woke # None
  /\ IF woke \in Failures THEN End(woke) /\ UNCHANGED <<attempt, writes>>
     ELSE IF woke = "acked" \/ resultReady THEN End("acked") /\ UNCHANGED <<attempt, writes>>
     ELSE IF attempt < MaxSubmitAttempts THEN Submit(attempt + 1, writes)
     ELSE End("INSTRUCTION_ACK_TIMEOUT") /\ UNCHANGED <<attempt, writes>>

ResumeAck(resultReady) ==
  /\ pc = "awaiting_ack" /\ woke # None /\ ~aborted
  /\ IF woke \in Failures THEN End(woke) /\ UNCHANGED <<attempt, writes>>
     ELSE IF woke = "acked" \/ resultReady THEN End("acked") /\ UNCHANGED <<attempt, writes>>
     ELSE IF attempt < MaxSubmitAttempts THEN Submit(attempt + 1, writes)
     ELSE End("INSTRUCTION_ACK_TIMEOUT") /\ UNCHANGED <<attempt, writes>>

Resume(resultReady) ==
  ResumeCancelled \/ ResumeGate \/ ResumeReady \/ ResumePasted \/ ResumeAck(resultReady)

\* An exit, a stop and a restart first flush the session's pending output, in
\* the same callback: the continuation of that output may still be queued.
SessionChange == PtyExit \/ PtyStop \/ PtyStart

Output == \E isAck \in BOOLEAN : PtyData(isAck)

Timers == Gate \/ Readiness \/ EchoSettled \/ AckTimeout

Next ==
  \/ \E resultReady \in BOOLEAN : Resume(resultReady)
  \/ Asleep /\ (Timers \/ Abort \/ Output \/ PtyError)
  \/ SessionChange

\* Continuations run; every wait has a timer.
Fairness == WF_vars(\E resultReady \in BOOLEAN : Resume(resultReady)) /\ WF_vars(Asleep /\ Timers)

Spec == Init /\ [][Next]_vars
FairSpec == Spec /\ Fairness
------------------------------------------------------------------------------
Enters == {i \in DOMAIN writes : writes[i].what = "enter"}

TypeOK ==
  /\ pc \in Waits \cup {"done"}
  /\ woke \in Wakes \cup {None}
  /\ attempt \in 0..MaxSubmitAttempts
  /\ settling \in BOOLEAN /\ aborted \in BOOLEAN /\ alive \in BOOLEAN
  /\ result \in Results \cup {None}
  /\ session \in 1..MaxSessions
  /\ writes \in Seq([what : {"content", "enter"}, to : 1..MaxSessions])
  /\ pc = "done" <=> result # None

\* The task is typed once, before any Enter, and Enter is pressed once per
\* attempt: a retry never sends the content again.
TypedOnce ==
  /\ \A i \in DOMAIN writes : writes[i].what = "content" <=> i = 1
  /\ Cardinality(Enters) <= attempt
  /\ result = "acked" => Cardinality(Enters) = attempt

\* Once the signal is aborted nothing is typed any more, whatever was under way.
NothingTypedAfterAbort == [][aborted => writes' = writes]_vars

\* What the caller is told about a call that ended agrees with what was typed: a
\* terminal that was not ready got no Enter, an unconfirmed task got every one.
ReportMatchesTyping ==
  /\ result \in {"AGENT_NOT_READY", "threw"} => Enters = {}
  /\ result = "INSTRUCTION_ACK_TIMEOUT" => Cardinality(Enters) = MaxSubmitAttempts
  /\ result \in {"acked", "TERMINAL_EXITED", "PROVIDER_STARTUP_FAILED"} => Enters # {}

\* A call whose signal is aborted is never left waiting for a timer or for output,
\* except at the gate.
AbortIsPrompt == aborted /\ pc \notin {"gate", "done"} => woke # None

\* "Enter durante o boot da TUI é exatamente a corrida que este módulo existe para
\* eliminar" (the comment on the readiness wait): every Enter goes to the session
\* that was found ready and got the content.
EnterGoesWhereContentWent == \A i, j \in DOMAIN writes : writes[i].to = writes[j].to
==============================================================================
