------------------------------ MODULE BridgeTurn ------------------------------
(***************************************************************************)
(* createBridgeTurn() of src/main/bridge-turn.ts: the waiter for the       *)
(* result of one turn, armed on the PTY's events before the instruction is *)
(* delivered.  `outcome' is the promise `pending': None, or how it was     *)
(* resolved.                                                               *)
(*                                                                         *)
(* A chunk of output is abstracted to what the code tells apart: its text  *)
(* is an echo of the input, a fatal model failure, a line of output, or    *)
(* too short to prove anything; and it completes, in the buffer, no frame  *)
(* with this turn's nonce, the opening of one, or a whole one that is      *)
(* malformed or carries an outcome.  Text that is an echo cannot be fatal. *)
(***************************************************************************)
EXTENDS Naturals, Sequences

CONSTANT None

Answers == {"completed", "blocked", "failed"}
Texts == {"echo", "fatal", "output", "short"}
Frames == {"none", "opening", "malformed"} \cup Answers
Evidence == (Texts \cup Frames) \ {"short", "none"}

VARIABLES submitted, acknowledged,
          candidate,                \* the outcome of the last valid frame
          sawEcho, sawOutput, sawInvalid,
          outcome,
          seen                      \* history: what came after Enter

evidence == <<sawEcho, sawOutput, sawInvalid>>
vars == <<submitted, acknowledged, candidate, evidence, outcome, seen>>

TimeoutCodes == {"AGENT_NOT_READY", "INSTRUCTION_ACK_TIMEOUT", "RESULT_PARSE_FAILED",
                 "ECHO_ONLY", "RESULT_MARKER_MISSING", "RESULT_TIMEOUT"}
FailCodes == {"CANCELLED", "INSTRUCTION_DELIVERY_FAILED", "INSTRUCTION_ACK_TIMEOUT",
              "AGENT_NOT_READY", "TERMINAL_EXITED", "PROVIDER_STARTUP_FAILED"}
Outcomes == {"completed", "blocked", "AGENT_REPORTED_FAILURE", "MODEL_FAILURE"}
              \cup TimeoutCodes \cup FailCodes

Init ==
  /\ submitted = FALSE /\ acknowledged = FALSE /\ candidate = None
  /\ sawEcho = FALSE /\ sawOutput = FALSE /\ sawInvalid = FALSE
  /\ outcome = None /\ seen = {}

Open == outcome = None

\* finish(): only the first call counts.
Finish(o) == outcome' = IF Open THEN o ELSE outcome

ResultOf_Raw(answer) == answer

ResultOf(answer) == IF answer = "failed" THEN "AGENT_REPORTED_FAILURE" ELSE answer

\* completeCandidate(), after candidate and acknowledged have been set.
CompleteCandidate_Unacknowledged ==
  Finish(IF candidate' # None THEN ResultOf(candidate') ELSE outcome)

CompleteCandidate ==
  Finish(IF candidate' # None /\ acknowledged' THEN ResultOf(candidate') ELSE outcome)

Unchanged == UNCHANGED <<submitted, acknowledged, candidate, evidence, seen>>

OnExit == Finish("TERMINAL_EXITED") /\ Unchanged
OnError == Finish("PROVIDER_STARTUP_FAILED") /\ Unchanged

\* PROVIDER_STARTUP_FAILED with reason model_configuration_error.
OnFatal == Finish("MODEL_FAILURE")

\* A whole frame ends the scan; a later one replaces the candidate.
Scan(frame) ==
  /\ sawInvalid' = CASE frame \in Answers -> FALSE
                     [] frame \in {"opening", "malformed"} -> TRUE
                     [] OTHER -> sawInvalid
  /\ candidate' = IF frame \in Answers THEN frame ELSE candidate
  /\ IF frame \in Answers THEN CompleteCandidate ELSE UNCHANGED outcome

OnData(text, frame) ==
  IF ~Open THEN UNCHANGED vars
  ELSE /\ sawEcho' = (sawEcho \/ text = "echo")
       /\ UNCHANGED <<submitted, acknowledged>>
       /\ seen' = IF submitted THEN seen \cup ({text, frame} \cap Evidence) ELSE seen
       /\ CASE ~submitted -> UNCHANGED <<candidate, sawOutput, sawInvalid, outcome>>
            [] submitted /\ text = "fatal" ->
                 OnFatal /\ UNCHANGED <<candidate, sawOutput, sawInvalid>>
            [] OTHER -> sawOutput' = (sawOutput \/ text = "output") /\ Scan(frame)

TimeoutCode_OutputFirst ==
  CASE ~submitted -> "AGENT_NOT_READY"
    [] sawOutput -> "RESULT_MARKER_MISSING"
    [] ~acknowledged /\ candidate # None -> "INSTRUCTION_ACK_TIMEOUT"
    [] sawInvalid -> "RESULT_PARSE_FAILED"
    [] sawEcho -> "ECHO_ONLY"
    [] OTHER -> "RESULT_TIMEOUT"

\* The first condition that holds.
TimeoutCode ==
  IF ~submitted THEN "AGENT_NOT_READY"
  ELSE IF ~acknowledged /\ candidate # None THEN "INSTRUCTION_ACK_TIMEOUT"
  ELSE IF sawInvalid THEN "RESULT_PARSE_FAILED"
  ELSE IF sawEcho /\ ~sawOutput THEN "ECHO_ONLY"
  ELSE IF sawOutput THEN "RESULT_MARKER_MISSING"
  ELSE "RESULT_TIMEOUT"

\* The idle or the overall timer.
Timeout == Finish(TimeoutCode) /\ Unchanged
Cancel == Finish("CANCELLED") /\ Unchanged
Fail(code) == Finish(code) /\ Unchanged

\* instruction(): the phases submit_sent and acked of the delivery.
PhaseSubmitted ==
  IF ~Open THEN UNCHANGED vars
  ELSE submitted' = TRUE /\ UNCHANGED <<acknowledged, candidate, evidence, outcome, seen>>

PhaseAcked_WaitsForOutput ==
  IF ~Open THEN UNCHANGED vars
  ELSE acknowledged' = TRUE /\ UNCHANGED <<submitted, candidate, evidence, seen, outcome>>

PhaseAcked ==
  IF ~Open THEN UNCHANGED vars
  ELSE acknowledged' = TRUE /\ UNCHANGED <<submitted, candidate, evidence, seen>> /\ CompleteCandidate

Next ==
  \/ OnExit \/ OnError \/ Timeout \/ Cancel
  \/ \E code \in FailCodes : Fail(code)
  \/ \E text \in Texts : \E frame \in Frames : OnData(text, frame)
  \/ PhaseSubmitted
  \/ submitted /\ PhaseAcked   \* sendAgentInstruction() reports them in order

Spec == Init /\ [][Next]_vars
------------------------------------------------------------------------------
TypeOK ==
  /\ {submitted, acknowledged, sawEcho, sawOutput, sawInvalid} \subseteq BOOLEAN
  /\ candidate \in Answers \cup {None}
  /\ outcome \in Outcomes \cup {None}
  /\ seen \subseteq Evidence

\* An answer counts only when Enter was pressed and confirmed, and comes from a
\* whole, valid frame that arrived after it: echo and stale frames fail closed.
AnswersAreEarned ==
  outcome \in {"completed", "blocked", "AGENT_REPORTED_FAILURE"} =>
    /\ submitted /\ acknowledged
    /\ \E answer \in seen \cap Answers : ResultOf(answer) = outcome

\* An answer that is there and confirmed is never left to the timers.
NoAnswerLeftWaiting == ~(Open /\ acknowledged /\ candidate # None)

\* The code of a turn that ran out of time tells what was seen of it.
DiagnosisIsTrue ==
  /\ outcome \in {"ECHO_ONLY", "RESULT_MARKER_MISSING", "RESULT_TIMEOUT"} => seen \cap Frames = {}
  /\ outcome = "ECHO_ONLY" => "output" \notin seen
  /\ outcome = "RESULT_MARKER_MISSING" => "output" \in seen
  /\ outcome = "RESULT_PARSE_FAILED" => seen \cap {"opening", "malformed"} # {}
==============================================================================
