------------------------- MODULE TurnDeliveryProofs -------------------------
(***************************************************************************)
(* Proofs about TurnDelivery, for any number of attempts and of sessions   *)
(* and any output: its invariants, and that every step of it is one that   *)
(* TurnContract allows or changes nothing that the contract speaks of.     *)
(*                                                                         *)
(* The waiter alone keeps its invariant under everything but the ack       *)
(* (TurnInv): an ack may only come once Enter was pressed.  That is the    *)
(* delivery's part (DeliveryInv): it waits for an ack only if the waiter   *)
(* was told of Enter, or is settled.  And it types nothing for a settled   *)
(* turn, because a settlement that finds it under way is a failure, whose  *)
(* callback has run and has aborted it before it goes on.                  *)
(***************************************************************************)
EXTENDS TurnDelivery, SequenceTheorems, TLAPS

Entry == [what : {"content", "enter"}, to : Nat]
Log == Seq(Entry)

TurnTyped ==
  /\ submitted \in BOOLEAN /\ acknowledged \in BOOLEAN
  /\ sawEcho \in BOOLEAN /\ sawOutput \in BOOLEAN /\ sawInvalid \in BOOLEAN
  /\ candidate \in T!Answers \cup {None}
  /\ outcome \in T!Outcomes \cup {None}
  /\ seen \subseteq T!Evidence

\* What the waiter remembers of the output is what came after Enter.
Witnessed ==
  /\ candidate # None => candidate \in seen
  /\ outcome = None =>
       /\ sawInvalid => seen \cap {"opening", "malformed"} # {}
       /\ candidate = None /\ ~sawInvalid => seen \cap T!Frames = {}
       /\ sawOutput <=> "output" \in seen

TurnInv ==
  /\ TurnTyped /\ Witnessed
  /\ acknowledged => submitted
  /\ T!AnswersAreEarned /\ T!NoAnswerLeftWaiting /\ T!DiagnosisIsTrue

DeliveryTyped ==
  /\ pc \in I!Waits \cup {"done"}
  /\ woke \in I!Wakes \cup {None}
  /\ aborted \in BOOLEAN /\ alive \in BOOLEAN
  /\ result \in I!Results \cup {None}
  /\ pc = "done" <=> result # None
  /\ session \in Nat
  /\ writes \in Log

DeliveryInv ==
  /\ DeliveryTyped
  /\ acknowledged => result = "acked"
  /\ pc = "awaiting_ack" => submitted \/ outcome # None
  /\ reacted => outcome # None
  /\ Failed /\ reacted => aborted
  /\ concluded => result # None
  /\ NoOrphanTurn

IInv == TurnInv /\ DeliveryInv

LEMMA Constants ==
  None \notin I!Wakes \cup I!Results \cup T!Answers \cup T!Outcomes
BY TurnNoneAssumption

------------------------------------------------------------------------------
(* The waiter *)

LEMMA FinishStep ==
  ASSUME TurnInv, NEW o \in {"TERMINAL_EXITED", "PROVIDER_STARTUP_FAILED", "CANCELLED",
                             "INSTRUCTION_DELIVERY_FAILED", "INSTRUCTION_ACK_TIMEOUT", "AGENT_NOT_READY"},
         T!Finish(o), T!Unchanged
  PROVE  TurnInv'
BY Constants DEF TurnInv, TurnTyped, Witnessed, T!Finish, T!Unchanged, T!Open, T!evidence,
  T!AnswersAreEarned, T!NoAnswerLeftWaiting, T!DiagnosisIsTrue, T!Outcomes, T!FailCodes, T!ResultOf

LEMMA TimeoutStep ==
  ASSUME TurnInv, outcome = None, T!Timeout
  PROVE  TurnInv'
BY Constants DEF TurnInv, TurnTyped, Witnessed, T!Timeout, T!TimeoutCode, T!Finish, T!Unchanged, T!Open,
  T!evidence, T!AnswersAreEarned, T!NoAnswerLeftWaiting, T!DiagnosisIsTrue, T!Outcomes, T!TimeoutCodes,
  T!ResultOf

LEMMA SubmittedStep ==
  ASSUME TurnInv, T!PhaseSubmitted
  PROVE  TurnInv' /\ outcome' = outcome /\ acknowledged' = acknowledged
         /\ (submitted' \/ outcome # None)
<1>1. CASE outcome # None
  BY <1>1 DEF TurnInv, TurnTyped, Witnessed, T!PhaseSubmitted, T!Open, T!vars, T!evidence,
    T!AnswersAreEarned, T!NoAnswerLeftWaiting, T!DiagnosisIsTrue, T!ResultOf
<1>2. CASE outcome = None
  BY <1>2, Constants DEF TurnInv, TurnTyped, Witnessed, T!PhaseSubmitted, T!Open, T!evidence,
    T!AnswersAreEarned, T!NoAnswerLeftWaiting, T!DiagnosisIsTrue, T!ResultOf, T!Outcomes
<1> QED  BY <1>1, <1>2

LEMMA AckedStep ==
  ASSUME TurnInv, submitted \/ outcome # None, T!PhaseAcked
  PROVE  /\ TurnInv'
         /\ submitted' = submitted
         /\ outcome # None => outcome' = outcome /\ acknowledged' = acknowledged
         /\ outcome = None => outcome' \in {None, "completed", "blocked", "AGENT_REPORTED_FAILURE"}
<1>1. CASE outcome # None
  BY <1>1 DEF TurnInv, TurnTyped, Witnessed, T!PhaseAcked, T!Open, T!vars, T!evidence,
    T!AnswersAreEarned, T!NoAnswerLeftWaiting, T!DiagnosisIsTrue, T!ResultOf
<1>2. CASE outcome = None /\ candidate = None
  BY <1>2 DEF TurnInv, TurnTyped, Witnessed, T!PhaseAcked, T!Open, T!evidence, T!CompleteCandidate,
    T!Finish, T!AnswersAreEarned, T!NoAnswerLeftWaiting, T!DiagnosisIsTrue, T!ResultOf
<1>3. CASE outcome = None /\ candidate # None
  BY <1>3, Constants DEF TurnInv, TurnTyped, Witnessed, T!PhaseAcked, T!Open, T!evidence,
    T!CompleteCandidate, T!Finish, T!AnswersAreEarned, T!NoAnswerLeftWaiting, T!DiagnosisIsTrue,
    T!ResultOf, T!Answers, T!Outcomes
<1> QED  BY <1>1, <1>2, <1>3

LEMMA DataStep ==
  ASSUME TurnInv, NEW text \in T!Texts, NEW frame \in T!Frames, T!OnData(text, frame)
  PROVE  /\ TurnInv'
         /\ submitted' = submitted /\ acknowledged' = acknowledged
         /\ outcome # None => outcome' = outcome
         /\ outcome = None => 
              \/ outcome' \in {None, "MODEL_FAILURE"}
              \/ acknowledged /\ outcome' \in {"completed", "blocked", "AGENT_REPORTED_FAILURE"}
<1>1. CASE outcome # None
  BY <1>1 DEF TurnInv, TurnTyped, Witnessed, T!OnData, T!Open, T!vars, T!evidence,
    T!AnswersAreEarned, T!NoAnswerLeftWaiting, T!DiagnosisIsTrue, T!ResultOf
<1>2. CASE outcome = None /\ ~submitted
  BY <1>2, Constants DEF TurnInv, TurnTyped, Witnessed, T!OnData, T!Open, T!evidence,
    T!AnswersAreEarned, T!NoAnswerLeftWaiting, T!DiagnosisIsTrue, T!ResultOf
<1>3. CASE outcome = None /\ submitted /\ text = "fatal"
  BY <1>3, Constants DEF TurnInv, TurnTyped, Witnessed, T!OnData, T!OnFatal, T!Finish, T!Open,
    T!evidence, T!AnswersAreEarned, T!NoAnswerLeftWaiting, T!DiagnosisIsTrue, T!ResultOf,
    T!Evidence, T!Texts, T!Frames, T!Answers, T!Outcomes
<1>4. CASE outcome = None /\ submitted /\ text # "fatal"
  <2> DEFINE new == {text, frame} \cap T!Evidence
  <2>1. /\ seen' = seen \cup new
        /\ sawOutput' = (sawOutput \/ text = "output")
        /\ sawEcho' = (sawEcho \/ text = "echo")
        /\ submitted' = submitted /\ acknowledged' = acknowledged
        /\ T!Scan(frame)
    BY <1>4 DEF T!OnData, T!Open
  <2>2. TurnTyped' /\ (acknowledged' => submitted')
    BY <1>4, <2>1, Constants DEF TurnInv, TurnTyped, T!Scan, T!CompleteCandidate,
      T!Finish, T!Open, T!ResultOf, T!Evidence, T!Texts, T!Frames, T!Answers, T!Outcomes
  <2>3. \/ outcome' = None
        \/ /\ acknowledged /\ frame \in T!Answers /\ candidate' = frame
           /\ outcome' = T!ResultOf(frame)
    BY <1>4, <2>1, Constants DEF T!Scan, T!CompleteCandidate, T!Finish, T!Open
  <2>4. frame \in T!Frames \ {"none"} => frame \in seen'
    BY <2>1 DEF T!Evidence, T!Frames, T!Answers
  <2>5. T!AnswersAreEarned'
    <3>1. CASE outcome' = None
      BY <3>1, Constants DEF T!AnswersAreEarned, T!Outcomes
    <3>2. CASE outcome' = T!ResultOf(frame) /\ acknowledged /\ frame \in T!Answers
      BY <1>4, <2>1, <2>4, <3>2 DEF T!AnswersAreEarned, T!ResultOf, T!Answers, T!Frames
    <3> QED  BY <2>3, <3>1, <3>2
  <2>6. T!NoAnswerLeftWaiting'
    BY <1>4, <2>1, Constants DEF TurnInv, T!NoAnswerLeftWaiting, T!Scan, T!CompleteCandidate,
      T!Finish, T!Open, T!ResultOf, T!Answers, T!Outcomes
  <2>7. T!DiagnosisIsTrue'
    BY <2>3, Constants DEF T!DiagnosisIsTrue, T!ResultOf, T!Answers, T!Outcomes, T!TimeoutCodes
  <2>8. Witnessed'
    <3>1. candidate' # None => candidate' \in seen'
      BY <2>1, <2>4 DEF TurnInv, Witnessed, T!Scan, T!Answers, T!Frames
    <3>2. sawInvalid' => seen' \cap {"opening", "malformed"} # {}
      BY <1>4, <2>1, <2>4 DEF TurnInv, Witnessed, T!Scan, T!Answers, T!Frames
    <3>3. candidate' = None /\ ~sawInvalid' => seen' \cap T!Frames = {}
      <4> SUFFICES ASSUME candidate' = None, ~sawInvalid' PROVE seen' \cap T!Frames = {}
        OBVIOUS
      <4>1. frame = "none" /\ candidate = None /\ ~sawInvalid
        BY <2>1, Constants DEF T!Scan, T!Answers, T!Frames
      <4>2. new \cap T!Frames = {}
        BY <4>1 DEF T!Evidence, T!Texts, T!Frames, T!Answers
      <4> QED  BY <1>4, <2>1, <4>1, <4>2 DEF TurnInv, Witnessed
    <3>4. sawOutput' <=> "output" \in seen'
      <4>1. text = "output" <=> "output" \in new
        BY DEF T!Evidence, T!Texts, T!Frames, T!Answers
      <4>2. sawOutput <=> "output" \in seen
        BY <1>4 DEF TurnInv, Witnessed
      <4> HIDE DEF new
      <4> QED  BY <2>1, <4>1, <4>2, Zenon
    <3> QED  BY <3>1, <3>2, <3>3, <3>4 DEF Witnessed
  <2>9. TurnInv'
    BY <2>2, <2>5, <2>6, <2>7, <2>8 DEF TurnInv
  <2> QED
    BY <1>4, <2>1, <2>3, <2>9 DEF T!ResultOf, T!Answers
<1> QED  BY <1>1, <1>2, <1>3, <1>4
------------------------------------------------------------------------------
(* The delivery, from one wait to the next *)

\* A log that is typed at its end: the content, Enter, or both.
LEMMA AppendFacts ==
  ASSUME NEW log \in Log, NEW what \in {"content", "enter"}, NEW to \in Nat
  PROVE  LET longer == Append(log, [what |-> what, to |-> to])
         IN  /\ longer \in Log
             /\ Len(log) \in Nat /\ Len(longer) = Len(log) + 1
             /\ Last(longer).what = what
<1> DEFINE e == [what |-> what, to |-> to]
<1>1. e \in Entry /\ e.what = what
  BY DEF Entry
<1>2. Append(log, e) \in Log /\ Len(Append(log, e)) = Len(log) + 1 /\ Len(log) \in Nat
      /\ Append(log, e)[Len(log) + 1] = e
  BY <1>1, AppendProperties, LenProperties DEF Log
<1> QED  BY <1>1, <1>2 DEF Last

\* What one continuation of the delivery does, as far as the turn is concerned.
Continues ==
  /\ result = None /\ DeliveryTyped'
  /\ aborted' = aborted /\ alive' = alive /\ session' = session
  /\ aborted => writes' = writes /\ result' \in {"CANCELLED", "threw"}
  /\ result' = "acked" => writes' = writes /\ pc = "awaiting_ack"
  /\ pc' = "awaiting_ack" => Len(writes') > Len(writes) /\ Last(writes').what = "enter"

LEMMA EndsWithout ==
  ASSUME DeliveryTyped, pc \in I!Waits, NEW r \in I!Results, I!End(r), writes' = writes,
         aborted => r \in {"CANCELLED", "threw"}, r = "acked" => pc = "awaiting_ack"
  PROVE  Continues
BY Constants DEF DeliveryTyped, Continues, I!End, I!pty, I!Waits

LEMMA GoesOn ==
  ASSUME DeliveryTyped, ~aborted, pc \in I!Waits, NEW place \in {"waiting_ready", "pasting"},
         I!WaitAt(place), writes' \in Log
  PROVE  Continues
BY Constants DEF DeliveryTyped, Continues, I!WaitAt, I!pty, I!Waits, I!Results

LEMMA Submits ==
  ASSUME DeliveryTyped, ~aborted, pc \in I!Waits, NEW k, NEW log \in Log, Len(log) >= Len(writes),
         log = writes \/ alive, I!Submit(k, log)
  PROVE  Continues
<1>1. CASE alive
  <2>1. /\ writes' = Append(log, [what |-> "enter", to |-> session])
        /\ I!WaitAt("awaiting_ack")
    BY <1>1 DEF I!Submit
  <2>2. writes' \in Log /\ Len(writes') = Len(log) + 1 /\ Len(log) \in Nat /\ Last(writes').what = "enter"
    BY <2>1, AppendFacts DEF DeliveryTyped
  <2>3. Len(writes) \in Nat
    BY LenProperties DEF DeliveryTyped, Log
  <2>4. Len(writes') > Len(writes)
    BY <2>2, <2>3
  <2> QED
    BY <2>1, <2>2, <2>4, Constants DEF DeliveryTyped, Continues, I!WaitAt, I!pty, I!Waits, I!Results
<1>2. CASE ~alive
  BY <1>2, EndsWithout DEF I!Submit, I!Results, I!Failures
<1> QED  BY <1>1, <1>2

LEMMA ResumeFacts ==
  ASSUME DeliveryTyped, NEW ready \in BOOLEAN, I!Resume(ready)
  PROVE  Continues
<1>1. CASE I!ResumeCancelled
  BY <1>1, EndsWithout DEF I!ResumeCancelled, I!Results, I!Failures
<1>2. CASE I!ResumeGate
  <2>1. CASE woke = "threw"
    BY <1>2, <2>1, EndsWithout DEF I!ResumeGate, I!Results, I!Waits
  <2>2. CASE woke = "passed" /\ ~aborted /\ alive /\ I!WaitAt("waiting_ready")
    BY <1>2, <2>2, GoesOn DEF I!ResumeGate, I!Waits, DeliveryTyped
  <2>3. CASE woke = "passed" /\ ~aborted /\ I!End("AGENT_NOT_READY")
    BY <1>2, <2>3, EndsWithout DEF I!ResumeGate, I!Results, I!Failures, I!Waits
  <2> QED  BY <1>2, <2>1, <2>2, <2>3 DEF I!ResumeGate
<1>3. CASE I!ResumeReady
  <2>1. pc \in I!Waits /\ ~aborted
    BY <1>3 DEF I!ResumeReady, I!Waits
  <2>2. CASE I!End("AGENT_NOT_READY") /\ writes' = writes
    BY <2>1, <2>2, EndsWithout DEF I!Results, I!Failures
  <2>3. CASE I!End("INSTRUCTION_DELIVERY_FAILED") /\ writes' = writes
    BY <2>1, <2>3, EndsWithout DEF I!Results, I!Failures
  <2>4. I!Written \in Log /\ Len(I!Written) >= Len(writes)
    BY AppendFacts DEF DeliveryTyped, I!Written
  <2>5. CASE writes' = I!Written /\ I!WaitAt("pasting")
    BY <2>1, <2>4, <2>5, GoesOn
  <2>6. CASE alive /\ I!Submit(1, I!Written)
    BY <2>1, <2>4, <2>6, Submits
  <2> QED  BY <1>3, <2>2, <2>3, <2>5, <2>6 DEF I!ResumeReady
<1>4. CASE I!ResumePasted
  <2>1. pc \in I!Waits /\ ~aborted /\ writes \in Log /\ Len(writes) >= Len(writes)
    BY <1>4, LenProperties DEF I!ResumePasted, I!Waits, DeliveryTyped, Log
  <2>2. CASE I!End("AGENT_NOT_READY") /\ writes' = writes
    BY <2>1, <2>2, EndsWithout DEF I!Results, I!Failures
  <2>3. CASE I!Submit(attempt, writes)
    BY <2>1, <2>3, Submits
  <2> QED  BY <1>4, <2>2, <2>3 DEF I!ResumePasted
<1>5. CASE I!ResumeAck(ready)
  <2>1. pc = "awaiting_ack" /\ pc \in I!Waits /\ ~aborted /\ writes \in Log /\ Len(writes) >= Len(writes)
    BY <1>5, LenProperties DEF I!ResumeAck, I!Waits, DeliveryTyped, Log
  <2>2. CASE \E r \in I!Failures \cup {"acked"} : I!End(r) /\ writes' = writes
    BY <2>1, <2>2, EndsWithout DEF I!Results
  <2>3. CASE I!Submit(attempt + 1, writes)
    BY <2>1, <2>3, Submits
  <2> QED  BY <1>5, <2>2, <2>3 DEF I!ResumeAck, I!Failures
<1> QED  BY <1>1, <1>2, <1>3, <1>4, <1>5 DEF I!Resume
------------------------------------------------------------------------------
(* Both together, and the contract *)

ContractStep == Contract!Next \/ UNCHANGED <<promise, delivery>>

\* A step of the handler, of the turn or of the terminal: an invariant kept, a
\* step of the contract, nothing typed for a turn that is over.
Good == IInv' /\ ContractStep /\ (outcome # None => writes' = writes)

\* An answer needs the ack.
Earned ==
  outcome' \in {None, "AGENT_REPORTED_FAILURE", "MODEL_FAILURE"} \cup T!TimeoutCodes \cup T!FailCodes
    \/ acknowledged'

\* A step that leaves the delivery where it is.
OnlyTheTurn ==
  /\ pc' = pc /\ result' = result /\ writes' = writes
  /\ reacted' = reacted /\ concluded' = concluded
  /\ submitted' = submitted /\ acknowledged' = acknowledged
  /\ aborted => aborted'
  /\ outcome # None => outcome' = outcome

LEMMA PromiseMoves ==
  ASSUME IInv, outcome = None, outcome' \in T!Outcomes, result' = result,
         result = "acked" \/ outcome' \notin {"completed", "blocked"}
  PROVE  ContractStep
<1>1. promise = None /\ delivery' = delivery
  BY Constants DEF promise, delivery, T!Outcomes, T!FailCodes
<1>2. result = "acked" => delivery = "acked"
  BY Constants DEF delivery, I!Results
<1>3. CASE outcome' \in {"completed", "blocked"}
  <2>1. promise' = "answered"
    BY <1>3, Constants DEF promise, T!Outcomes
  <2> QED  BY <1>1, <1>2, <1>3, <2>1 DEF ContractStep, Contract!Next, Contract!Report
<1>4. CASE outcome' \notin {"completed", "blocked"}
  <2>1. promise' \in Contract!Failures
    BY <1>4, Constants DEF promise, Contract!Failures
  <2> QED  BY <1>1, <2>1 DEF ContractStep, Contract!Next, Contract!FailTurn
<1> QED  BY <1>3, <1>4

LEMMA OnlyTheTurnStep ==
  ASSUME IInv, OnlyTheTurn, TurnInv', DeliveryTyped', Earned
  PROVE  Good
<1>1. IInv'
  BY Constants DEF IInv, OnlyTheTurn, DeliveryInv, NoOrphanTurn, Failed, Settled
<1>2. ContractStep
  <2>1. CASE outcome' = outcome
    BY <2>1 DEF OnlyTheTurn, ContractStep, promise, delivery
  <2>2. CASE outcome' # outcome
    <3>1. outcome = None /\ outcome' \in T!Outcomes
      BY <2>2 DEF OnlyTheTurn, TurnInv, TurnTyped
    <3>2. result = "acked" \/ outcome' \notin {"completed", "blocked"}
      BY <3>1, Constants DEF IInv, DeliveryInv, Earned, OnlyTheTurn, T!TimeoutCodes, T!FailCodes, T!Outcomes
    <3> QED  BY <3>1, <3>2, PromiseMoves DEF OnlyTheTurn
  <2> QED  BY <2>1, <2>2
<1> QED  BY <1>1, <1>2 DEF Good, OnlyTheTurn

LEMMA AbortKeepsTypes ==
  ASSUME DeliveryTyped, I!SignalAbort, UNCHANGED <<pc, result, session, writes>>, alive' \in BOOLEAN
  PROVE  DeliveryTyped' /\ aborted'
BY DEF DeliveryTyped, I!SignalAbort, I!Wakes

LEMMA TurnUnchanged ==
  ASSUME TurnInv, UNCHANGED turn
  PROVE  TurnInv'
BY DEF TurnInv, TurnTyped, Witnessed, turn, T!AnswersAreEarned, T!NoAnswerLeftWaiting, T!DiagnosisIsTrue,
  T!Open

LEMMA ReactStep ==
  ASSUME IInv, React
  PROVE  Good
<1>1. DeliveryTyped' /\ (Failed => aborted')
  <2>1. CASE Failed /\ ~aborted
    BY <2>1, AbortKeepsTypes DEF React, I!Abort, I!pty, IInv, DeliveryInv, DeliveryTyped
  <2>2. CASE ~(Failed /\ ~aborted)
    BY <2>2 DEF React, instruction, IInv, DeliveryInv, DeliveryTyped
  <2> QED  BY <2>1, <2>2
<1>2. /\ pc' = pc /\ result' = result /\ writes' = writes /\ concluded' = concluded
      /\ outcome' = outcome /\ submitted' = submitted /\ acknowledged' = acknowledged
  BY DEF React, instruction, turn, I!Abort, I!pty
<1>3. IInv'
  BY <1>1, <1>2, TurnUnchanged DEF IInv, DeliveryInv, React, Failed, Settled, NoOrphanTurn
<1> QED
  BY <1>2, <1>3 DEF Good, ContractStep, promise, delivery

\* The delivery is not under way for a turn that is over, unless it was aborted.
LEMMA OverIsAborted ==
  ASSUME IInv, Settled => reacted, Settled, result = None
  PROVE  aborted
BY Constants DEF IInv, DeliveryInv, TurnInv, Failed, Settled, T!AnswersAreEarned, I!Results

LEMMA ProceedStep ==
  ASSUME IInv, Proceed
  PROVE  Good
<1>1. Continues
  BY ResumeFacts DEF Proceed, IInv, DeliveryInv
<1>2. outcome # None => aborted
  BY <1>1, OverIsAborted DEF Proceed, Continues, Settled
<1>3. UNCHANGED <<reacted, concluded>> /\ ~concluded
  BY <1>1 DEF Proceed, Continues, IInv, DeliveryInv
<1>4. ASSUME UNCHANGED <<outcome, acknowledged>>, TurnInv', result' # "acked",
             pc' = "awaiting_ack" => submitted' \/ outcome # None
      PROVE  Good
  <2>1. IInv'
    <3>1. ~acknowledged
      BY <1>1, Constants DEF IInv, DeliveryInv, Continues, I!Results
    <3>2. reacted' => outcome' # None /\ (Failed' => aborted')
      BY <1>1, <1>2, <1>3, <1>4 DEF IInv, DeliveryInv, Continues
    <3> QED
      BY <1>1, <1>3, <1>4, <3>1, <3>2 DEF IInv, DeliveryInv, Continues, Settled, NoOrphanTurn
  <2>2. ContractStep
    <3>1. promise' = promise /\ delivery = "running"
      BY <1>1, <1>4, Constants DEF promise, delivery, Continues, I!Results, I!Failures, T!Outcomes, T!FailCodes
    <3>2. CASE result' = None
      BY <1>1, <3>1, <3>2 DEF ContractStep, delivery, Continues
    <3>3. CASE result' # None
      <4>1. delivery' \in Contract!Refusals
        BY <1>4, <3>3 DEF delivery, Contract!Refusals
      <4> QED  BY <3>1, <4>1 DEF ContractStep, Contract!Next, Contract!Refuse
    <3> QED  BY <3>2, <3>3
  <2> QED  BY <1>1, <1>2, <2>1, <2>2 DEF Good, Continues
<1>5. CASE Len(writes') > Len(writes) /\ Last(writes').what = "enter"
  <2>1. TurnInv' /\ outcome' = outcome /\ acknowledged' = acknowledged /\ (submitted' \/ outcome # None)
    BY <1>5, SubmittedStep DEF Proceed, IInv
  <2>2. result' # "acked"
    <3>1. Len(writes) \in Nat
      BY LenProperties DEF IInv, DeliveryInv, DeliveryTyped, Log
    <3> QED  BY <1>1, <1>5, <3>1 DEF Continues
  <2> QED  BY <1>4, <2>1, <2>2
<1>6. CASE ~(Len(writes') > Len(writes) /\ Last(writes').what = "enter") /\ result' # "acked"
  <2>1. UNCHANGED turn /\ pc' # "awaiting_ack"
    BY <1>1, <1>6 DEF Proceed, Continues
  <2> QED  BY <1>4, <1>6, <2>1, TurnUnchanged DEF IInv, turn
<1>7. CASE ~(Len(writes') > Len(writes) /\ Last(writes').what = "enter") /\ result' = "acked"
  <2>1. outcome = None /\ submitted /\ T!PhaseAcked
    BY <1>1, <1>2, <1>7 DEF Proceed, Continues, IInv, DeliveryInv
  <2>2. /\ TurnInv' /\ submitted' = submitted
        /\ outcome' \in {None, "completed", "blocked", "AGENT_REPORTED_FAILURE"}
    BY <2>1, AckedStep DEF IInv
  <2>3. pc' = "done" /\ ~reacted
    BY <1>1, <1>7, <2>1, Constants DEF Continues, DeliveryTyped, IInv, DeliveryInv, I!Results
  <2>4. IInv'
    BY <1>1, <1>3, <1>7, <2>2, <2>3, Constants DEF IInv, DeliveryInv, Continues, Failed, Settled, NoOrphanTurn
  <2>5. Contract!Acknowledge
    <3>1. promise = None
      BY <2>1, Constants DEF promise, T!Outcomes, T!FailCodes
    <3>2. delivery = "running" /\ delivery' = "acked"
      BY <1>1, <1>7, Constants DEF delivery, Continues, I!Results, I!Failures
    <3>3. promise' \in {None, "answered", "failed"}
      <4>1. CASE outcome' = None
        BY <4>1, Constants DEF promise, T!Outcomes, T!FailCodes
      <4>2. CASE outcome' \in {"completed", "blocked", "AGENT_REPORTED_FAILURE"}
        BY <4>2, Constants DEF promise, T!Outcomes
      <4> QED  BY <2>2, <4>1, <4>2
    <3> QED  BY <3>1, <3>2, <3>3 DEF Contract!Acknowledge
  <2> QED  BY <2>1, <2>4, <2>5 DEF Good, ContractStep, Contract!Next
<1> QED  BY <1>5, <1>6, <1>7

LEMMA RefusalIsACode ==
  ASSUME DeliveryTyped, result # None, result # "acked"
  PROVE  RefusalCode \in T!FailCodes
BY DEF DeliveryTyped, RefusalCode, T!FailCodes, I!Results, I!Failures

LEMMA ConcludeStep ==
  ASSUME IInv, Conclude
  PROVE  Good
<1>1. /\ DeliveryTyped' /\ UNCHANGED <<instruction, reacted>> /\ concluded'
      /\ result # None
  BY DEF Conclude, instruction, IInv, DeliveryInv, DeliveryTyped
<1>2. CASE result # "acked" /\ ~Settled
  <2>1. T!Finish(RefusalCode) /\ T!Unchanged /\ RefusalCode \in T!FailCodes
    BY <1>1, <1>2, RefusalIsACode DEF Conclude, T!Fail, IInv, DeliveryInv
  <2>2. TurnInv' /\ outcome' = RefusalCode /\ outcome = None
    BY <1>2, <2>1, FinishStep DEF IInv, T!Finish, T!Open, Settled, T!FailCodes
  <2>3. IInv'
    BY <1>1, <1>2, <2>1, <2>2, Constants DEF IInv, DeliveryInv, instruction, T!Unchanged, Failed, Settled,
      NoOrphanTurn, T!Outcomes
  <2>4. ContractStep
    BY <1>1, <1>2, <2>1, <2>2, PromiseMoves DEF instruction, T!Outcomes, T!FailCodes
  <2> QED  BY <1>1, <2>3, <2>4 DEF Good, instruction
<1>3. CASE ~(result # "acked" /\ ~Settled)
  <2>1. UNCHANGED turn
    BY <1>3 DEF Conclude
  <2>2. IInv'
    BY <1>1, <1>3, <2>1, TurnUnchanged DEF IInv, DeliveryInv, instruction, turn, Failed, Settled, NoOrphanTurn
  <2> QED  BY <1>1, <2>1, <2>2 DEF Good, ContractStep, promise, delivery, instruction, turn
<1> QED  BY <1>2, <1>3
\* A wait of the delivery ends, or the terminal does something to it.
LEMMA WaitsKeepTypes ==
  ASSUME DeliveryTyped, UNCHANGED <<pc, result, aborted, session, writes>>,
         woke' \in I!Wakes \cup {None}, alive' \in BOOLEAN
  PROVE  DeliveryTyped'
BY DEF DeliveryTyped

LEMMA DeliveryTimerStep ==
  ASSUME IInv, DeliveryTimer
  PROVE  Good
<1>1. \/ \E place \in I!Waits, w \in I!Wakes : I!Wake(place, w)
      \/ I!EchoSettled
  BY DEF DeliveryTimer, I!Timers, I!Gate, I!Readiness, I!AckTimeout, I!Waits, I!Wakes
<1>2. /\ UNCHANGED <<pc, result, aborted, session, alive, writes>>
      /\ woke' \in I!Wakes \cup {None}
  BY <1>1 DEF I!Wake, I!EchoSettled, I!pty, IInv, DeliveryInv, DeliveryTyped
<1>3. UNCHANGED turn /\ UNCHANGED bridge
  BY DEF DeliveryTimer
<1>4. DeliveryTyped'
  BY <1>2, WaitsKeepTypes DEF IInv, DeliveryInv, DeliveryTyped
<1>5. OnlyTheTurn /\ Earned
  BY <1>2, <1>3 DEF OnlyTheTurn, Earned, turn, bridge, IInv, TurnInv, TurnTyped, T!Outcomes,
    T!AnswersAreEarned
<1> QED  BY <1>3, <1>4, <1>5, OnlyTheTurnStep, TurnUnchanged DEF IInv

LEMMA TurnTimerStep ==
  ASSUME IInv, TurnTimer
  PROVE  Good
<1>1. outcome = None /\ T!Timeout /\ UNCHANGED instruction /\ UNCHANGED bridge
  BY DEF TurnTimer, Settled
<1>2. TurnInv'
  BY <1>1, TimeoutStep DEF IInv
<1>3. outcome' \in T!TimeoutCodes
  BY <1>1 DEF T!Timeout, T!TimeoutCode, T!TimeoutCodes, T!Finish, T!Open
<1>4. DeliveryTyped'
  BY <1>1 DEF instruction, IInv, DeliveryInv, DeliveryTyped
<1>5. OnlyTheTurn /\ Earned
  BY <1>1, <1>3 DEF OnlyTheTurn, Earned, T!Timeout, T!Unchanged, instruction, bridge
<1> QED  BY <1>2, <1>4, <1>5, OnlyTheTurnStep

LEMMA PtyDataStep ==
  ASSUME IInv, NEW text \in TextsIn, NEW frame \in FramesIn, NEW isAck \in BOOLEAN,
         PtyData(text, frame, isAck)
  PROVE  Good
<1>1. text \in T!Texts /\ frame \in T!Frames
  BY DeliveryAssumption
<1>2. T!OnData(text, frame) /\ UNCHANGED bridge /\ I!PtyData(isAck)
  BY DEF PtyData
<1>3. /\ TurnInv'
      /\ submitted' = submitted /\ acknowledged' = acknowledged
      /\ outcome # None => outcome' = outcome
      /\ outcome = None =>
           \/ outcome' \in {None, "MODEL_FAILURE"}
           \/ acknowledged /\ outcome' \in {"completed", "blocked", "AGENT_REPORTED_FAILURE"}
  BY <1>1, <1>2, DataStep DEF IInv
<1>4. UNCHANGED <<pc, result, aborted, session, alive, writes>> /\ woke' \in I!Wakes \cup {None}
  BY <1>2 DEF I!PtyData, I!pty, I!Wakes, IInv, DeliveryInv, DeliveryTyped
<1>5. DeliveryTyped'
  BY <1>4, WaitsKeepTypes DEF IInv, DeliveryInv, DeliveryTyped
<1>6. Earned
  <2>1. CASE outcome = None
    BY <1>3, <2>1 DEF Earned
  <2>2. CASE outcome # None
    BY <1>3, <2>2 DEF Earned, IInv, TurnInv, TurnTyped, T!Outcomes, T!AnswersAreEarned
  <2> QED  BY <2>1, <2>2
<1>7. OnlyTheTurn
  BY <1>2, <1>3, <1>4 DEF OnlyTheTurn, bridge
<1> QED  BY <1>3, <1>5, <1>6, <1>7, OnlyTheTurnStep

\* A settlement that is a failure, or none.
LEMMA FinishedOrNot ==
  ASSUME IInv, NEW o \in {"TERMINAL_EXITED", "PROVIDER_STARTUP_FAILED", "CANCELLED"},
         \/ T!Finish(o) /\ T!Unchanged
         \/ UNCHANGED turn
  PROVE  /\ TurnInv' /\ Earned
         /\ submitted' = submitted /\ acknowledged' = acknowledged
         /\ outcome # None => outcome' = outcome
<1>1. CASE UNCHANGED turn
  BY <1>1, TurnUnchanged DEF turn, Earned, IInv, TurnInv, TurnTyped, T!Outcomes, T!AnswersAreEarned
<1>2. CASE T!Finish(o) /\ T!Unchanged /\ outcome = None
  BY <1>2, FinishStep DEF T!Finish, T!Open, T!Unchanged, Earned, IInv, T!FailCodes
<1>3. CASE T!Finish(o) /\ T!Unchanged /\ outcome # None
  BY <1>3, FinishStep DEF T!Finish, T!Open, T!Unchanged, Earned, IInv, TurnInv, TurnTyped, T!Outcomes,
    T!AnswersAreEarned
<1> QED  BY <1>1, <1>2, <1>3

LEMMA TerminalStep ==
  ASSUME IInv, PtyExit \/ PtyError \/ PtyRestart
  PROVE  Good
<1>1. \/ \E o \in {"TERMINAL_EXITED", "PROVIDER_STARTUP_FAILED"} : T!Finish(o) /\ T!Unchanged
      \/ UNCHANGED turn
  BY DEF PtyExit, PtyError, PtyRestart, T!OnExit, T!OnError
<1>2. /\ UNCHANGED <<pc, result, aborted, writes>> /\ UNCHANGED bridge
  BY DEF PtyExit, PtyError, PtyRestart, I!PtyExit, I!PtyError, I!PtyStart, I!pty
<1>3. woke' \in I!Wakes \cup {None} /\ alive' \in BOOLEAN /\ session' \in Nat
  <2>1. CASE PtyExit
    BY <2>1 DEF PtyExit, I!PtyExit, I!Fatal, I!Wakes, IInv, DeliveryInv, DeliveryTyped
  <2>2. CASE PtyError
    BY <2>2 DEF PtyError, I!PtyError, I!Fatal, I!Wakes, I!pty, IInv, DeliveryInv, DeliveryTyped
  <2>3. CASE PtyRestart
    BY <2>3 DEF PtyRestart, I!PtyStart, IInv, DeliveryInv, DeliveryTyped
  <2> QED  BY <2>1, <2>2, <2>3
<1>4. DeliveryTyped'
  BY <1>2, <1>3 DEF IInv, DeliveryInv, DeliveryTyped
<1>5. TurnInv' /\ Earned /\ OnlyTheTurn
  BY <1>1, <1>2, FinishedOrNot DEF OnlyTheTurn, bridge
<1> QED  BY <1>4, <1>5, OnlyTheTurnStep

LEMMA StopTerminalStep ==
  ASSUME IInv, StopTerminal
  PROVE  Good
<1>1. T!Finish("CANCELLED") /\ T!Unchanged
  BY DEF StopTerminal, T!Cancel
<1>2. DeliveryTyped' /\ aborted'
  BY AbortKeepsTypes DEF StopTerminal, IInv, DeliveryInv
<1>3. TurnInv' /\ Earned /\ OnlyTheTurn
  BY <1>1, <1>2, FinishedOrNot DEF OnlyTheTurn, StopTerminal, bridge
<1> QED  BY <1>2, <1>3, OnlyTheTurnStep

LEMMA RequestAbortStep ==
  ASSUME IInv, RequestAbort
  PROVE  Good
<1>1. \/ T!Finish("CANCELLED") /\ T!Unchanged
      \/ UNCHANGED turn
  BY DEF RequestAbort, T!Cancel
<1>2. /\ UNCHANGED <<pc, result, session, writes, reacted, concluded>>
      /\ DeliveryTyped' /\ (aborted => aborted')
  <2>1. CASE UNCHANGED instruction
    BY <2>1 DEF RequestAbort, instruction, IInv, DeliveryInv, DeliveryTyped
  <2>2. CASE I!Abort
    BY <2>2, AbortKeepsTypes DEF RequestAbort, I!Abort, I!pty, IInv, DeliveryInv, DeliveryTyped
  <2> QED  BY <2>1, <2>2 DEF RequestAbort
<1>3. TurnInv' /\ Earned /\ OnlyTheTurn
  BY <1>1, <1>2, FinishedOrNot DEF OnlyTheTurn
<1> QED  BY <1>2, <1>3, OnlyTheTurnStep

------------------------------------------------------------------------------
(* The theorems *)

LEMMA InitGood == Init => IInv /\ Contract!Init
<1> SUFFICES ASSUME Init PROVE IInv /\ Contract!Init
  OBVIOUS
<1>1. TurnInv
  BY Constants DEF Init, T!Init, TurnInv, TurnTyped, Witnessed, T!AnswersAreEarned, T!NoAnswerLeftWaiting,
    T!DiagnosisIsTrue, T!Open, T!Outcomes, T!TimeoutCodes
<1>2. DeliveryInv
  BY EmptySeq DEF Init, I!Init, T!Init, DeliveryInv, DeliveryTyped, I!Waits, Log, NoOrphanTurn, Failed, Settled
<1>3. Contract!Init
  BY Constants DEF Init, I!Init, T!Init, Contract!Init, promise, delivery, T!Outcomes, T!FailCodes,
    I!Results, I!Failures
<1> QED  BY <1>1, <1>2, <1>3 DEF IInv

LEMMA StepGood == IInv /\ [Next]_vars => Good
<1> SUFFICES ASSUME IInv, [Next]_vars PROVE Good
  OBVIOUS
<1>1. CASE UNCHANGED vars
  BY <1>1, TurnUnchanged DEF vars, instruction, turn, IInv, DeliveryInv, DeliveryTyped, NoOrphanTurn,
    Failed, Settled, Good, ContractStep, promise, delivery
<1>2. CASE Internal
  BY <1>2, ReactStep, ProceedStep, ConcludeStep DEF Internal
<1>3. CASE \E text \in TextsIn, frame \in FramesIn, isAck \in BOOLEAN : PtyData(text, frame, isAck)
  BY <1>3, PtyDataStep
<1>4. CASE DeliveryTimer \/ TurnTimer
  BY <1>4, DeliveryTimerStep, TurnTimerStep
<1>5. CASE PtyExit \/ PtyError \/ PtyRestart \/ StopTerminal \/ RequestAbort
  BY <1>5, TerminalStep, StopTerminalStep, RequestAbortStep
<1> QED  BY <1>1, <1>2, <1>3, <1>4, <1>5 DEF Next

\* The inductive invariant of the waiter and its delivery together.
THEOREM DeliveryInvariant == Spec => []IInv
<1>1. IInv /\ [Next]_vars => IInv'
  BY StepGood DEF Good
<1> QED  BY InitGood, <1>1, PTL DEF Spec

\* No waiter stays armed behind a delivery that was refused, cancelled or thrown.
THEOREM DeliveryNoOrphanTurn == Spec => []NoOrphanTurn
<1>1. IInv => NoOrphanTurn
  BY DEF IInv, DeliveryInv
<1> QED  BY <1>1, DeliveryInvariant, PTL

\* An answer comes from a whole frame behind an Enter that was confirmed.
THEOREM DeliveryAnswersAreEarned == Spec => []AnswersAreEarned
<1>1. IInv => AnswersAreEarned
  BY DEF IInv, TurnInv, AnswersAreEarned
<1> QED  BY <1>1, DeliveryInvariant, PTL

\* An answer that is there and confirmed settles its turn at once.
THEOREM DeliveryNoAnswerLeftWaiting == Spec => []NoAnswerLeftWaiting
<1>1. IInv => NoAnswerLeftWaiting
  BY DEF IInv, TurnInv, NoAnswerLeftWaiting
<1> QED  BY <1>1, DeliveryInvariant, PTL

\* The code of a timeout agrees with what came in after Enter.
THEOREM DeliveryDiagnosisIsTrue == Spec => []DiagnosisIsTrue
<1>1. IInv => DiagnosisIsTrue
  BY DEF IInv, TurnInv, DiagnosisIsTrue
<1> QED  BY <1>1, DeliveryInvariant, PTL

\* A turn that is over gets nothing typed any more, whoever ended it.
THEOREM DeliverySilentWhenOver == Spec => NothingTypedForADeadTurn
<1>1. IInv /\ [Next]_vars => [Settled => writes' = writes]_vars
  BY StepGood DEF Good, Settled
<1> QED  BY <1>1, DeliveryInvariant, PTL DEF Spec, NothingTypedForADeadTurn

\* Waiter and delivery together keep the contract that the service relies on.
THEOREM DeliveryKeepsContract == Spec => ContractSpec
<1>1. Init => Contract!Init
  BY InitGood
<1>2. IInv /\ [Next]_vars => [Contract!Next]_<<promise, delivery>>
  BY StepGood DEF Good, ContractStep
<1> QED  BY <1>1, <1>2, DeliveryInvariant, PTL DEF Spec, ContractSpec, Contract!Spec, Contract!tcVars
=============================================================================
