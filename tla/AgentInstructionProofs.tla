----------------------- MODULE AgentInstructionProofs -----------------------
(***************************************************************************)
(* Proofs about AgentInstruction, for every number of attempts and of      *)
(* sessions, with and without a paste wait.                                *)
(*                                                                         *)
(* What was typed is a function of the place where the call stands:        *)
(* nothing before the content, the content alone while the paste settles,  *)
(* and then one Enter per attempt.  `Typing' says so for every place, and  *)
(* for a call that ended what its result allows.  `Waking' says how each   *)
(* wait can have ended, so that the code after it knows what it handles.   *)
(***************************************************************************)
EXTENDS AgentInstruction, FiniteSetTheorems, SequenceTheorems, TLAPS

Entry == [what : {"content", "enter"}, to : 1..MaxSessions]
Log == Seq(Entry)

Opens(log) == \A i \in DOMAIN log : log[i].what = "content" <=> i = 1

ContentFirst == Opens(writes)

Typing ==
  /\ pc \in {"gate", "waiting_ready"} => Len(writes) = 0 /\ attempt = 0
  /\ pc = "pasting" => Len(writes) = 1 /\ attempt = 1
  /\ pc = "awaiting_ack" => Len(writes) = attempt + 1 /\ attempt >= 1
  /\ Len(writes) <= attempt + 1
  /\ result = "acked" => Len(writes) = attempt + 1
  /\ result \in {"AGENT_NOT_READY", "threw"} => Len(writes) <= 1
  /\ result = "INSTRUCTION_ACK_TIMEOUT" =>
       Len(writes) = attempt + 1 /\ attempt = MaxSubmitAttempts
  /\ result \in {"acked", "TERMINAL_EXITED", "PROVIDER_STARTUP_FAILED"} => Len(writes) >= 2

Waking ==
  /\ pc = "gate" => woke \in {None, "passed", "threw"}
  /\ pc \in {"waiting_ready", "pasting"} => woke \in {None, "ready", "timeout", "aborted"}
  /\ pc = "awaiting_ack" =>
       woke \in {None, "timeout", "acked", "TERMINAL_EXITED", "PROVIDER_STARTUP_FAILED", "aborted"}
  /\ pc = "done" => woke = None
  /\ woke = "aborted" => aborted

\* TypeOK, without the log and the flags.
Typed ==
  /\ pc \in Waits \cup {"done"}
  /\ woke \in Wakes \cup {None}
  /\ attempt \in 0..MaxSubmitAttempts
  /\ result \in Results \cup {None}
  /\ session \in 1..MaxSessions
  /\ pc = "done" <=> result # None

Flags == settling \in BOOLEAN /\ aborted \in BOOLEAN /\ alive \in BOOLEAN

IInv == Flags /\ Typed /\ writes \in Log /\ ContentFirst /\ Typing /\ Waking /\ AbortIsPrompt

LEMMA Constants ==
  /\ MaxSubmitAttempts \in Nat /\ MaxSubmitAttempts >= 1
  /\ MaxSessions \in Nat /\ MaxSessions >= 1
  /\ None \notin Wakes /\ None \notin Results
BY InstructionAssumption, NoneAssumption

------------------------------------------------------------------------------
LEMMA LogFacts ==
  ASSUME NEW log \in Log
  PROVE  /\ Len(log) \in Nat /\ DOMAIN log = 1..Len(log)
         /\ \A i \in 1..Len(log) : log[i] \in Entry /\ log[i].what \in {"content", "enter"}
<1>1. Len(log) \in Nat /\ DOMAIN log = 1..Len(log)
  BY LenProperties DEF Log
<1>2. \A i \in 1..Len(log) : log[i] \in Entry
  BY ElementOfSeq DEF Log
<1>3. \A e \in Entry : e.what \in {"content", "enter"}
  BY DEF Entry
<1> QED  BY <1>1, <1>2, <1>3

\* Appending an Enter to a log that has its content, and the content to an empty one.
LEMMA AppendEnter ==
  ASSUME NEW log \in Log, Opens(log), Len(log) >= 1, NEW n \in 1..MaxSessions
  PROVE  LET longer == Append(log, [what |-> "enter", to |-> n])
         IN  longer \in Log /\ Len(longer) = Len(log) + 1 /\ Opens(longer)
<1> DEFINE e == [what |-> "enter", to |-> n]
           longer == Append(log, e)
<1>1. e \in Entry
  BY DEF Entry
<1>2. /\ longer \in Log /\ Len(longer) = Len(log) + 1
      /\ \A i \in 1..Len(log) : longer[i] = log[i]
      /\ longer[Len(log) + 1] = e
  BY <1>1, AppendProperties DEF Log
<1>3. e.what # "content"
  OBVIOUS
<1>4. Opens(longer)
  <2> SUFFICES ASSUME NEW i \in DOMAIN longer
               PROVE  longer[i].what = "content" <=> i = 1
    BY DEF Opens
  <2> HIDE DEF e, longer
  <2>1. Len(log) \in Nat /\ i \in 1..(Len(log) + 1)
    BY <1>2, LogFacts
  <2>2. CASE i \in 1..Len(log)
    BY <1>2, <2>2, LogFacts DEF Opens
  <2>3. CASE i = Len(log) + 1
    BY <1>2, <1>3, <2>1, <2>3
  <2> QED  BY <2>1, <2>2, <2>3
<1> QED  BY <1>2, <1>4

LEMMA AppendContent ==
  ASSUME NEW log \in Log, Len(log) = 0, NEW n \in 1..MaxSessions
  PROVE  LET longer == Append(log, [what |-> "content", to |-> n])
         IN  longer \in Log /\ Len(longer) = 1 /\ Opens(longer)
<1> DEFINE e == [what |-> "content", to |-> n]
<1>1. e \in Entry /\ log = <<>>
  BY EmptySeq DEF Entry, Log
<1>2. Append(log, e) = <<e>> /\ Append(log, e) \in Log
  BY <1>1, AppendProperties DEF Log
<1> QED  BY <1>2 DEF Opens

\* The number of Enters is that of the writes but the first.
LEMMA EntersCounted ==
  ASSUME writes \in Log, ContentFirst
  PROVE  /\ Len(writes) <= 1 => Enters = {} /\ Cardinality(Enters) = 0
         /\ Len(writes) >= 1 => Cardinality(Enters) = Len(writes) - 1
         /\ Len(writes) >= 2 => Enters # {}
<1> DEFINE n == Len(writes)
<1>1. n \in Nat /\ DOMAIN writes = 1..n
  BY LogFacts
<1>2. Enters = 2..n
  <2>1. \A i \in 1..n : writes[i].what \in {"content", "enter"}
    BY LogFacts
  <2>2. \A i \in 1..n : writes[i].what = "enter" <=> i # 1
    BY <1>1, <2>1 DEF ContentFirst, Opens
  <2>3. Enters = {i \in 1..n : i # 1}
    BY <1>1, <2>2 DEF Enters
  <2> QED  BY <1>1, <2>3
<1>3. Cardinality(2..n) = IF 2 > n THEN 0 ELSE n - 2 + 1
  BY <1>1, FS_Interval
<1>4. n >= 2 => 2 \in 2..n
  BY <1>1
<1> QED  BY <1>1, <1>2, <1>3, <1>4

------------------------------------------------------------------------------
LEMMA InitIsInvariant == Init => IInv
<1> SUFFICES ASSUME Init PROVE IInv
  OBVIOUS
<1> USE Constants DEF Init
<1>1. Typed /\ writes \in Log
  <2>1. writes \in Log
    BY EmptySeq DEF Log
  <2> QED  BY <2>1 DEF Typed, Waits
<1>2. ContentFirst /\ Waking /\ AbortIsPrompt
  BY DEF Wakes, ContentFirst, Opens, Waking, AbortIsPrompt
<1>3. Typing
  BY DEF Typing, Results, Failures
<1>4. Flags
  BY DEF Flags
<1> QED  BY <1>1, <1>2, <1>3, <1>4 DEF IInv

\* What ends a wait types nothing and keeps the place.
LEMMA EventIsInvariant ==
  ASSUME IInv,
         \/ Asleep /\ (Timers \/ Abort \/ Output \/ PtyError)
         \/ SessionChange
  PROVE  IInv'
<1> USE Constants DEF IInv, Flags, Typed, ContentFirst, Typing, Waking, AbortIsPrompt, Asleep, pty,
          Waits, Wakes
<1>1. CASE Asleep /\ Gate
  BY <1>1 DEF Gate, Wake
<1>2. CASE Asleep /\ Readiness
  BY <1>2 DEF Readiness, Wake
<1>3. CASE Asleep /\ EchoSettled
  BY <1>3 DEF EchoSettled
<1>4. CASE Asleep /\ AckTimeout
  BY <1>4 DEF AckTimeout, Wake
<1>5. CASE Asleep /\ Abort
  BY <1>5 DEF Abort, SignalAbort
<1>6. CASE Asleep /\ Output
  BY <1>6 DEF Output, PtyData
<1>7. CASE Asleep /\ PtyError
  BY <1>7 DEF PtyError, Fatal
<1>8. CASE PtyExit
  BY <1>8 DEF PtyExit, Fatal
<1>9. CASE PtyStop
  BY <1>9 DEF PtyStop
<1>10. CASE PtyStart
  BY <1>10 DEF PtyStart
<1> QED
  BY <1>1, <1>2, <1>3, <1>4, <1>5, <1>6, <1>7, <1>8, <1>9, <1>10 DEF Timers, SessionChange

\* A call that ends keeps its log: its result must be one that the log allows.
LEMMA EndIsInvariant ==
  ASSUME IInv, NEW r \in Results, End(r), UNCHANGED writes,
         attempt' \in 0..MaxSubmitAttempts, attempt' >= attempt,
         r = "acked" => Len(writes) = attempt' + 1 /\ Len(writes) >= 2,
         r \in {"AGENT_NOT_READY", "threw"} => Len(writes) <= 1,
         r = "INSTRUCTION_ACK_TIMEOUT" =>
           Len(writes) = attempt' + 1 /\ attempt' = MaxSubmitAttempts,
         r \in {"TERMINAL_EXITED", "PROVIDER_STARTUP_FAILED"} => Len(writes) >= 2
  PROVE  IInv'
<1> USE DEF IInv, End, pty
<1>1. Flags'
  BY DEF Flags
<1>2. Typed' /\ writes' \in Log /\ ContentFirst'
  BY Constants DEF Typed, ContentFirst, Waits
<1>3. Waking' /\ AbortIsPrompt'
  BY Constants DEF Waking, AbortIsPrompt, Wakes
<1>4. Typing'
  <2>1. Len(writes) \in Nat /\ attempt \in Nat /\ attempt' \in Nat /\ Len(writes) <= attempt + 1
    BY Constants, LogFacts DEF Typed, Typing
  <2>2. /\ (pc \in {"gate", "waiting_ready"} => Len(writes) = 0 /\ attempt = 0)'
        /\ (pc = "pasting" => Len(writes) = 1 /\ attempt = 1)'
        /\ (pc = "awaiting_ack" => Len(writes) = attempt + 1 /\ attempt >= 1)'
    OBVIOUS
  <2>3. (Len(writes) <= attempt + 1)'
    BY <2>1
  <2>4. /\ (result = "acked" => Len(writes) = attempt + 1)'
        /\ (result \in {"AGENT_NOT_READY", "threw"} => Len(writes) <= 1)'
        /\ (result = "INSTRUCTION_ACK_TIMEOUT" =>
               Len(writes) = attempt + 1 /\ attempt = MaxSubmitAttempts)'
        /\ (result \in {"acked", "TERMINAL_EXITED", "PROVIDER_STARTUP_FAILED"} =>
               Len(writes) >= 2)'
    OBVIOUS
  <2> QED  BY <2>2, <2>3, <2>4 DEF Typing
<1> QED  BY <1>1, <1>2, <1>3, <1>4

\* Enter is typed behind a log that holds the content and one Enter per attempt so far.
LEMMA SubmitIsInvariant ==
  ASSUME IInv, ~aborted, pc \in Waits,
         NEW k \in 1..MaxSubmitAttempts, NEW log \in Log, Submit(k, log),
         Len(log) = k, Opens(log)
  PROVE  IInv'
<1> USE Constants DEF IInv, pty
<1>1. attempt' = k /\ k >= 1 /\ k <= MaxSubmitAttempts
  BY DEF Submit
<1>2. CASE alive
  <2>1. writes' = Append(log, [what |-> "enter", to |-> session]) /\ WaitAt("awaiting_ack")
    BY <1>2 DEF Submit
  <2>2. writes' \in Log /\ Len(writes') = k + 1 /\ Opens(writes')
    <3>1. session \in 1..MaxSessions /\ Len(log) >= 1
      BY <1>1 DEF Typed
    <3> QED  BY <2>1, <3>1, AppendEnter
  <2>3. Typed' /\ ContentFirst'
    BY <1>1, <2>1, <2>2 DEF WaitAt, Typed, ContentFirst, Waits
  <2>4. Typing'
    <3>1. result = None
      BY DEF Typed, Waits
    <3>2. result' = None /\ pc' = "awaiting_ack"
      BY <2>1, <3>1 DEF WaitAt
    <3> QED  BY <1>1, <2>2, <3>2 DEF Typing, Results, Failures
  <2>5. Flags'
    BY <2>1 DEF WaitAt, Flags
  <2>6. Waking' /\ AbortIsPrompt'
    BY <2>1 DEF WaitAt, Waking, AbortIsPrompt, Wakes
  <2> QED  BY <2>2, <2>3, <2>4, <2>5, <2>6
<1>3. CASE ~alive
  <2>1. writes' = log /\ End("INSTRUCTION_DELIVERY_FAILED")
    BY <1>3 DEF Submit
  <2>2. Typed' /\ writes' \in Log /\ ContentFirst'
    BY <2>1, <1>1 DEF End, Typed, ContentFirst, Waits, Results, Failures
  <2>3. Typing'
    <3>1. writes' = log /\ Len(log) = k /\ pc' = "done" /\ result' = "INSTRUCTION_DELIVERY_FAILED"
      BY <2>1 DEF End
    <3> QED  BY <3>1, <1>1 DEF Typing
  <2>4. Flags'
    BY <2>1 DEF End, Flags
  <2>5. Waking' /\ AbortIsPrompt'
    BY <2>1 DEF End, Waking, AbortIsPrompt, Wakes
  <2> QED  BY <2>2, <2>3, <2>4, <2>5
<1> QED  BY <1>2, <1>3

\* The code between two waits.
LEMMA ResumeIsInvariant ==
  ASSUME IInv, NEW resultReady \in BOOLEAN, Resume(resultReady)
  PROVE  IInv'
<1> USE Constants DEF IInv, Waits, Wakes, Results, Failures
<1>1. CASE ResumeCancelled
  BY <1>1, EndIsInvariant DEF ResumeCancelled, Typed
<1>2. CASE ResumeGate
  <2>1. CASE woke = "threw" /\ End("threw")
    BY <1>2, <2>1, EndIsInvariant DEF ResumeGate, Typed, Typing
  <2>2. CASE woke = "passed" /\ ~aborted /\ alive /\ WaitAt("waiting_ready")
    <3>1. Typed' /\ writes' \in Log /\ ContentFirst'
      BY <1>2, <2>2 DEF ResumeGate, WaitAt, pty, Typed, ContentFirst
    <3>2. Flags'
      BY <1>2, <2>2 DEF ResumeGate, WaitAt, pty, Flags
    <3>3. Waking' /\ AbortIsPrompt'
      BY <1>2, <2>2 DEF ResumeGate, WaitAt, pty, Waking, AbortIsPrompt
    <3>4. Typing'
      <4>1. /\ pc' = "waiting_ready" /\ UNCHANGED <<writes, attempt, result>>
            /\ Len(writes) = 0 /\ attempt = 0 /\ result = None
        BY <1>2, <2>2 DEF ResumeGate, WaitAt, Typing, Typed
      <4> QED  BY <4>1 DEF Typing
    <3> QED  BY <3>1, <3>2, <3>3, <3>4
  <2>3. CASE woke = "passed" /\ ~aborted /\ End("AGENT_NOT_READY")
    BY <1>2, <2>3, EndIsInvariant DEF ResumeGate, Typed, Typing
  <2> QED  BY <1>2, <2>1, <2>2, <2>3 DEF ResumeGate
<1>3. CASE ResumeReady
  <2>1. CASE woke = "timeout"
    BY <1>3, <2>1, EndIsInvariant DEF ResumeReady, Typed, Typing
  <2>2. CASE woke # "timeout" /\ ~alive
    BY <1>3, <2>2, EndIsInvariant DEF ResumeReady, Typed, Typing
  <2>3. Written \in Log /\ Len(Written) = 1 /\ Opens(Written)
    <3>1. writes \in Log /\ Len(writes) = 0 /\ session \in 1..MaxSessions
      BY <1>3 DEF ResumeReady, Typed, Typing
    <3> QED  BY <3>1, AppendContent DEF Written
  <2>4. CASE woke # "timeout" /\ alive /\ PasteSettles
    <3>1. writes' = Written /\ attempt' = 1 /\ WaitAt("pasting") /\ ~aborted
      BY <1>3, <2>4 DEF ResumeReady
    <3>2. Typed' /\ writes' \in Log /\ ContentFirst'
      <4>1. pc' = "pasting" /\ woke' = None /\ result' = None /\ UNCHANGED session
        BY <1>3, <3>1 DEF ResumeReady, WaitAt, pty, Typed
      <4> QED  BY <2>3, <3>1, <4>1 DEF Typed, ContentFirst
    <3>5. Flags'
      BY <3>1 DEF WaitAt, pty, Flags
    <3>3. Waking' /\ AbortIsPrompt'
      BY <3>1 DEF WaitAt, pty, Waking, AbortIsPrompt
    <3>4. Typing'
      <4>1. pc' = "pasting" /\ attempt' = 1 /\ Len(writes') = 1 /\ result' = result /\ result = None
        BY <1>3, <2>3, <3>1 DEF WaitAt, ResumeReady, Typed
      <4> QED  BY <4>1 DEF Typing
    <3> QED  BY <3>2, <3>3, <3>4, <3>5
  <2>5. CASE woke # "timeout" /\ alive /\ ~PasteSettles
    <3>1. Submit(1, Written) /\ ~aborted /\ pc \in Waits
      BY <1>3, <2>5 DEF ResumeReady
    <3>2. 1 \in 1..MaxSubmitAttempts
      OBVIOUS
    <3> QED  BY <3>1, <3>2, <2>3, SubmitIsInvariant
  <2> QED  BY <2>1, <2>2, <2>4, <2>5
<1>4. CASE ResumePasted
  <2>1. CASE woke = "timeout"
    <3>1. End("AGENT_NOT_READY") /\ UNCHANGED <<attempt, writes>> /\ Len(writes) = 1
      BY <1>4, <2>1 DEF ResumePasted, Typing
    <3> QED  BY <3>1, EndIsInvariant DEF Typed
  <2>2. CASE woke # "timeout"
    <3>1. Submit(attempt, writes) /\ ~aborted /\ pc \in Waits /\ attempt = 1 /\ Len(writes) = 1
      BY <1>4, <2>2 DEF ResumePasted, Typing
    <3>2. 1 \in 1..MaxSubmitAttempts /\ writes \in Log /\ ContentFirst
      BY DEF Typed
    <3> QED  BY <3>1, <3>2, SubmitIsInvariant DEF ContentFirst
  <2> QED  BY <2>1, <2>2
<1>5. CASE ResumeAck(resultReady)
  <2>1. /\ Len(writes) = attempt + 1 /\ attempt >= 1 /\ attempt \in Nat /\ ~aborted
        /\ woke \in {"timeout", "acked", "TERMINAL_EXITED", "PROVIDER_STARTUP_FAILED"}
    BY <1>5 DEF ResumeAck, Typing, Waking, Typed
  <2>2. CASE woke \in {"TERMINAL_EXITED", "PROVIDER_STARTUP_FAILED"}
    <3>1. End(woke) /\ UNCHANGED <<attempt, writes>>
      BY <1>5, <2>2 DEF ResumeAck
    <3> QED  BY <2>1, <2>2, <3>1, EndIsInvariant DEF Typed
  <2>3. ASSUME End("acked"), UNCHANGED <<attempt, writes>> PROVE IInv'
    BY <2>1, <2>3, EndIsInvariant DEF Typed
  <2>4. CASE woke = "acked"
    BY <1>5, <2>3, <2>4 DEF ResumeAck
  <2>5. CASE woke = "timeout"
    <3>1. CASE resultReady
      BY <1>5, <2>3, <2>5, <3>1 DEF ResumeAck
    <3>2. CASE ~resultReady /\ attempt < MaxSubmitAttempts
      <4>1. Submit(attempt + 1, writes) /\ pc \in Waits
        BY <1>5, <2>5, <3>2 DEF ResumeAck
      <4>2. attempt + 1 \in 1..MaxSubmitAttempts
        BY <2>1, <3>2
      <4>3. writes \in Log /\ ContentFirst
        BY DEF Typed
      <4> QED  BY <2>1, <4>1, <4>2, <4>3, SubmitIsInvariant DEF ContentFirst
    <3>3. CASE ~resultReady /\ ~(attempt < MaxSubmitAttempts)
      <4>1. End("INSTRUCTION_ACK_TIMEOUT") /\ UNCHANGED <<attempt, writes>>
        BY <1>5, <2>5, <3>3 DEF ResumeAck
      <4>2. attempt = MaxSubmitAttempts
        BY <3>3 DEF Typed
      <4> QED  BY <2>1, <4>1, <4>2, EndIsInvariant DEF Typed
    <3> QED  BY <3>1, <3>2, <3>3
  <2> QED  BY <2>1, <2>2, <2>4, <2>5
<1> QED  BY <1>1, <1>2, <1>3, <1>4, <1>5 DEF Resume

LEMMA StutterIsInvariant == ASSUME IInv, UNCHANGED vars PROVE IInv'
BY DEF IInv, Flags, Typed, ContentFirst, Typing, Waking, AbortIsPrompt, vars

\* The inductive invariant: what was typed follows from where the call stands.
THEOREM InstructionInvariant == Spec => []IInv
<1>1. IInv /\ [Next]_vars => IInv'
  BY EventIsInvariant, ResumeIsInvariant, StutterIsInvariant DEF Next
<1> QED  BY InitIsInvariant, <1>1, PTL DEF Spec

\* Type correctness of one call of sendAgentInstruction().
THEOREM InstructionTypeOK == Spec => []TypeOK
<1>1. IInv => TypeOK
  BY DEF IInv, Flags, Typed, TypeOK, Log, Entry
<1> QED  BY InstructionInvariant, <1>1, PTL

\* The task is typed once, before any Enter, and Enter at most once per attempt.
THEOREM InstructionTypedOnce == Spec => []TypedOnce
<1>1. IInv => TypedOnce
  <2> SUFFICES ASSUME IInv PROVE TypedOnce
    OBVIOUS
  <2> USE DEF IInv
  <2>1. writes \in Log /\ ContentFirst /\ Len(writes) \in Nat /\ attempt \in Nat
    BY DEF Typed, Entry
  <2> QED  BY <2>1, EntersCounted DEF TypedOnce, ContentFirst, Opens, Typing
<1> QED  BY InstructionInvariant, <1>1, PTL

\* What the caller is told about a call that ended agrees with what was typed.
THEOREM InstructionReportMatchesTyping == Spec => []ReportMatchesTyping
<1>1. IInv => ReportMatchesTyping
  <2> SUFFICES ASSUME IInv PROVE ReportMatchesTyping
    OBVIOUS
  <2> USE DEF IInv
  <2>1. writes \in Log /\ ContentFirst /\ Len(writes) \in Nat /\ attempt \in Nat
    BY DEF Typed, Entry
  <2> QED  BY <2>1, EntersCounted DEF ReportMatchesTyping, Typing
<1> QED  BY InstructionInvariant, <1>1, PTL

\* A call whose signal is aborted is never left waiting, except at the gate.
THEOREM InstructionAbortIsPrompt == Spec => []AbortIsPrompt
<1>1. IInv => AbortIsPrompt
  BY DEF IInv
<1> QED  BY InstructionInvariant, <1>1, PTL

\* Once the signal is aborted nothing is typed any more.
THEOREM InstructionSilentAfterAbort == Spec => NothingTypedAfterAbort
<1>1. ASSUME [Next]_vars, aborted PROVE writes' = writes
  <2>1. CASE \E resultReady \in BOOLEAN : Resume(resultReady)
    BY <1>1, <2>1
    DEF Resume, ResumeCancelled, ResumeGate, ResumeReady, ResumePasted, ResumeAck
  <2>2. CASE Asleep /\ (Timers \/ Abort \/ Output \/ PtyError)
    BY <2>2 DEF Timers, Gate, Readiness, EchoSettled, AckTimeout, Wake, Abort, Output,
                PtyData, PtyError
  <2>3. CASE SessionChange
    BY <2>3 DEF SessionChange, PtyExit, PtyStop, PtyStart
  <2> QED  BY <1>1, <2>1, <2>2, <2>3 DEF Next, vars
<1>2. [Next]_vars => [aborted => writes' = writes]_vars
  BY <1>1
<1> QED  BY <1>2, PTL DEF Spec, NothingTypedAfterAbort
==============================================================================
