----------------------------- MODULE AgentTurns ------------------------------
(***************************************************************************)
(* Turns that the canvas sends to the agent of a terminal                   *)
(* (devorbit:sendAgentTurn, agent-turn.ts), beside explicit starts and      *)
(* stops of that terminal.  Turns of a terminal run one after the other; a  *)
(* turn keeps the agent's session if its provider and model are the ones it *)
(* needs, and starts it anew otherwise and after a turn that failed.  A     *)
(* start or a stop replaces the terminal's attempt, which turns and starts  *)
(* compare with their own after every wait.                                 *)
(* One terminal; what its process is given to do comes from turns.          *)
(***************************************************************************)
EXTENDS Naturals, Sequences, FiniteSets

CONSTANTS
  TurnCalls,             \* calls of devorbit:sendAgentTurn
  StartCalls,            \* calls of devorbit:startAgentTerminal
  StopCalls,             \* calls of devorbit:stopTerminal
  Models,                \* provider and model of a session
  None

VARIABLES
  attempt,               \* terminalLaunchAttempts: the call that made the present attempt
  process,               \* the PTY in the map of sessions, by the call that started it
  turnSession,           \* turnSessions: the model the process was started with
  turnQueue,             \* turnQueues: turns that wait for their predecessors, in order
  turn,                  \* calls: their place and the attempt they belong to
  model,                 \* what each turn was resolved to
  answer,                \* how the waiter of each turn's result stands
  work,                  \* turns whose prompt the process has and has not answered
  early                  \* turns that joined the attempt of a start before it ran

vars == <<attempt, process, turnSession, turnQueue, turn, model, answer, work, early>>

LaunchCalls == TurnCalls \cup StartCalls \cup StopCalls
Over == {"ok", "failed"}

Init ==
  /\ attempt = None
  /\ process = None
  /\ turnSession = None
  /\ turnQueue = <<>>
  /\ turn = [c \in LaunchCalls |-> [at |-> "idle", attempt |-> None]]
  /\ model = [c \in TurnCalls |-> None]
  /\ answer = [c \in TurnCalls |-> None]
  /\ work = <<>>
  /\ early = {}

At(c, place) == turn[c].at = place
Goto(c, place) == turn' = [turn EXCEPT ![c].at = place]

\* isCurrentTerminalLaunch
IsCurrent(c) == attempt # None /\ attempt = turn[c].attempt

\* Whoever is told of the end of its process, or of an answer, while it listens.
Listening(c) == turn[c].at \in {"typing", "acking", "waiting"} /\ answer[c] = None

\* stopTerminal and startTerminal: the process before is killed and its last
\* words are nobody's.
Run(c, m) == process' = c /\ turnSession' = m /\ work' = <<>>
Kill == process' = None /\ work' = <<>>

\* Failed turns give up the session, if it is still theirs to give up.
Fail(c) ==
  /\ turnSession' = IF IsCurrent(c) THEN None ELSE turnSession
  /\ turn' = [turn EXCEPT ![c].at = "failed"]
  /\ turnQueue' = Tail(turnQueue)

-----------------------------------------------------------------------------
(* Turns *)

\* A turn joins the attempt that stands, and the queue of its terminal.
Send(c) ==
  /\ c \in TurnCalls /\ At(c, "idle")
  /\ attempt' = IF attempt = None THEN c ELSE attempt
  /\ turn' = [turn EXCEPT ![c] = [at |-> "queued", attempt |-> attempt']]
  /\ turnQueue' = Append(turnQueue, c)
  /\ UNCHANGED <<process, turnSession, model, answer, work, early>>

Running(c, place) == turnQueue # <<>> /\ Head(turnQueue) = c /\ At(c, place)

\* The provider is resolved; the session is kept if it is what the turn needs.
Resolve(c, m) ==
  /\ Running(c, "queued")
  /\ IsCurrent(c)
  /\ model' = [model EXCEPT ![c] = m]
  /\ Goto(c, IF process # None /\ turnSession = m THEN "readying" ELSE "spawning")
  /\ early' = IF turn[c].attempt \in StartCalls /\ ~At(turn[c].attempt, "ok")
                THEN early \cup {c} ELSE early
  /\ UNCHANGED <<attempt, process, turnSession, turnQueue, answer, work>>

\* No provider, or another attempt stands: nothing was touched yet.
ResolveFails(c) ==
  /\ Running(c, "queued")
  /\ Goto(c, "failed")
  /\ turnQueue' = Tail(turnQueue)
  /\ UNCHANGED <<attempt, process, turnSession, model, answer, work, early>>

\* The wait for the configuration and the memory's scope is over: the attempt is
\* looked at again before the process of the terminal is replaced.
Spawn(c) ==
  /\ Running(c, "spawning") /\ IsCurrent(c)
  /\ Run(c, model[c])
  /\ Goto(c, "readying")
  /\ UNCHANGED <<attempt, turnQueue, model, answer, early>>

SpawnFails(c) ==
  /\ Running(c, "spawning")
  /\ Fail(c)
  /\ \/ IsCurrent(c) /\ Kill
     \/ UNCHANGED <<process, work>>
  /\ UNCHANGED <<attempt, model, answer, early>>

\* waitReady, after which the waiter of the result is armed.
Ready(c) ==
  /\ Running(c, "readying") /\ IsCurrent(c)
  /\ Goto(c, "typing")
  /\ UNCHANGED <<attempt, process, turnSession, turnQueue, model, answer, work, early>>

NotReady(c) ==
  /\ Running(c, "readying")
  /\ Fail(c)
  /\ UNCHANGED <<attempt, process, model, answer, work, early>>

\* sendAgentInstruction types the prompt, and waits for a sign that it was taken.
Type(c) ==
  /\ Running(c, "typing") /\ IsCurrent(c) /\ process # None
  /\ work' = Append(work, c)
  /\ Goto(c, "acking")
  /\ UNCHANGED <<attempt, process, turnSession, turnQueue, model, answer, early>>

Acked(c) ==
  /\ Running(c, "acking")
  /\ Goto(c, "waiting")
  /\ UNCHANGED <<attempt, process, turnSession, turnQueue, model, answer, work, early>>

\* No process, an attempt that is over, no sign of the prompt.
NotAcked(c) ==
  /\ Running(c, "typing") \/ Running(c, "acking")
  /\ Fail(c)
  /\ UNCHANGED <<attempt, process, model, answer, work, early>>

\* The result waiter's idle and overall timers.
WaitTimesOut(c) ==
  /\ Listening(c)
  /\ answer' = [answer EXCEPT ![c] = "timeout"]
  /\ UNCHANGED <<attempt, process, turnSession, turnQueue, turn, model, work, early>>

Finish_KeepsSession(c) ==
  /\ Running(c, "waiting") /\ answer[c] # None
  /\ Goto(c, IF answer[c] \in TurnCalls THEN "ok" ELSE "failed")
  /\ turnQueue' = Tail(turnQueue)
  /\ UNCHANGED <<attempt, process, turnSession, model, answer, work, early>>

\* The waiter of the result has settled.
Finish(c) ==
  /\ Running(c, "waiting") /\ answer[c] # None
  /\ IF answer[c] \in TurnCalls
       THEN /\ Goto(c, "ok")
            /\ turnQueue' = Tail(turnQueue)
            /\ UNCHANGED turnSession
       ELSE Fail(c)
  /\ UNCHANGED <<attempt, process, model, answer, work, early>>

-----------------------------------------------------------------------------
(* The process, and calls that start and stop it *)

\* The agent prints the marker of the prompt it worked on.
Prints ==
  /\ process # None /\ work # <<>>
  /\ answer' = [c \in TurnCalls |-> IF Listening(c) THEN Head(work) ELSE answer[c]]
  /\ work' = Tail(work)
  /\ UNCHANGED <<attempt, process, turnSession, turnQueue, turn, model, early>>

Exit ==
  /\ process # None
  /\ Kill
  /\ answer' = [c \in TurnCalls |-> IF Listening(c) THEN "exit" ELSE answer[c]]
  /\ UNCHANGED <<attempt, turnSession, turnQueue, turn, model, early>>

Start(c) ==
  /\ c \in StartCalls /\ At(c, "idle")
  /\ attempt' = c
  /\ turn' = [turn EXCEPT ![c] = [at |-> "spawning", attempt |-> c]]
  /\ UNCHANGED <<process, turnSession, turnQueue, model, answer, work, early>>

Started(c, m) ==
  /\ c \in StartCalls /\ At(c, "spawning") /\ IsCurrent(c)
  /\ Run(c, m)
  /\ Goto(c, "ok")
  /\ UNCHANGED <<attempt, turnQueue, model, answer, early>>

\* The attempt is over, the provider is missing, or its process does not start.
StartFails(c) ==
  /\ c \in StartCalls /\ At(c, "spawning")
  /\ \/ IsCurrent(c) /\ Kill
     \/ UNCHANGED <<process, work>>
  /\ Goto(c, "failed")
  /\ UNCHANGED <<attempt, turnSession, turnQueue, model, answer, early>>

Stop(c) ==
  /\ c \in StopCalls /\ At(c, "idle")
  /\ attempt' = None /\ turnSession' = None
  /\ Kill
  /\ Goto(c, "ok")
  /\ UNCHANGED <<turnQueue, model, answer, early>>

Next ==
  \/ \E c \in TurnCalls :
       \/ Send(c) \/ ResolveFails(c) \/ Spawn(c) \/ SpawnFails(c) \/ Ready(c) \/ NotReady(c)
       \/ Type(c) \/ Acked(c) \/ NotAcked(c) \/ WaitTimesOut(c) \/ Finish(c)
       \/ \E m \in Models : Resolve(c, m)
  \/ Prints \/ Exit
  \/ \E c \in StartCalls : Start(c) \/ StartFails(c) \/ \E m \in Models : Started(c, m)
  \/ \E c \in StopCalls : Stop(c)

\* Waits have timers and files are read or not; the agent need not answer.
Progress(c) ==
  \/ c \in TurnCalls /\
       \/ ResolveFails(c) \/ SpawnFails(c) \/ NotReady(c) \/ NotAcked(c) \/ Acked(c)
       \/ WaitTimesOut(c) \/ Finish(c)
  \/ c \in StartCalls /\ (StartFails(c) \/ \E m \in Models : Started(c, m))

Unfinished(c) == turn[c].at \notin Over \cup {"idle"}

-----------------------------------------------------------------------------
(* Properties *)

\* The answer of a turn is the one the agent gave to its own prompt, and not a
\* late one to the prompt of a turn that timed out, was not confirmed or was
\* replaced: the next turn does not type into a session that still works.  Exempt
\* is what follows a turn that was sent after a start was asked for and before it
\* ran: it finds the session of the attempt that start replaces.
AnswerIsOwn ==
  early = {} =>
  /\ \A c \in TurnCalls : At(c, "ok") => answer[c] = c
  /\ Len(work) <= 1

\* Nobody starts the agent of a terminal that was stopped, however long the start
\* or the turn that wanted it took, and turns know what runs: a session that is
\* kept is the one of the process.
NothingAfterStop ==
  /\ process # None => attempt # None
  /\ process \in TurnCalls /\ turnSession # None => turnSession = model[process]

\* A session is given up by those it belongs to: what an explicit start
\* registered is not dropped by a turn of an earlier attempt that fails late.  One
\* of a later attempt may: a turn that was sent before its start ran.
SessionIsKept ==
  \A c \in StartCalls :
    process = c /\ turnSession = None =>
      \E t \in TurnCalls : At(t, "failed") /\ (turn[t].attempt = c \/ t \in early)
=============================================================================
