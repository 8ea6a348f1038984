---------------------------- MODULE ProcessRunner ----------------------------
(***************************************************************************)
(* process-runner.ts: runs of one ProcessRunner, each with one process, a  *)
(* timer, a limit of output and two abort signals (of the caller, and of   *)
(* the runner's dispose), and one result.                                  *)
(*                                                                         *)
(* A process that exits has not closed its output yet: only 'close' ends   *)
(* a run.  A signal may fail, which the process reports as an error.       *)
(***************************************************************************)
CONSTANTS
  RunnerCalls,   \* calls of run, each made once
  None

VARIABLES
  run,           \* per call: its result (None until settled) and first failure
  proc,          \* per call: its process
  asked,         \* per call: the signals it was sent, and the escalation timer
  children,      \* the runner's set of processes
  disposed

runnerVars == <<run, proc, asked, children, disposed>>

Failures == {"timed-out", "cancelled", "output-limit"}

Init ==
  /\ run = [c \in RunnerCalls |-> [open |-> FALSE, failure |-> None, result |-> None]]
  /\ proc = [c \in RunnerCalls |-> "none"]
  /\ asked = [c \in RunnerCalls |-> "none"]
  /\ children = {}
  /\ disposed = FALSE

Settle(c, r) ==
  /\ run' = [run EXCEPT ![c].open = FALSE, ![c].result = r]
  /\ children' = children \ {c}

\* A process that has exited is not signalled.  The escalation is armed whether
\* the signal could be sent or not.
Terminated(cs) ==
  [c \in RunnerCalls |->
     IF c \in cs /\ proc[c] = "running" /\ asked[c] = "none" THEN "term"
     ELSE asked[c]]

MarkFailure_KeepsProcess(cs, f) ==
  /\ run' = [c \in RunnerCalls |->
               IF c \in cs /\ run[c].failure = None
               THEN [run[c] EXCEPT !.failure = f] ELSE run[c]]
  /\ UNCHANGED asked

\* The failure a run is marked with is the first one.
MarkFailure(cs, f) ==
  /\ run' = [c \in RunnerCalls |->
               IF c \in cs /\ run[c].failure = None
               THEN [run[c] EXCEPT !.failure = f] ELSE run[c]]
  /\ asked' = Terminated(cs)

-----------------------------------------------------------------------------

\* A disposed runner rejects the call; a signal that is already aborted cancels
\* it; a spawn that throws fails it.
Run(c) ==
  /\ run[c] = [open |-> FALSE, failure |-> None, result |-> None]
  /\ UNCHANGED <<asked, disposed>>
  /\ \/ /\ ~disposed
        /\ run' = [run EXCEPT ![c].open = TRUE]
        /\ proc' = [proc EXCEPT ![c] = "running"]
        /\ children' = children \cup {c}
     \/ /\ \E r \in IF disposed THEN {"rejected"} ELSE {"cancelled", "spawn-failed"} :
             run' = [run EXCEPT ![c].result = r]
        /\ UNCHANGED <<proc, children>>

\* The timer, the caller's signal, or output beyond the limit.
Fail(c, f) ==
  /\ run[c].open
  /\ MarkFailure({c}, f)
  /\ UNCHANGED <<proc, children, disposed>>

\* 'error': the process could not start, or could not be signalled.
Error(c) ==
  /\ run[c].open
  /\ \/ proc[c] = "running" /\ asked[c] = "none" /\ proc' = [proc EXCEPT ![c] = "closed"]
     \/ proc[c] = "running" /\ asked[c] # "none" /\ UNCHANGED proc
  /\ Settle(c, IF run[c].failure # None THEN run[c].failure ELSE "spawn-failed")
  /\ UNCHANGED <<asked, disposed>>

\* The escalation, PROCESS_TERMINATION_GRACE_MS after the first signal.
Escalate(c) ==
  /\ asked[c] = "term"
  /\ proc[c] # "closed"
  /\ asked' = [asked EXCEPT ![c] = "kill"]
  /\ UNCHANGED <<run, proc, children, disposed>>

Exit(c) ==
  /\ proc[c] = "running"
  /\ proc' = [proc EXCEPT ![c] = "exited"]
  /\ UNCHANGED <<run, asked, children, disposed>>

Close(c) ==
  /\ proc[c] = "exited"
  /\ proc' = [proc EXCEPT ![c] = "closed"]
  /\ IF run[c].open
     THEN Settle(c, IF run[c].failure # None THEN run[c].failure ELSE "completed")
     ELSE UNCHANGED <<run, children>>
  /\ UNCHANGED <<asked, disposed>>

Dispose ==
  /\ ~disposed
  /\ disposed' = TRUE
  /\ MarkFailure({c \in RunnerCalls : run[c].open}, "cancelled")
  /\ children' = {}
  /\ UNCHANGED proc

Next ==
  \/ Dispose
  \/ \E c \in RunnerCalls :
       \/ Run(c) \/ Error(c) \/ Escalate(c) \/ Exit(c) \/ Close(c)
       \/ \E f \in Failures : Fail(c, f)

\* The timers fire, a process that was killed exits, and the output of one that
\* has exited is closed, which a descendant that inherited it delays.
Progress(c) ==
  \/ run[c].failure = None /\ Fail(c, "timed-out")
  \/ Escalate(c)
  \/ asked[c] = "kill" /\ Exit(c)
  \/ Close(c)

Spec == Init /\ [][Next]_runnerVars /\ \A c \in RunnerCalls : WF_runnerVars(Progress(c))

-----------------------------------------------------------------------------

Unfinished(c) == run[c].open

TypeOK ==
  /\ run \in [RunnerCalls -> [open : BOOLEAN, failure : Failures \cup {None},
                result : Failures \cup {"completed", "spawn-failed", "rejected", None}]]
  /\ proc \in [RunnerCalls -> {"none", "running", "exited", "closed"}]
  /\ asked \in [RunnerCalls -> {"none", "term", "kill"}]
  /\ children \subseteq RunnerCalls

\* A process that runs belongs to a run that is still open, which a dispose can
\* reach, or has been asked to end and will be killed.
NoRunnerProcessLeft ==
  \A c \in RunnerCalls :
    proc[c] = "running" => asked[c] # "none" \/ (run[c].open /\ c \in children)
=============================================================================
