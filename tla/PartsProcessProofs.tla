-------------------------- MODULE PartsProcessProofs ------------------------
(***************************************************************************)
(* The parts that start processes and hand work to terminals, for any sets *)
(* of calls.  A behaviour of Parts is a behaviour of the part it chose, so *)
(* that each part has an inductive invariant of its own, and an Inv of     *)
(* Parts holds since it holds in every part it speaks of.                  *)
(*                                                                         *)
(* What the invariants add to the properties is mostly who owns a process, *)
(* a slot or a place in a queue while a handler is between two of its      *)
(* steps, which is when another one may take it over.                      *)
(***************************************************************************)
EXTENDS Parts, FiniteSetTheorems, FunctionTheorems, SequenceTheorems, TLAPS

-----------------------------------------------------------------------------
(* What the parts have in common *)

LEMMA PartStays == [Next]_partVars => part' = part
  BY DEF Next, Frame, partVars

-----------------------------------------------------------------------------
(* process-runner.ts *)

LEMMA RunnerMoves ==
  ASSUME [Next]_partVars, part = "runner"
  PROVE  [Runner!Next]_runnerVars
  BY DEF Next, partVars, runnerVars

RunnerInv == Runner!TypeOK /\ Runner!NoRunnerProcessLeft

LEMMA RunnerInitially == Runner!Init => RunnerInv
  BY DEF RunnerInv, Runner!Init, Runner!TypeOK, Runner!NoRunnerProcessLeft

LEMMA RunnerStep == RunnerInv /\ [Runner!Next]_runnerVars => RunnerInv'
<1> SUFFICES ASSUME RunnerInv, [Runner!Next]_runnerVars PROVE RunnerInv'
  OBVIOUS
<1> USE DEF RunnerInv, Runner!TypeOK, Runner!NoRunnerProcessLeft
<1>1. CASE Runner!Dispose
  BY <1>1 DEF Runner!Dispose, Runner!MarkFailure, Runner!Terminated, Runner!Failures
<1>2. ASSUME NEW c \in RunnerCalls, Runner!Run(c) PROVE RunnerInv'
  <2>1. CASE /\ run' = [run EXCEPT ![c].open = TRUE]
             /\ proc' = [proc EXCEPT ![c] = "running"]
             /\ children' = children \cup {c}
    BY <1>2, <2>1 DEF Runner!Run
  <2>2. ASSUME NEW r \in {"rejected", "cancelled", "spawn-failed"},
               run' = [run EXCEPT ![c].result = r], UNCHANGED <<proc, children>>
        PROVE  RunnerInv'
    BY <1>2, <2>2 DEF Runner!Run, Runner!Failures
  <2>3. QED BY <1>2, <2>1, <2>2 DEF Runner!Run
<1>3. ASSUME NEW c \in RunnerCalls, Runner!Error(c) PROVE RunnerInv'
  BY <1>3 DEF Runner!Error, Runner!Settle
<1>4. ASSUME NEW c \in RunnerCalls, Runner!Escalate(c) \/ Runner!Exit(c) PROVE RunnerInv'
  BY <1>4 DEF Runner!Escalate, Runner!Exit
<1>5. ASSUME NEW c \in RunnerCalls, Runner!Close(c) PROVE RunnerInv'
  <2>1. CASE run[c].open
    <3>1. PICK r : Runner!Settle(c, r) /\ r \in Runner!Failures \cup {"completed"}
      BY <1>5, <2>1 DEF Runner!Close
    <3>2. Runner!TypeOK'
      <4>1. proc' = [proc EXCEPT ![c] = "closed"] /\ UNCHANGED asked
        BY <1>5 DEF Runner!Close
      <4>2. QED BY <3>1, <4>1 DEF Runner!Settle
    <3>3. Runner!NoRunnerProcessLeft' BY <1>5, <3>1 DEF Runner!Close, Runner!Settle
    <3>4. QED BY <3>2, <3>3
  <2>2. CASE ~run[c].open
    BY <1>5, <2>2 DEF Runner!Close
  <2>3. QED BY <2>1, <2>2
<1>6. ASSUME NEW c \in RunnerCalls, NEW f \in Runner!Failures, Runner!Fail(c, f) PROVE RunnerInv'
  BY <1>6 DEF Runner!Fail, Runner!MarkFailure, Runner!Terminated
<1>7. CASE UNCHANGED runnerVars
  BY <1>7 DEF runnerVars
<1>8. QED BY <1>1, <1>2, <1>3, <1>4, <1>5, <1>6, <1>7 DEF Runner!Next

\* A process that runs belongs to a run that is open and can be disposed of, or has
\* been asked to end.
THEOREM RunnerSafe == Spec => [](part = "runner" => RunnerInv)
<1>1. Init => (part = "runner" => RunnerInv)
  BY RunnerInitially DEF Init
<1>2. (part = "runner" => RunnerInv) /\ [Next]_partVars => (part = "runner" => RunnerInv)'
  BY RunnerMoves, RunnerStep, PartStays
<1>3. QED BY <1>1, <1>2, PTL DEF Spec

-----------------------------------------------------------------------------
(* bridge-headless.ts, and before-quit of index.ts *)

Ending == {"running", "aborting", "expiring"}
Ended == {"over", "givenUp"}

HeadlessTypeOK ==
  /\ turn \in [Turns -> {"new", "preparing"} \cup Ending \cup Ended]
  /\ tree \in [Turns -> {"none", "alive", "dead"}]
  /\ finalizer \in [Turns -> {"none", "due", "running", "done", "late"}]
  /\ write \in [Turns -> {"none", "pending", "done", "late"}]
  /\ active \subseteq Turns /\ drained \subseteq Turns
  /\ quit \in {"no", "runs", "finalizers", "writes", "stopped"}
  /\ timedOut \in BOOLEAN

\* What is active has not ended; a finalizer that is due is that of such a turn;
\* and only what the stop of the server overtook is late.
ActiveTurns ==
  /\ \A t \in active : turn[t] \in Ending
  /\ \A t \in Turns : turn[t] \in Ending => t \in active
  /\ \A t \in Turns : finalizer[t] = "due" => turn[t] \in Ending
  /\ quit # "stopped" => \A t \in Turns : finalizer[t] # "late" /\ write[t] # "late"

\* What each drain has achieved for a turn that was active when the quit began.
Drains(t) ==
  /\ quit # "no" /\ turn[t] \in {"aborting", "expiring"} \cup Ended
  /\ quit \in {"runs", "writes"} => t \in waiting
  /\ ~timedOut =>
       /\ quit # "runs" => turn[t] \in Ended
       /\ quit = "finalizers" => finalizer[t] # "running" \/ t \in waiting
       /\ quit \in {"writes", "stopped"} => finalizer[t] \in {"none", "done"}
       /\ quit = "stopped" => write[t] \in {"none", "done"}

HeadlessInv ==
  /\ HeadlessTypeOK /\ ActiveTurns /\ Headless!NoHeadlessProcessLeft
  /\ \A t \in drained : Drains(t)

LEMMA HeadlessMoves ==
  ASSUME [Next]_partVars, part = "headless"
  PROVE  [Headless!Next]_headlessVars
  BY DEF Next, partVars, headlessVars

LEMMA HeadlessInitially == Headless!Init => HeadlessInv
  BY DEF HeadlessInv, HeadlessTypeOK, ActiveTurns, Headless!NoHeadlessProcessLeft, Drains,
         Headless!Init, Ending, Ended

\* A step of a turn leaves the quit where it is.
LEMMA HeadlessTurnStep ==
  ASSUME HeadlessInv, NEW t \in Turns,
         \/ Headless!Request(t) \/ Headless!Unprepared(t) \/ Headless!Spawn(t)
         \/ Headless!Closed(t) \/ Headless!Abort(t) \/ Headless!Timeout(t)
         \/ Headless!Killed(t) \/ Headless!Finalized(t) \/ Headless!Written(t)
  PROVE  HeadlessInv'
<1> USE DEF HeadlessInv, HeadlessTypeOK, ActiveTurns, Headless!NoHeadlessProcessLeft, Drains,
            Ending, Ended, Headless!quitting, Headless!ServerRuns
<1>1. CASE Headless!Request(t) \/ Headless!Abort(t) \/ Headless!Timeout(t)
  BY <1>1 DEF Headless!Request, Headless!Abort, Headless!Timeout
<1>2. CASE Headless!Unprepared(t)
  BY <1>2 DEF Headless!Unprepared
<1>3. CASE Headless!Spawn(t)
  BY <1>3 DEF Headless!Spawn
<1>4. CASE Headless!Closed(t)
  <2>1. CASE turn[t] = "running"
    BY <1>4, <2>1 DEF Headless!Closed, Headless!End
  <2>2. CASE turn[t] # "running"
    BY <1>4, <2>2 DEF Headless!Closed
  <2>3. QED BY <2>1, <2>2
<1>5. CASE Headless!Killed(t)
  BY <1>5 DEF Headless!Killed, Headless!End
<1>6. CASE Headless!Finalized(t) \/ Headless!Written(t)
  BY <1>6 DEF Headless!Finalized, Headless!Written
<1>7. QED BY <1>1, <1>2, <1>3, <1>4, <1>5, <1>6

LEMMA HeadlessQuitStep ==
  ASSUME HeadlessInv,
         \/ Headless!Quit \/ Headless!RunsDrained
         \/ Headless!FinalizersDrained \/ Headless!WritesDrained
  PROVE  HeadlessInv'
<1> USE DEF HeadlessInv, HeadlessTypeOK, ActiveTurns, Headless!NoHeadlessProcessLeft, Drains,
            Ending, Ended, Headless!Finalizing, Headless!Writing
<1>1. CASE Headless!Quit
  BY <1>1 DEF Headless!Quit
<1>2. CASE Headless!RunsDrained
  BY <1>2 DEF Headless!RunsDrained, Headless!DrainEnds
<1>3. CASE Headless!FinalizersDrained
  BY <1>3 DEF Headless!FinalizersDrained, Headless!DrainEnds
<1>4. CASE Headless!WritesDrained
  BY <1>4 DEF Headless!WritesDrained, Headless!DrainEnds
<1>5. QED BY <1>1, <1>2, <1>3, <1>4

LEMMA HeadlessStep == HeadlessInv /\ [Headless!Next]_headlessVars => HeadlessInv'
<1>1. ASSUME HeadlessInv, UNCHANGED headlessVars PROVE HeadlessInv'
  BY <1>1 DEF HeadlessInv, HeadlessTypeOK, ActiveTurns, Headless!NoHeadlessProcessLeft, Drains,
              headlessVars
<1>2. QED BY <1>1, HeadlessTurnStep, HeadlessQuitStep DEF Headless!Next

\* A headless turn that is over leaves a process behind only if that was told to end;
\* the quit stops the memory server after the turns and their finalizers.
THEOREM HeadlessSafe == Spec => [](part = "headless" => HeadlessInv)
<1>1. Init => (part = "headless" => HeadlessInv)
  BY HeadlessInitially DEF Init
<1>2. (part = "headless" => HeadlessInv) /\ [Next]_partVars => (part = "headless" => HeadlessInv)'
  BY HeadlessMoves, HeadlessStep, PartStays
<1>3. QED BY <1>1, <1>2, PTL DEF Spec

LEMMA HeadlessDrains == HeadlessInv => Headless!QuitDrains
  BY DEF HeadlessInv, HeadlessTypeOK, Drains, Headless!QuitDrains, Ended

-----------------------------------------------------------------------------
(* ai-memory-service.ts *)

MemoryTypeOK ==
  /\ generation \in Nat
  /\ starting \in [at : {"none", "probing", "finding", "verifying"}, gen : Nat]
             \cup [at : {"waiting", "verifying"}, gen : Nat, pid : Pids]
  /\ starting.at = "none" => starting = Memory!NoStart
  /\ DOMAIN recon = Reconfigs /\ alive \subseteq Pids

\* Everything that was spawned has been asked to end, or has ended.
AllTold == alive \subseteq told

\* A start spawns a process when none is left: it is made in a state in which
\* the controller has none, or has asked the one it had to end.
OneServer ==
  /\ starting.at \in {"probing", "finding"} => AllTold
  /\ starting.at = "waiting" => AllTold \/ child = starting.pid
  /\ starting.at \in {"none", "verifying"} => AllTold \/ state \in {"running", "degraded"}
  /\ ~booted => alive = {} /\ starting = Memory!NoStart /\ \A r \in Reconfigs : recon[r].at = "new"

MemoryInv == MemoryTypeOK /\ OneServer /\ Memory!NoProcessLeft

LEMMA MemoryMoves ==
  ASSUME [Next]_partVars, part = "memory"
  PROVE  [Memory!Next]_serviceVars
  BY DEF Next, partVars, serviceVars

LEMMA MemoryInitially == Memory!Init => MemoryInv
  BY DEF MemoryInv, MemoryTypeOK, OneServer, AllTold, Memory!NoProcessLeft, Memory!Init,
         Memory!NoStart

\* The process the controller knows is asked to end, and it was the last.
LEMMA StopOwnChildLemma ==
  ASSUME MemoryInv, Memory!StopOwnChild
  PROVE  AllTold' /\ Memory!NoProcessLeft' /\ UNCHANGED alive
  BY PidsAssumption
  DEF MemoryInv, MemoryTypeOK, Memory!NoProcessLeft, AllTold, Memory!StopOwnChild

\* What a step of a start may find, and leaves.
LEMMA StartStepLemma == MemoryInv /\ Memory!StartStep => MemoryInv'
<1> SUFFICES ASSUME MemoryInv, Memory!StartStep PROVE MemoryInv'
  OBVIOUS
<1> USE DEF MemoryInv, MemoryTypeOK, OneServer, AllTold, Memory!NoProcessLeft, Memory!NoStart,
            Memory!Service, Memory!process, Memory!service
<1>1. CASE Memory!ProbeEnds
  BY <1>1 DEF Memory!ProbeEnds
<1>2. CASE Memory!NoBinary
  BY <1>2 DEF Memory!NoBinary
<1>3. CASE Memory!FindFails
  BY <1>3, StopOwnChildLemma DEF Memory!FindFails
<1>4. CASE Memory!Found
  BY <1>4 DEF Memory!Found
<1>5. CASE Memory!WaitEnds
  <2>1. CASE Memory!Stale /\ child = starting.pid /\ Memory!StopOwnChild
    BY <1>5, <2>1, StopOwnChildLemma DEF Memory!WaitEnds
  <2>2. CASE Memory!Stale /\ child # starting.pid
    BY <1>5, <2>2 DEF Memory!WaitEnds
  <2>3. CASE ~Memory!Stale /\ starting' = Memory!NoStart /\ Memory!StopOwnChild
    BY <1>5, <2>3, StopOwnChildLemma DEF Memory!WaitEnds
  <2>4. CASE ~Memory!Stale /\ starting' # Memory!NoStart
    BY <1>5, <2>4 DEF Memory!WaitEnds
  <2>5. QED BY <1>5, <2>1, <2>2, <2>3, <2>4 DEF Memory!WaitEnds
<1>6. CASE Memory!VerifyEnds
  BY <1>6 DEF Memory!VerifyEnds
<1>7. QED BY <1>1, <1>2, <1>3, <1>4, <1>5, <1>6 DEF Memory!StartStep

\* The decision of a reconfiguration: it ends the process it has, or starts one
\* only if there is none to verify.
LEMMA DecideLemma ==
  ASSUME MemoryInv, NEW r \in Reconfigs, NEW gen \in Nat, NEW switch, booted,
         UNCHANGED booted, Memory!Decide(r, gen, switch)
  PROVE  MemoryInv'
<1> USE DEF MemoryInv, MemoryTypeOK, OneServer, AllTold, Memory!NoProcessLeft, Memory!NoStart,
            Memory!Service, Memory!Becomes, Memory!process, Memory!service, Memory!Decide
<1>1. CASE ~switch \/ ~config'.projects
  BY <1>1, StopOwnChildLemma
<1>2. CASE switch /\ config'.projects /\ state \in {"running", "degraded"}
  BY <1>2
<1>3. CASE switch /\ config'.projects /\ state \notin {"running", "degraded"}
  BY <1>3 DEF Memory!StartService
<1>4. QED BY <1>1, <1>2, <1>3

LEMMA ReconfigureLemma ==
  ASSUME MemoryInv, NEW r \in Reconfigs, Memory!Reconfigure(r) \/ Memory!ReconfigStep(r)
  PROVE  MemoryInv'
<1>1. CASE Memory!Reconfigure(r)
  <2>1. generation + 1 \in Nat BY DEF MemoryInv, MemoryTypeOK
  <2>2. booted /\ UNCHANGED booted BY <1>1 DEF Memory!Reconfigure
  <2>3. CASE Memory!Decide(r, generation + 1, config'.switch)
    BY <2>1, <2>2, <2>3, DecideLemma
  <2>4. CASE ~Memory!Decide(r, generation + 1, config'.switch)
    BY <1>1, <2>1, <2>2, <2>4
    DEF Memory!Reconfigure, MemoryInv, MemoryTypeOK, OneServer, AllTold, Memory!NoProcessLeft,
        Memory!process, Memory!service
  <2>5. QED BY <2>3, <2>4
<1>2. CASE Memory!Awaited(r) \/ Memory!OptedOut(r)
  <2>1. generation \in Nat BY DEF MemoryInv, MemoryTypeOK
  <2>2. booted /\ UNCHANGED booted
    BY <1>2 DEF Memory!Awaited, Memory!OptedOut, MemoryInv, OneServer
  <2>3. CASE Memory!Decide(r, generation, recon[r].switch)
    BY <2>1, <2>2, <2>3, DecideLemma
  <2>4. CASE ~Memory!Decide(r, generation, recon[r].switch)
    BY <1>2, <2>2, <2>4
    DEF Memory!Awaited, Memory!OptedOut, Memory!Becomes, MemoryInv, MemoryTypeOK, OneServer,
        AllTold, Memory!NoProcessLeft, Memory!process, Memory!service
  <2>5. QED BY <2>3, <2>4
<1>3. CASE Memory!OptOutFails(r) \/ Memory!Reverified(r)
  <2>1. booted
    BY <1>3 DEF Memory!OptOutFails, Memory!Reverified, MemoryInv, OneServer
  <2>2. QED
    BY <1>3, <2>1
    DEF Memory!OptOutFails, Memory!Reverified, Memory!Becomes, Memory!Service, MemoryInv,
        MemoryTypeOK, OneServer, AllTold, Memory!NoProcessLeft, Memory!process, Memory!service
<1>4. QED BY <1>1, <1>2, <1>3 DEF Memory!ReconfigStep

LEMMA MemoryStep == MemoryInv /\ [Memory!Next]_serviceVars => MemoryInv'
<1> SUFFICES ASSUME MemoryInv, [Memory!Next]_serviceVars PROVE MemoryInv'
  OBVIOUS
<1> USE DEF MemoryInv, MemoryTypeOK, OneServer, AllTold, Memory!NoProcessLeft, Memory!Service,
            Memory!process, Memory!service
<1>1. CASE Memory!Boot
  BY <1>1 DEF Memory!Boot, Memory!StartService, Memory!NoStart
<1>2. CASE Memory!Stop
  BY <1>2, StopOwnChildLemma DEF Memory!Stop
<1>3. ASSUME NEW h \in Polls, Memory!Poll(h) \/ Memory!PollEnds(h) PROVE MemoryInv'
  BY <1>3 DEF Memory!Poll, Memory!PollEnds
<1>4. ASSUME NEW pid \in Pids, Memory!Exit(pid) PROVE MemoryInv'
  BY <1>4 DEF Memory!Exit
<1>5. CASE UNCHANGED serviceVars
  BY <1>5 DEF serviceVars
<1>6. QED BY <1>1, <1>2, <1>3, <1>4, <1>5, StartStepLemma, ReconfigureLemma DEF Memory!Next

\* Every process of the memory server is the one the service knows of, or was told to
\* end.
THEOREM MemorySafe == Spec => [](part = "memory" => MemoryInv)
<1>1. Init => (part = "memory" => MemoryInv)
  BY MemoryInitially DEF Init
<1>2. (part = "memory" => MemoryInv) /\ [Next]_partVars => (part = "memory" => MemoryInv)'
  BY MemoryMoves, MemoryStep, PartStays
<1>3. QED BY <1>1, <1>2, PTL DEF Spec

-----------------------------------------------------------------------------
(* codex-auth.ts *)

LoginPlaces ==
  [at : {"idle", "preparing", "browser", "starting", "resolved", "rejected"}, generation : Nat]
LoginSessions ==
  [startupSettled : BOOLEAN, cancelled : BOOLEAN, finished : BOOLEAN, timer : BOOLEAN,
   verifying : BOOLEAN]
LoginOutcomes == Seq({"cancelled", "error", "success"})

LoginTypeOK ==
  /\ loginGeneration \in Nat
  /\ login \in Starts \cup {None}
  /\ loginStart \in [Starts -> LoginPlaces]
  /\ loginChild \in [Starts -> {"none", "spawning", "running", "gone"}]
  /\ loginState \in [Starts -> LoginSessions]
  /\ loginTold \in [Starts -> LoginOutcomes]

LoginAnswered(c) == loginStart[c].at \in {"resolved", "rejected"}

\* Every start has a generation of its own; a start that looks for the browser
\* and was not overtaken has the current one, and so has the active session,
\* unless it is an orphan.
Generations ==
  /\ \A c \in Starts : loginStart[c].at # "idle" => loginStart[c].generation \in 1 .. loginGeneration
  /\ \A c \in Starts : loginStart[c].at = "idle" => loginStart[c].generation = 0
  /\ \A c, d \in Starts :
       loginStart[c].at # "idle" /\ loginStart[c].generation = loginStart[d].generation => c = d
  /\ \A c \in Starts \ overtaken :
       loginStart[c].at = "browser" => loginStart[c].generation = loginGeneration
  /\ login # None =>
       /\ login \in orphans \/ loginStart[login].generation = loginGeneration
       /\ loginStart[login].at \in {"starting", "resolved", "rejected"}

\* Only a start that found the browser has a process and a timer; a startup that is settled has answered its call; and what is verified has not
\* been told yet.
Settles(c) ==
  /\ loginStart[c].at \in {"idle", "preparing", "browser"} => loginChild[c] = "none" /\ ~loginState[c].timer
  /\ loginState[c].startupSettled => LoginAnswered(c)
  /\ loginChild[c] = "running" => loginState[c].startupSettled
  /\ loginState[c].verifying => LoginAnswered(c) /\ login # c /\ loginTold[c] = <<>>

LoginInv ==
  /\ LoginTypeOK /\ Generations /\ \A c \in Starts : Settles(c)
  /\ Login!NoLoginLeft /\ Login!OneOutcome

LEMMA LoginMoves ==
  ASSUME [Next]_partVars, part = "login"
  PROVE  [Login!Next]_loginVars
  BY DEF Next, partVars, loginVars

LEMMA LoginInitially == Login!Init => LoginInv
  BY LoginAssumption
  DEF LoginInv, LoginTypeOK, LoginPlaces, LoginSessions, LoginOutcomes, Generations, Settles,
      Login!NoLoginLeft, Login!OneOutcome, Login!Init, Login!NoSession

\* The first outcome of a login is the only one.
LEMMA TellLemma ==
  ASSUME LoginTypeOK, NEW c \in Starts, NEW outcome \in {"cancelled", "error", "success"},
         loginTold[c] = <<>>, Login!Tell(c, outcome)
  PROVE  /\ loginTold' \in [Starts -> LoginOutcomes]
         /\ Len(loginTold'[c]) = 1
         /\ \A d \in Starts \ {c} : loginTold'[d] = loginTold[d]
  BY DEF LoginTypeOK, LoginOutcomes, Login!Tell

\* A newer start, or a cancel, ends the active session; `start' is what it leaves
\* of the calls of start.
LEMMA InvalidateLemma ==
  ASSUME LoginInv, Login!Invalidate
  PROVE  /\ login' = None /\ loginGeneration' = loginGeneration + 1
         /\ UNCHANGED <<loginChild, orphans>>
         /\ loginState' \in [Starts -> LoginSessions]
         /\ loginTold' \in [Starts -> LoginOutcomes]
         /\ \A c \in Starts \ {login} : loginState'[c] = loginState[c] /\ loginTold'[c] = loginTold[c]
         /\ \A c \in Starts : loginState'[c].verifying = loginState[c].verifying
         /\ login \in Starts => Len(loginTold'[login]) <= 1 /\ loginState'[login].startupSettled
         /\ killed \subseteq killed' /\ (login \in Starts => login \in killed')
         /\ \A c \in Starts : loginStart[c].at = "browser" => c \in overtaken'
         /\ overtaken \subseteq overtaken'
<1>1. CASE login = None
  BY <1>1, LoginAssumption DEF LoginInv, LoginTypeOK, Login!Invalidate, Login!CancelSession
<1>2. ASSUME NEW a \in Starts, login = a
      PROVE  /\ login' = None /\ loginGeneration' = loginGeneration + 1
             /\ UNCHANGED <<loginChild, orphans>>
             /\ loginState' \in [Starts -> LoginSessions] /\ loginTold' \in [Starts -> LoginOutcomes]
             /\ \A c \in Starts \ {a} : loginState'[c] = loginState[c] /\ loginTold'[c] = loginTold[c]
             /\ loginState'[a].verifying = loginState[a].verifying
             /\ Len(loginTold'[a]) <= 1 /\ loginState'[a].startupSettled
             /\ killed' = killed \cup {a}
             /\ overtaken' = overtaken \cup {c \in Starts : loginStart[c].at = "browser"}
  <2>1. /\ login' = None /\ loginGeneration' = loginGeneration + 1
        /\ UNCHANGED <<loginChild, orphans>>
        /\ killed' = killed \cup {a}
        /\ overtaken' = overtaken \cup {c \in Starts : loginStart[c].at = "browser"}
        /\ loginState' = [loginState EXCEPT
             ![a].startupSettled = TRUE, ![a].cancelled = TRUE,
             ![a].finished = TRUE, ![a].timer = FALSE]
        /\ UNCHANGED loginTold \/ Login!Tell(a, "cancelled")
    BY <1>2, LoginAssumption DEF Login!Invalidate, Login!CancelSession
  <2>2. /\ loginTold' \in [Starts -> LoginOutcomes] /\ Len(loginTold'[a]) <= 1
        /\ \A c \in Starts \ {a} : loginTold'[c] = loginTold[c]
    <3>1. loginTold[a] = <<>>
      BY <1>2 DEF LoginInv, Login!OneOutcome
    <3>2. CASE UNCHANGED loginTold
      BY <3>1, <3>2 DEF LoginInv, LoginTypeOK
    <3>3. CASE Login!Tell(a, "cancelled")
      <4>1. LoginTypeOK BY DEF LoginInv
      <4>2. "cancelled" \in {"cancelled", "error", "success"} OBVIOUS
      <4>3. loginTold' \in [Starts -> LoginOutcomes]
        BY <3>1, <3>3, <4>1, <4>2, TellLemma
      <4>4. Len(loginTold'[a]) = 1
        BY <3>1, <3>3, <4>1, <4>2, TellLemma
      <4>5. QED BY <3>1, <3>3, <4>1, <4>2, <4>3, <4>4, TellLemma
    <3>4. QED BY <2>1, <3>2, <3>3
  <2>3. loginState[a] \in LoginSessions /\ loginState \in [Starts -> LoginSessions]
    BY DEF LoginInv, LoginTypeOK
  <2>4. /\ loginState' \in [Starts -> LoginSessions]
        /\ \A c \in Starts \ {a} : loginState'[c] = loginState[c]
        /\ loginState'[a].startupSettled /\ loginState'[a].verifying = loginState[a].verifying
    BY <2>1, <2>3 DEF LoginSessions
  <2>5. QED BY <2>1, <2>2, <2>4
<1>3. QED BY <1>1, <1>2 DEF LoginInv, LoginTypeOK

LEMMA SettledLemma ==
  ASSUME LoginInv
  PROVE  /\ Login!Settled \in [Starts -> LoginPlaces]
         /\ \A c \in Starts :
              /\ Login!Settled[c].generation = loginStart[c].generation
              /\ c = login => Login!Settled[c].at \in {"resolved", "rejected"}
              /\ c # login => Login!Settled[c] = loginStart[c]
              /\ Login!Settled[c].at = "idle" <=> loginStart[c].at = "idle"
              /\ Login!Settled[c].at = "browser" <=> loginStart[c].at = "browser"
<1>1. ASSUME NEW c \in Starts
      PROVE  /\ Login!Settled[c] \in LoginPlaces /\ Login!Settled[c].generation = loginStart[c].generation
             /\ c = login => Login!Settled[c].at \in {"resolved", "rejected"}
             /\ c # login => Login!Settled[c] = loginStart[c]
             /\ Login!Settled[c].at = "idle" <=> loginStart[c].at = "idle"
             /\ Login!Settled[c].at = "browser" <=> loginStart[c].at = "browser"
  <2>1. loginStart[c] \in LoginPlaces BY DEF LoginInv, LoginTypeOK
  <2>2. c = login => loginStart[c].at \in {"starting", "resolved", "rejected"}
    BY LoginAssumption DEF LoginInv, Generations
  <2>3. QED BY <2>1, <2>2 DEF Login!Settled, LoginPlaces
<1>2. Login!Settled \in [Starts -> LoginPlaces] BY <1>1 DEF Login!Settled
<1>3. QED BY <1>1, <1>2

LEMMA StartLemma ==
  ASSUME LoginInv, NEW c \in Starts, Login!Start(c)
  PROVE  LoginInv'
<1>1. /\ loginStart' = [Login!Settled EXCEPT ![c] = [at |-> "preparing", generation |-> loginGeneration + 1]]
      /\ loginStart[c].at = "idle" /\ login # c
  BY LoginAssumption DEF Login!Start, LoginInv, Generations
<1>2. LoginTypeOK'
  <2>1. Login!Invalidate
    BY DEF Login!Start
  <2>2. /\ login' = None /\ loginGeneration' = loginGeneration + 1 /\ loginChild' = loginChild
        /\ loginState' \in [Starts -> LoginSessions] /\ loginTold' \in [Starts -> LoginOutcomes]
    BY <2>1, InvalidateLemma
  <2>3. loginGeneration \in Nat /\ loginChild' \in [Starts -> {"none", "spawning", "running", "gone"}]
    BY <2>2 DEF LoginInv, LoginTypeOK
  <2>4. [at |-> "preparing", generation |-> loginGeneration + 1] \in LoginPlaces
    BY <2>3 DEF LoginPlaces
  <2>5. Login!Settled \in [Starts -> LoginPlaces]
    BY SettledLemma
  <2>6. loginStart' \in [Starts -> LoginPlaces]
    BY <1>1, <2>4, <2>5
  <2>7. QED BY <2>2, <2>3, <2>6 DEF LoginTypeOK
<1>3. Generations'
  <2>1. /\ loginGeneration \in Nat /\ loginGeneration' = loginGeneration + 1 /\ login' = None
        /\ \A d \in Starts : loginStart[d].at = "browser" => d \in overtaken'
    BY InvalidateLemma DEF Login!Start, LoginInv, LoginTypeOK
  <2>2. loginStart'[c] = [at |-> "preparing", generation |-> loginGeneration + 1]
    BY <1>1, SettledLemma
  <2>3. ASSUME NEW d \in Starts \ {c}
        PROVE  /\ loginStart'[d].generation = loginStart[d].generation
               /\ loginStart'[d].at = "idle" <=> loginStart[d].at = "idle"
               /\ loginStart'[d].at = "browser" => loginStart[d].at = "browser"
               /\ loginStart[d].generation \in Nat
    <3>1. loginStart'[d] = Login!Settled[d]
      BY <1>1, SettledLemma
    <3>2. loginStart[d].generation \in Nat
      BY DEF LoginInv, LoginTypeOK, LoginPlaces
    <3>3. QED BY <3>1, <3>2, SettledLemma
  <2> USE DEF LoginInv, Generations
  <2>4. \A d \in Starts : loginStart'[d].at # "idle" => loginStart'[d].generation \in 1 .. loginGeneration'
    BY <2>1, <2>2, <2>3
  <2>5. ASSUME NEW d \in Starts, NEW e \in Starts, loginStart'[d].at # "idle",
               loginStart'[d].generation = loginStart'[e].generation
        PROVE  d = e
    <3>1. \A f \in Starts : loginStart[f].generation \in 0 .. loginGeneration
      BY <2>1
    <3>2. CASE d = c /\ e # c
      BY <2>1, <2>2, <2>3, <2>5, <3>1, <3>2
    <3>3. CASE d # c /\ e = c
      BY <2>1, <2>2, <2>3, <2>5, <3>1, <3>3
    <3>4. CASE d # c /\ e # c
      BY <2>3, <2>5, <3>4
    <3>5. QED BY <3>2, <3>3, <3>4
  <2>6. \A d \in Starts \ overtaken' : loginStart'[d].at # "browser"
    BY <2>1, <2>2, <2>3
  <2>7. \A d \in Starts : loginStart'[d].at = "idle" => loginStart'[d].generation = 0
    BY <2>2, <2>3
  <2>8. QED BY <2>1, <2>4, <2>5, <2>6, <2>7
<1>4. ASSUME NEW d \in Starts PROVE Settles(d)'
  BY <1>1, InvalidateLemma, SettledLemma, LoginAssumption
  DEF Login!Start, LoginInv, LoginTypeOK, Settles, LoginAnswered
<1>5. Login!NoLoginLeft'
  BY InvalidateLemma DEF Login!Start, LoginInv, Login!NoLoginLeft
<1>6. Login!OneOutcome'
  BY <1>1, InvalidateLemma, SettledLemma, LoginAssumption
  DEF Login!Start, LoginInv, LoginTypeOK, Login!OneOutcome
<1>7. QED BY <1>2, <1>3, <1>4, <1>5, <1>6 DEF LoginInv

LEMMA CancelLemma ==
  ASSUME LoginInv, NEW x \in Cancels, Login!Cancel(x)
  PROVE  LoginInv'
<1>1. loginStart' = Login!Settled
  BY DEF Login!Cancel
<1>2. LoginTypeOK'
  BY <1>1, InvalidateLemma, SettledLemma DEF Login!Cancel, LoginInv, LoginTypeOK
<1>3. Generations'
  <2>1. /\ loginGeneration \in Nat /\ loginGeneration' = loginGeneration + 1 /\ login' = None
        /\ \A d \in Starts : loginStart[d].at = "browser" => d \in overtaken'
    BY InvalidateLemma DEF Login!Cancel, LoginInv, LoginTypeOK
  <2>2. \A d \in Starts :
          /\ loginStart'[d].generation = loginStart[d].generation
          /\ loginStart'[d].at = "idle" <=> loginStart[d].at = "idle"
          /\ loginStart'[d].at = "browser" => loginStart[d].at = "browser"
    BY <1>1, SettledLemma
  <2>3. QED BY <2>1, <2>2 DEF LoginInv, Generations
<1>4. ASSUME NEW d \in Starts PROVE Settles(d)'
  BY <1>1, InvalidateLemma, SettledLemma, LoginAssumption
  DEF Login!Cancel, LoginInv, LoginTypeOK, Settles, LoginAnswered
<1>5. Login!NoLoginLeft'
  BY InvalidateLemma DEF Login!Cancel, LoginInv, Login!NoLoginLeft
<1>6. Login!OneOutcome'
  BY <1>1, InvalidateLemma, SettledLemma, LoginAssumption
  DEF Login!Cancel, LoginInv, LoginTypeOK, Login!OneOutcome
<1>7. QED BY <1>2, <1>3, <1>4, <1>5, <1>6 DEF LoginInv

\* The steps of a call of start up to its process.
LEMMA PrepareLemma ==
  ASSUME LoginInv, NEW c \in Starts,
         Login!Prepared(c) \/ Login!PreparationFails(c) \/ Login!BrowserMissing(c)
  PROVE  LoginInv'
<1>1. /\ loginTold[c] = <<>> /\ login # c /\ ~LoginAnswered(c)
      /\ loginStart[c].at \in {"preparing", "browser"}
  BY LoginAssumption
  DEF Login!Prepared, Login!PreparationFails, Login!BrowserMissing, LoginInv, Generations,
      Login!OneOutcome, LoginAnswered
<1>2. /\ UNCHANGED <<loginGeneration, overtaken, login, loginChild, killed, loginState, orphans>>
      /\ \/ /\ UNCHANGED loginTold
            /\ \/ Login!Goto(c, "rejected")
               \/ Login!Goto(c, "browser") /\ loginStart[c].generation = loginGeneration
         \/ \E o \in {"cancelled", "error"} : Login!Tell(c, o) /\ Login!Goto(c, "resolved")
  BY DEF Login!Prepared, Login!PreparationFails, Login!BrowserMissing, Login!shared
<1>3. /\ loginStart' \in [Starts -> LoginPlaces]
      /\ \A d \in Starts : loginStart'[d].generation = loginStart[d].generation
      /\ \A d \in Starts \ {c} : loginStart'[d] = loginStart[d]
      /\ \/ LoginAnswered(c)'
         \/ /\ loginStart'[c].at = "browser" /\ loginStart[c].generation = loginGeneration
            /\ UNCHANGED loginTold
  <2>1. loginStart \in [Starts -> LoginPlaces] /\ loginStart[c] \in LoginPlaces
    BY DEF LoginInv, LoginTypeOK
  <2>2. ASSUME NEW place \in {"rejected", "browser", "resolved"}, Login!Goto(c, place)
        PROVE  /\ loginStart' \in [Starts -> LoginPlaces]
               /\ \A d \in Starts : loginStart'[d].generation = loginStart[d].generation
               /\ \A d \in Starts \ {c} : loginStart'[d] = loginStart[d]
               /\ loginStart'[c].at = place
    BY <2>1, <2>2 DEF LoginPlaces, Login!Goto
  <2>3. CASE Login!Goto(c, "rejected")
    BY <2>2, <2>3 DEF LoginAnswered
  <2>4. CASE Login!Goto(c, "resolved")
    BY <2>2, <2>4 DEF LoginAnswered
  <2>5. CASE Login!Goto(c, "browser") /\ loginStart[c].generation = loginGeneration /\ UNCHANGED loginTold
    BY <2>2, <2>5
  <2>6. QED BY <1>2, <2>3, <2>4, <2>5
<1>4. /\ loginTold' \in [Starts -> LoginOutcomes] /\ Len(loginTold'[c]) <= 1
      /\ \A d \in Starts \ {c} : loginTold'[d] = loginTold[d]
  <2>1. CASE UNCHANGED loginTold
    BY <1>1, <2>1 DEF LoginInv, LoginTypeOK
  <2>2. ASSUME NEW o \in {"cancelled", "error"}, Login!Tell(c, o)
        PROVE  /\ loginTold' \in [Starts -> LoginOutcomes] /\ Len(loginTold'[c]) <= 1
               /\ \A d \in Starts \ {c} : loginTold'[d] = loginTold[d]
    <3>1. LoginTypeOK /\ o \in {"cancelled", "error", "success"}
      BY DEF LoginInv
    <3>2. loginTold' \in [Starts -> LoginOutcomes] /\ Len(loginTold'[c]) = 1
      BY <1>1, <2>2, <3>1, TellLemma
    <3>3. \A d \in Starts \ {c} : loginTold'[d] = loginTold[d]
      BY <1>1, <2>2, <3>1, TellLemma
    <3>4. QED BY <3>2, <3>3
  <2>3. QED BY <1>2, <2>1, <2>2
<1>5. LoginTypeOK'
  BY <1>2, <1>3, <1>4 DEF LoginInv, LoginTypeOK
<1>6. Generations'
  <2> USE DEF LoginInv, Generations
  <2>1. \A d \in Starts : loginStart[d].at # "idle" <=> loginStart'[d].at # "idle"
    BY <1>1, <1>3 DEF LoginAnswered
  <2>2. \A d \in Starts \ overtaken :
          loginStart'[d].at = "browser" => loginStart'[d].generation = loginGeneration
    BY <1>1, <1>3 DEF LoginAnswered
  <2>3. login # None => loginStart'[login] = loginStart[login]
    BY <1>1, <1>3 DEF LoginTypeOK
  <2>4. QED BY <1>2, <1>3, <2>1, <2>2, <2>3
<1>7. ASSUME NEW d \in Starts PROVE Settles(d)'
  BY <1>1, <1>2, <1>3, <1>4 DEF LoginInv, Settles, LoginAnswered
<1>8. Login!NoLoginLeft'
  BY <1>2 DEF LoginInv, Login!NoLoginLeft
<1>9. Login!OneOutcome'
  BY <1>1, <1>2, <1>3, <1>4 DEF LoginInv, LoginAnswered, Login!OneOutcome
<1>10. QED BY <1>5, <1>6, <1>7, <1>8, <1>9 DEF LoginInv

LEMMA SpawnLoginLemma ==
  ASSUME LoginInv, NEW c \in Starts, Login!SpawnLogin(c)
  PROVE  LoginInv'
<1>1. login # c /\ loginTold[c] = <<>> /\ ~LoginAnswered(c) /\ loginStart[c].at = "browser"
  BY LoginAssumption DEF Login!SpawnLogin, LoginInv, Generations, Login!OneOutcome, LoginAnswered
<1>2. c \in overtaken \/ login = None \/ login \in orphans
  BY <1>1 DEF LoginInv, LoginTypeOK, Generations
<1>3. LoginTypeOK'
  <2>1. loginStart' \in [Starts -> LoginPlaces]
    BY DEF Login!SpawnLogin, Login!Goto, LoginInv, LoginTypeOK, LoginPlaces
  <2>2. loginState' \in [Starts -> LoginSessions]
    BY DEF Login!SpawnLogin, LoginInv, LoginTypeOK, LoginSessions
  <2>3. QED BY <2>1, <2>2 DEF Login!SpawnLogin, Login!shared, LoginInv, LoginTypeOK
<1>4. Generations'
  BY <1>1, LoginAssumption
  DEF Login!SpawnLogin, Login!Goto, Login!shared, LoginInv, LoginTypeOK, Generations
<1>5. ASSUME NEW d \in Starts PROVE Settles(d)'
  BY <1>1 DEF Login!SpawnLogin, Login!Goto, LoginInv, LoginTypeOK, Settles, LoginAnswered
<1>6. Login!NoLoginLeft'
  BY <1>1, <1>2, LoginAssumption
  DEF Login!SpawnLogin, LoginInv, LoginTypeOK, Login!NoLoginLeft
<1>7. Login!OneOutcome'
  BY <1>1 DEF Login!SpawnLogin, Login!Goto, LoginInv, LoginTypeOK, Login!OneOutcome
<1>8. QED BY <1>3, <1>4, <1>5, <1>6, <1>7 DEF LoginInv

\* Events of the process, of its verification and of the timer: they leave the
\* generations alone, settle a startup with its call, and tell an outcome only
\* of the session they end, or verified.
LoginEvent(c, place) ==
  /\ loginStart[c].at \in {"starting", "resolved", "rejected"}
  /\ UNCHANGED <<loginGeneration, overtaken, orphans>>
  /\ loginChild' \in [Starts -> {"none", "spawning", "running", "gone"}]
  /\ loginState' \in [Starts -> LoginSessions]
  /\ \A d \in Starts \ {c} : loginChild'[d] = loginChild[d] /\ loginState'[d] = loginState[d]
  /\ loginChild'[c] \in {"spawning", "running"} => loginChild[c] \in {"spawning", "running"}
  /\ loginChild'[c] = "running" => loginState'[c].startupSettled
  /\ \/ UNCHANGED loginStart /\ (loginState'[c].startupSettled => loginState[c].startupSettled)
     \/ Login!Answer(c, place)
  /\ killed \subseteq killed'
  /\ \/ UNCHANGED login
     \/ /\ login = c /\ login' = None
        /\ loginChild'[c] \in {"spawning", "running"} => c \in killed'
  /\ loginState'[c].verifying =>
       /\ UNCHANGED loginTold
       /\ loginState[c].verifying \/ (login = c /\ login' = None /\ LoginAnswered(c))
  /\ \/ UNCHANGED loginTold
     \/ /\ \E o \in {"cancelled", "error", "success"} : Login!Tell(c, o)
        /\ login' # c /\ loginTold[c] = <<>> /\ LoginAnswered(c)'

LEMMA EventLemma ==
  ASSUME LoginInv, NEW c \in Starts, NEW place \in {"resolved", "rejected"}, LoginEvent(c, place)
  PROVE  LoginInv'
<1> USE DEF LoginEvent
<1>1. /\ loginStart' \in [Starts -> LoginPlaces]
      /\ \A d \in Starts : loginStart'[d].generation = loginStart[d].generation
      /\ \A d \in Starts \ {c} : loginStart'[d] = loginStart[d]
      /\ loginStart'[c] = loginStart[c] \/ (LoginAnswered(c)' /\ loginStart[c].at # "idle")
      /\ LoginAnswered(c) => LoginAnswered(c)'
      /\ loginState'[c].startupSettled => LoginAnswered(c)'
  <2>1. CASE UNCHANGED loginStart /\ (loginState'[c].startupSettled => loginState[c].startupSettled)
    BY <2>1 DEF LoginInv, LoginTypeOK, Settles, LoginAnswered
  <2>2. CASE loginStart' = [loginStart EXCEPT ![c].at = place] /\ loginStart[c].at # "idle"
    BY <2>2 DEF LoginInv, LoginTypeOK, LoginPlaces, LoginAnswered
  <2>3. CASE loginStart' = loginStart /\ loginState[c].startupSettled
    BY <2>3 DEF LoginInv, LoginTypeOK, Settles, LoginAnswered
  <2>4. QED BY <2>1, <2>2, <2>3 DEF Login!Answer
<1>2. /\ loginTold' \in [Starts -> LoginOutcomes]
      /\ \A d \in Starts \ {c} : loginTold'[d] = loginTold[d]
      /\ loginTold'[c] = loginTold[c] \/ (Len(loginTold'[c]) = 1 /\ login' # c /\ LoginAnswered(c)')
  <2>1. LoginTypeOK
    BY DEF LoginInv
  <2>2. CASE UNCHANGED loginTold
    BY <2>1, <2>2 DEF LoginTypeOK
  <2>3. ASSUME NEW o \in {"cancelled", "error", "success"}, Login!Tell(c, o), loginTold[c] = <<>>
        PROVE  /\ loginTold' \in [Starts -> LoginOutcomes] /\ Len(loginTold'[c]) = 1
               /\ \A d \in Starts \ {c} : loginTold'[d] = loginTold[d]
    BY <2>1, <2>3, TellLemma
  <2>4. QED BY <2>2, <2>3
<1>3. LoginTypeOK'
  BY <1>1, <1>2 DEF LoginInv, LoginTypeOK
<1>4. Generations'
  <2> USE DEF LoginInv, Generations
  <2>1. \A d \in Starts :
          /\ loginStart[d].at # "idle" <=> loginStart'[d].at # "idle"
          /\ loginStart'[d].at = "browser" => loginStart[d].at = "browser"
          /\ loginStart[d].at \in {"starting", "resolved", "rejected"} =>
               loginStart'[d].at \in {"starting", "resolved", "rejected"}
    BY <1>1 DEF LoginAnswered
  <2>2. \A d \in Starts : loginStart'[d].at # "idle" => loginStart'[d].generation \in 1 .. loginGeneration'
    BY <1>1, <2>1
  <2>3. ASSUME NEW d \in Starts, NEW e \in Starts, loginStart'[d].at # "idle",
               loginStart'[d].generation = loginStart'[e].generation
        PROVE  d = e
    BY <1>1, <2>1, <2>3
  <2>4. \A d \in Starts \ overtaken' :
          loginStart'[d].at = "browser" => loginStart'[d].generation = loginGeneration'
    BY <1>1, <2>1
  <2>5. login' # None => login' = login /\ login \in Starts
    BY DEF LoginTypeOK
  <2>6. login' # None =>
          /\ login' \in orphans' \/ loginStart'[login'].generation = loginGeneration'
          /\ loginStart'[login'].at \in {"starting", "resolved", "rejected"}
    BY <1>1, <2>1, <2>5
  <2>7. \A d \in Starts : loginStart'[d].at = "idle" => loginStart'[d].generation = 0
    BY <1>1, <2>1
  <2>8. QED BY <2>2, <2>3, <2>4, <2>6, <2>7
<1>5. ASSUME NEW d \in Starts PROVE Settles(d)'
  <2>1. CASE d = c
    <3>1. loginState'[c].verifying => LoginAnswered(c) /\ login' # c /\ UNCHANGED loginTold /\ loginTold[c] = <<>>
      BY LoginAssumption DEF LoginInv, LoginTypeOK, Settles, Login!OneOutcome
    <3>2. Settles(c)'
      <4>1. loginStart'[c].at \in {"idle", "preparing", "browser"} => FALSE
        BY <1>1 DEF LoginAnswered
      <4>2. loginState'[c].startupSettled => LoginAnswered(c)'
        BY <1>1
      <4>3. loginState'[c].verifying => LoginAnswered(c)' /\ login' # c /\ loginTold'[c] = <<>>
        BY <1>1, <3>1
      <4>4. QED BY <4>1, <4>2, <4>3 DEF Settles
    <3>3. QED BY <2>1, <3>2
  <2>2. CASE d # c
    BY <1>1, <1>2, <2>2, LoginAssumption DEF LoginInv, Settles, LoginAnswered
  <2>3. QED BY <2>1, <2>2
<1>6. Login!NoLoginLeft'
  BY LoginAssumption DEF LoginInv, Login!NoLoginLeft
<1>7. Login!OneOutcome'
  <2>1. \A d \in Starts : login' = d => login = d
    BY LoginAssumption
  <2>2. ASSUME NEW d \in Starts \ {c}
        PROVE  Len(loginTold'[d]) <= 1 /\ (loginTold'[d] # <<>> => login' # d /\ LoginAnswered(d)')
    BY <1>1, <1>2, <2>1 DEF LoginInv, LoginAnswered, Login!OneOutcome
  <2>3. Len(loginTold'[c]) <= 1 /\ (loginTold'[c] # <<>> => login' # c /\ LoginAnswered(c)')
    <3>1. CASE loginTold'[c] = loginTold[c]
      <4>1. Len(loginTold[c]) <= 1 /\ (loginTold[c] # <<>> => login # c /\ LoginAnswered(c))
        BY DEF LoginInv, Login!OneOutcome, LoginAnswered
      <4>2. QED BY <1>1, <2>1, <3>1, <4>1
    <3>2. CASE Len(loginTold'[c]) = 1 /\ login' # c /\ LoginAnswered(c)'
      BY <3>2
    <3>3. QED BY <1>2, <3>1, <3>2
  <2>4. QED BY <2>2, <2>3 DEF LoginAnswered, Login!OneOutcome
<1>8. QED BY <1>3, <1>4, <1>5, <1>6, <1>7 DEF LoginInv

LEMMA LoginStep == LoginInv /\ [Login!Next]_loginVars => LoginInv'
<1> SUFFICES ASSUME LoginInv, [Login!Next]_loginVars PROVE LoginInv'
  OBVIOUS
<1>1. ASSUME NEW c \in Starts
      PROVE  /\ loginState[c] \in LoginSessions
             /\ loginState \in [Starts -> LoginSessions]
             /\ loginChild \in [Starts -> {"none", "spawning", "running", "gone"}]
             /\ login = c => loginTold[c] = <<>>
             /\ loginChild[c] # "none" \/ loginState[c].timer \/ loginState[c].verifying =>
                  loginStart[c].at \in {"starting", "resolved", "rejected"}
             /\ loginState[c].verifying => loginTold[c] = <<>> /\ LoginAnswered(c) /\ login # c
             /\ loginChild[c] = "running" => loginState[c].startupSettled
             /\ loginState[c].startupSettled => LoginAnswered(c)
  BY <1>1, LoginAssumption
  DEF LoginInv, LoginTypeOK, LoginPlaces, LoginAnswered, Settles, Generations, Login!OneOutcome
<1>2. ASSUME NEW c \in Starts, Login!Spawned(c) PROVE LoginInv'
  <2>1. LoginEvent(c, "resolved")
    BY <1>1, <1>2 DEF Login!Spawned, Login!shared, LoginEvent, LoginSessions
  <2>2. QED BY <2>1, EventLemma
<1>3. ASSUME NEW c \in Starts, Login!SpawnFails(c) PROVE LoginInv'
  <2>1. CASE ~loginState[c].finished /\ Login!IsCurrent(c)
    <3>1. LoginEvent(c, "rejected")
      BY <1>1, <1>3, <2>1
      DEF Login!SpawnFails, Login!IsCurrent, Login!shared, Login!Answer, LoginEvent, LoginSessions,
          LoginAnswered
    <3>2. QED BY <3>1, EventLemma
  <2>2. CASE ~(~loginState[c].finished /\ Login!IsCurrent(c))
    <3>1. loginState' = [loginState EXCEPT ![c].startupSettled = TRUE]
      BY <1>3, <2>2 DEF Login!SpawnFails
    <3>2. /\ loginState' \in [Starts -> LoginSessions]
          /\ \A d \in Starts \ {c} : loginState'[d] = loginState[d]
          /\ loginState'[c].verifying => loginState[c].verifying
      BY <1>1, <3>1 DEF LoginSessions
    <3>3. /\ loginChild' = [loginChild EXCEPT ![c] = "gone"] /\ loginChild[c] = "spawning"
          /\ Login!Answer(c, "rejected")
          /\ UNCHANGED <<login, loginTold, loginGeneration, overtaken, orphans, killed>>
      BY <1>3, <2>2 DEF Login!SpawnFails, Login!shared
    <3>4. LoginEvent(c, "rejected")
      BY <1>1, <3>2, <3>3 DEF LoginEvent
    <3>5. QED BY <3>4, EventLemma
  <2>3. QED BY <2>1, <2>2
<1>4. ASSUME NEW c \in Starts, NEW code \in 0..1, Login!Close(c, code) PROVE LoginInv'
  <2>1. CASE Login!IsCurrent(c)
    <3>1. loginState' = [loginState EXCEPT
            ![c].finished = TRUE, ![c].timer = FALSE, ![c].verifying = (code = 0)]
      BY <1>4, <2>1 DEF Login!Close
    <3>2. /\ loginState' \in [Starts -> LoginSessions]
          /\ \A d \in Starts \ {c} : loginState'[d] = loginState[d]
          /\ loginState'[c].verifying => code = 0
          /\ loginState'[c].startupSettled = loginState[c].startupSettled
      <4>1. loginState'[c] = [loginState[c] EXCEPT
              !.finished = TRUE, !.timer = FALSE, !.verifying = (code = 0)]
        BY <1>1, <3>1
      <4>2. (code = 0) \in BOOLEAN
        OBVIOUS
      <4>3. loginState'[c] \in LoginSessions
        BY <1>1, <4>1, <4>2 DEF LoginSessions
      <4>4. loginState' \in [Starts -> LoginSessions] /\ \A d \in Starts \ {c} : loginState'[d] = loginState[d]
        BY <1>1, <3>1, <4>1, <4>3
      <4>5. loginState'[c].verifying = (code = 0) /\ loginState'[c].startupSettled = loginState[c].startupSettled
        BY <1>1, <4>1 DEF LoginSessions
      <4>6. QED BY <4>4, <4>5
    <3>3. /\ loginChild[c] = "running" /\ loginChild' = [loginChild EXCEPT ![c] = "gone"]
          /\ login = c /\ login' = None
          /\ UNCHANGED <<loginStart, loginGeneration, overtaken, orphans, killed>>
          /\ code = 0 => UNCHANGED loginTold
          /\ code # 0 => Login!Tell(c, "error")
      BY <1>4, <2>1 DEF Login!Close, Login!IsCurrent, Login!shared
    <3>4. LoginAnswered(c) /\ LoginAnswered(c)' /\ login' # c /\ loginTold[c] = <<>>
      BY <1>1, <3>3, LoginAssumption DEF LoginAnswered
    <3>5. \/ UNCHANGED loginTold
          \/ \E o \in {"cancelled", "error", "success"} : Login!Tell(c, o)
      BY <3>3
    <3>6. LoginEvent(c, "resolved")
      BY <1>1, <3>2, <3>3, <3>4, <3>5 DEF LoginEvent
    <3>7. QED BY <3>6, EventLemma
  <2>2. CASE ~Login!IsCurrent(c)
    <3>1. LoginEvent(c, "resolved")
      BY <1>1, <1>4, <2>2 DEF Login!Close, Login!shared, LoginEvent, LoginSessions
    <3>2. QED BY <3>1, EventLemma
  <2>3. QED BY <2>1, <2>2
<1>5. ASSUME NEW c \in Starts, NEW connected \in BOOLEAN, Login!Verified(c, connected) PROVE LoginInv'
  <2>1. LoginEvent(c, "resolved")
    BY <1>1, <1>5 DEF Login!Verified, Login!shared, LoginEvent, LoginSessions, LoginAnswered
  <2>2. QED BY <2>1, EventLemma
<1>6. ASSUME NEW c \in Starts, Login!Timeout(c) PROVE LoginInv'
  <2>1. CASE ~loginState[c].finished /\ Login!IsCurrent(c)
    <3>1. loginState' = [loginState EXCEPT
            ![c] = [@ EXCEPT !.startupSettled = TRUE, !.cancelled = TRUE,
                             !.finished = TRUE, !.timer = FALSE]]
      BY <1>6, <2>1 DEF Login!Timeout
    <3>2. /\ loginState' \in [Starts -> LoginSessions]
          /\ \A d \in Starts \ {c} : loginState'[d] = loginState[d]
          /\ loginState'[c].verifying => loginState[c].verifying
          /\ loginState'[c].startupSettled
      BY <1>1, <3>1 DEF LoginSessions
    <3>3. /\ loginState[c].timer /\ login = c /\ login' = None /\ killed' = killed \cup {c}
          /\ Login!Answer(c, "rejected") /\ Login!Tell(c, "error")
          /\ UNCHANGED <<loginChild, loginGeneration, overtaken, orphans>>
      BY <1>6, <2>1 DEF Login!Timeout, Login!IsCurrent, Login!shared
    <3>4. LoginAnswered(c)'
      <4>1. CASE loginState[c].startupSettled
        BY <1>1, <3>3, <4>1 DEF Login!Answer, LoginAnswered
      <4>2. CASE ~loginState[c].startupSettled
        BY <3>3, <4>2 DEF Login!Answer, LoginAnswered, LoginInv, LoginTypeOK, LoginPlaces
      <4>3. QED BY <4>1, <4>2
    <3>5. login' # c /\ loginTold[c] = <<>> /\ ~loginState'[c].verifying
      BY <1>1, <3>2, <3>3, LoginAssumption
    <3>6. LoginEvent(c, "rejected")
      BY <1>1, <3>2, <3>3, <3>4, <3>5 DEF LoginEvent
    <3>7. QED BY <3>6, EventLemma
  <2>2. CASE ~(~loginState[c].finished /\ Login!IsCurrent(c))
    <3>1. loginState' = [loginState EXCEPT ![c].timer = FALSE]
      BY <1>6, <2>2 DEF Login!Timeout
    <3>2. /\ loginState' \in [Starts -> LoginSessions]
          /\ \A d \in Starts \ {c} : loginState'[d] = loginState[d]
          /\ loginState'[c].verifying => loginState[c].verifying
          /\ loginState'[c].startupSettled = loginState[c].startupSettled
      BY <1>1, <3>1 DEF LoginSessions
    <3>3. /\ loginState[c].timer
          /\ UNCHANGED <<login, loginTold, loginStart, loginChild, loginGeneration, overtaken, orphans, killed>>
      BY <1>6, <2>2 DEF Login!Timeout, Login!shared
    <3>4. LoginEvent(c, "rejected")
      BY <1>1, <3>2, <3>3 DEF LoginEvent
    <3>5. QED BY <3>4, EventLemma
  <2>3. QED BY <2>1, <2>2
<1>7. ASSUME NEW x \in Cancels, Login!CancelReturns(x) PROVE LoginInv'
  BY <1>7
  DEF Login!CancelReturns, LoginInv, LoginTypeOK, Generations, Settles, LoginAnswered,
      Login!NoLoginLeft, Login!OneOutcome
<1>8. CASE UNCHANGED loginVars
  BY <1>8
  DEF loginVars, LoginInv, LoginTypeOK, Generations, Settles, LoginAnswered,
      Login!NoLoginLeft, Login!OneOutcome
<1>9. QED
  BY <1>2, <1>3, <1>4, <1>5, <1>6, <1>7, <1>8, StartLemma, CancelLemma, PrepareLemma, SpawnLoginLemma
  DEF Login!Next

\* A CLI runs for the active login, or was told to end, or is an orphan of a start that
\* was invalidated; and the window is told one outcome at most.
THEOREM LoginSafe == Spec => [](part = "login" => LoginInv)
<1>1. Init => (part = "login" => LoginInv)
  BY LoginInitially DEF Init
<1>2. (part = "login" => LoginInv) /\ [Next]_partVars => (part = "login" => LoginInv)'
  BY LoginMoves, LoginStep, PartStays
<1>3. QED BY <1>1, <1>2, PTL DEF Spec

-----------------------------------------------------------------------------
(* ipc/terminal-ipc.ts and agent-turn.ts: turns of a terminal *)

TurnBusy == {"spawning", "readying", "typing", "acking", "waiting"}
TurnPlaces == [at : {"idle", "queued", "ok", "failed"} \cup TurnBusy,
               attempt : AgentTurn!LaunchCalls \cup {None}]

TurnsTypeOK ==
  /\ launchAttempt \in AgentTurn!LaunchCalls \cup {None}
  /\ process \in TurnCalls \cup StartCalls \cup {None}
  /\ turnSession \in Models \cup {None}
  /\ turnQueue \in Seq(TurnCalls)
  /\ agentCall \in [AgentTurn!LaunchCalls -> TurnPlaces]
  /\ model \in [TurnCalls -> Models \cup {None}]
  /\ answer \in [TurnCalls -> TurnCalls \cup {None, "timeout", "exit"}]
  /\ work \in Seq(TurnCalls)
  /\ joined \subseteq TurnCalls

\* A turn that runs is the first of the queue; those behind it have not begun.
TurnQueued ==
  /\ \A c \in TurnCalls : agentCall[c].at \in TurnBusy => turnQueue # <<>> /\ c = turnQueue[1]
  /\ \A i \in 1 .. Len(turnQueue) :
       /\ i > 1 => agentCall[turnQueue[i]].at = "queued"
       /\ agentCall[turnQueue[i]].at # "idle"
       /\ \A j \in 1 .. Len(turnQueue) : turnQueue[i] = turnQueue[j] => i = j

\* An attempt is named by a call that was made.
AttemptsMade ==
  /\ launchAttempt # None => agentCall[launchAttempt].at # "idle"
  /\ \A c \in TurnCalls : agentCall[c].attempt # None => agentCall[agentCall[c].attempt].at # "idle"
  /\ \A s \in StartCalls : agentCall[s].at # "idle" => agentCall[s].attempt = s

\* The attempt is that of a start which has not run, or has failed.
StartPending == launchAttempt \in StartCalls /\ agentCall[launchAttempt].at # "ok"

\* What the process of the terminal says of the call that started it.
ProcessKnown ==
  /\ process = None => work = <<>>
  /\ process \in TurnCalls => agentCall[process].at \notin {"idle", "queued", "spawning"}
  /\ process \in StartCalls => launchAttempt = process \/ StartPending

\* A turn that runs in the attempt of a start which has not run is one of those
\* that joined early; one that is about to type has a session, if its attempt
\* stands; and it has no answer before it listens.
TurnRuns(c) ==
  /\ agentCall[c].at \in TurnBusy /\ agentCall[c].attempt \in StartCalls
       /\ agentCall[agentCall[c].attempt].at # "ok" => c \in joined
  /\ agentCall[c].at \in {"readying", "typing"} /\ AgentTurn!IsCurrent(c) => turnSession # None
  /\ agentCall[c].at \in TurnBusy => model[c] # None
  /\ agentCall[c].at \in {"idle", "queued", "spawning", "readying"} => answer[c] = None

\* The prompt that the process works on is that of the turn which waits for its
\* answer, or of one that failed and after which nobody may type: its session was
\* given up, or a start is to replace the process.
PromptIsOwn ==
  work # <<>> => \E c \in TurnCalls :
    /\ work = <<c>>
    /\ \/ agentCall[c].at \in {"acking", "waiting"} /\ (AgentTurn!IsCurrent(c) \/ StartPending)
       \/ agentCall[c].at = "failed" /\ (turnSession = None \/ StartPending)

AnswerWaits(c) ==
  /\ agentCall[c].at = "typing" /\ AgentTurn!IsCurrent(c) => answer[c] \notin TurnCalls
  /\ agentCall[c].at \in {"acking", "waiting"} =>
       /\ work \in {<<>>, <<c>>}
       /\ answer[c] \in TurnCalls => answer[c] = c /\ work = <<>>
  /\ agentCall[c].at = "ok" => answer[c] = c

TurnsInv ==
  /\ TurnsTypeOK /\ TurnQueued /\ AttemptsMade /\ ProcessKnown /\ \A c \in TurnCalls : TurnRuns(c)
  /\ AgentTurn!NothingAfterStop /\ AgentTurn!SessionIsKept
  /\ joined = {} => PromptIsOwn /\ \A c \in TurnCalls : AnswerWaits(c)

LEMMA TurnsMoves ==
  ASSUME [Next]_partVars, part = "turns"
  PROVE  [AgentTurn!Next]_agentVars
  BY DEF Next, partVars, agentVars

LEMMA TurnsInitially == AgentTurn!Init => TurnsInv
<1> SUFFICES ASSUME AgentTurn!Init PROVE TurnsInv
  OBVIOUS
<1> USE TurnsAssumption DEF AgentTurn!Init
<1>1. TurnsTypeOK
  BY DEF TurnsTypeOK, TurnPlaces, AgentTurn!LaunchCalls
<1>2. TurnQueued /\ AttemptsMade /\ ProcessKnown
  BY DEF TurnQueued, AttemptsMade, ProcessKnown, TurnBusy, AgentTurn!LaunchCalls
<1>3. ASSUME NEW c \in TurnCalls PROVE TurnRuns(c) /\ AnswerWaits(c)
  BY DEF TurnRuns, AnswerWaits, TurnBusy, AgentTurn!LaunchCalls
<1>4. AgentTurn!NothingAfterStop /\ AgentTurn!SessionIsKept /\ PromptIsOwn
  BY DEF AgentTurn!NothingAfterStop, AgentTurn!SessionIsKept, PromptIsOwn
<1>5. QED BY <1>1, <1>2, <1>3, <1>4 DEF TurnsInv

\* What a change of place leaves of the calls.
LEMMA PlaceLemma ==
  ASSUME TurnsTypeOK, NEW c \in AgentTurn!LaunchCalls, NEW place \in {"ok", "failed"} \cup TurnBusy,
         agentCall' = [agentCall EXCEPT ![c].at = place]
  PROVE  /\ agentCall' \in [AgentTurn!LaunchCalls -> TurnPlaces]
         /\ agentCall'[c].at = place
         /\ \A d \in AgentTurn!LaunchCalls : agentCall'[d].attempt = agentCall[d].attempt
         /\ \A d \in AgentTurn!LaunchCalls \ {c} : agentCall'[d].at = agentCall[d].at
  BY DEF TurnsTypeOK, TurnPlaces

\* Nobody else runs while the first of the queue does.
LEMMA FirstLemma ==
  ASSUME TurnsInv, NEW c \in TurnCalls, turnQueue # <<>>, Head(turnQueue) = c
  PROVE  /\ c = turnQueue[1]
         /\ \A d \in TurnCalls \ {c} : agentCall[d].at \notin TurnBusy
  BY DEF TurnsInv, TurnsTypeOK, TurnQueued

\* The first of the queue goes on with its turn, or leaves.
LEMMA GoesOnLemma ==
  ASSUME TurnsInv, NEW c \in TurnCalls, turnQueue # <<>>, Head(turnQueue) = c,
         NEW place \in TurnBusy, agentCall' = [agentCall EXCEPT ![c].at = place],
         UNCHANGED <<turnQueue, launchAttempt>>
  PROVE  TurnQueued' /\ AttemptsMade'
<1>1. c \in AgentTurn!LaunchCalls /\ TurnsTypeOK /\ TurnCalls \subseteq AgentTurn!LaunchCalls
  BY DEF AgentTurn!LaunchCalls, TurnsInv
<1>2. /\ agentCall'[c].at = place
      /\ \A d \in AgentTurn!LaunchCalls : agentCall'[d].attempt = agentCall[d].attempt
      /\ \A d \in AgentTurn!LaunchCalls \ {c} : agentCall'[d].at = agentCall[d].at
  BY <1>1, PlaceLemma
<1>3. c = turnQueue[1] /\ \A d \in TurnCalls \ {c} : agentCall[d].at \notin TurnBusy
  BY FirstLemma
<1>4. TurnQueued'
  <2>1. turnQueue \in Seq(TurnCalls) /\ turnQueue # <<>> /\ TurnQueued
    BY <1>1 DEF TurnsInv, TurnsTypeOK
  <2>2. ASSUME NEW d \in TurnCalls, agentCall'[d].at \in TurnBusy PROVE d = turnQueue[1]
    BY <1>1, <1>2, <1>3, <2>2
  <2>3. ASSUME NEW i \in 1 .. Len(turnQueue)
        PROVE  /\ i > 1 => agentCall'[turnQueue[i]].at = "queued"
               /\ agentCall'[turnQueue[i]].at # "idle"
    <3>1. turnQueue[i] \in TurnCalls /\ (i > 1 => turnQueue[i] # c)
      BY <1>3, <2>1 DEF TurnQueued
    <3>2. QED BY <1>1, <1>2, <2>1, <3>1 DEF TurnQueued, TurnBusy
  <2>4. QED BY <2>1, <2>2, <2>3 DEF TurnQueued
<1>5. AttemptsMade'
  <2>1. \A d \in AgentTurn!LaunchCalls : agentCall[d].at # "idle" => agentCall'[d].at # "idle"
    BY <1>2 DEF TurnBusy
  <2>2. \A s \in StartCalls : s \in AgentTurn!LaunchCalls \ {c}
    BY TurnsAssumption DEF AgentTurn!LaunchCalls
  <2>3. QED BY <1>1, <1>2, <2>1, <2>2 DEF TurnsInv, TurnsTypeOK, TurnPlaces, AttemptsMade
<1>6. QED BY <1>4, <1>5

LEMMA LeavesLemma ==
  ASSUME TurnsInv, NEW c \in TurnCalls, turnQueue # <<>>, Head(turnQueue) = c,
         NEW place \in {"ok", "failed"}, agentCall' = [agentCall EXCEPT ![c].at = place],
         turnQueue' = Tail(turnQueue), UNCHANGED launchAttempt
  PROVE  TurnQueued' /\ AttemptsMade' /\ turnQueue' \in Seq(TurnCalls)
<1>1. c \in AgentTurn!LaunchCalls /\ TurnsTypeOK /\ TurnCalls \subseteq AgentTurn!LaunchCalls
  BY DEF AgentTurn!LaunchCalls, TurnsInv
<1>2. /\ agentCall'[c].at = place
      /\ \A d \in AgentTurn!LaunchCalls : agentCall'[d].attempt = agentCall[d].attempt
      /\ \A d \in AgentTurn!LaunchCalls \ {c} : agentCall'[d].at = agentCall[d].at
  BY <1>1, PlaceLemma
<1>3. c = turnQueue[1] /\ \A d \in TurnCalls \ {c} : agentCall[d].at \notin TurnBusy
  BY FirstLemma
<1>4. /\ turnQueue' \in Seq(TurnCalls) /\ Len(turnQueue') = Len(turnQueue) - 1
      /\ \A i \in 1 .. Len(turnQueue') : turnQueue'[i] = turnQueue[i + 1]
  BY <1>1 DEF TurnsTypeOK
<1>5. TurnQueued'
  <2>1. turnQueue \in Seq(TurnCalls) /\ Len(turnQueue) \in Nat /\ Len(turnQueue) > 0 /\ TurnQueued
    BY <1>1 DEF TurnsInv, TurnsTypeOK
  <2>2. ASSUME NEW d \in TurnCalls PROVE agentCall'[d].at \notin TurnBusy
    BY <1>1, <1>2, <1>3 DEF TurnBusy
  <2>3. ASSUME NEW i \in 1 .. Len(turnQueue')
        PROVE  /\ agentCall'[turnQueue'[i]].at = "queued"
               /\ \A j \in 1 .. Len(turnQueue') : turnQueue'[i] = turnQueue'[j] => i = j
    <3>1. /\ i + 1 \in 1 .. Len(turnQueue) /\ i + 1 > 1 /\ turnQueue'[i] = turnQueue[i + 1]
          /\ turnQueue[i + 1] \in TurnCalls /\ 1 \in 1 .. Len(turnQueue)
      BY <1>4, <2>1
    <3>2. turnQueue[i + 1] # c /\ agentCall[turnQueue[i + 1]].at = "queued"
      <4>1. turnQueue[1] = turnQueue[i + 1] => 1 = i + 1
        BY <2>1, <3>1 DEF TurnQueued
      <4>2. agentCall[turnQueue[i + 1]].at = "queued"
        BY <2>1, <3>1 DEF TurnQueued
      <4>3. QED BY <1>3, <3>1, <4>1, <4>2
    <3>3. ASSUME NEW j \in 1 .. Len(turnQueue'), turnQueue'[i] = turnQueue'[j] PROVE i = j
      <4>1. j + 1 \in 1 .. Len(turnQueue) /\ turnQueue[i + 1] = turnQueue[j + 1]
        BY <1>4, <2>1, <3>3
      <4>2. i + 1 = j + 1
        BY <2>1, <3>1, <4>1 DEF TurnQueued
      <4>3. QED BY <4>2, <1>4, <2>1
    <3>4. QED BY <1>1, <1>2, <3>1, <3>2, <3>3
  <2>4. QED BY <2>2, <2>3 DEF TurnQueued
<1>6. AttemptsMade'
  <2>1. \A d \in AgentTurn!LaunchCalls : agentCall[d].at # "idle" => agentCall'[d].at # "idle"
    BY <1>2
  <2>2. \A s \in StartCalls : s \in AgentTurn!LaunchCalls \ {c}
    BY TurnsAssumption DEF AgentTurn!LaunchCalls
  <2>3. QED BY <1>1, <1>2, <2>1, <2>2 DEF TurnsInv, TurnsTypeOK, TurnPlaces, AttemptsMade
<1>7. QED BY <1>4, <1>5, <1>6

\* A step of a turn leaves the calls that start the terminal alone.
LEMMA OthersStandLemma ==
  ASSUME TurnsInv, NEW c \in TurnCalls,
         \A d \in AgentTurn!LaunchCalls \ {c} : agentCall'[d].at = agentCall[d].at
  PROVE  \A s \in StartCalls : s \in AgentTurn!LaunchCalls /\ s # c /\ agentCall'[s].at = agentCall[s].at
  BY TurnsAssumption DEF AgentTurn!LaunchCalls

\* The turn that runs goes on with what it has.
LEMMA TurnGoesOn ==
  ASSUME TurnsInv, NEW c \in TurnCalls,
         AgentTurn!Ready(c) \/ AgentTurn!Acked(c)
  PROVE  TurnsInv'
<1> DEFINE place == IF agentCall[c].at = "readying" THEN "typing" ELSE "waiting"
<1>1. /\ turnQueue # <<>> /\ Head(turnQueue) = c
      /\ agentCall' = [agentCall EXCEPT ![c].at = place] /\ place \in {"typing", "waiting"}
      /\ UNCHANGED <<turnQueue, launchAttempt, process, turnSession, model, answer, work, joined>>
      /\ \/ place = "typing" /\ agentCall[c].at = "readying"
         \/ place = "waiting" /\ agentCall[c].at = "acking"
  BY DEF AgentTurn!Ready, AgentTurn!Acked, AgentTurn!Running, AgentTurn!At, AgentTurn!Goto
<1> HIDE DEF place
<1>2. TurnsTypeOK /\ c \in AgentTurn!LaunchCalls /\ TurnCalls \subseteq AgentTurn!LaunchCalls
  BY DEF TurnsInv, AgentTurn!LaunchCalls
<1>3. /\ agentCall' \in [AgentTurn!LaunchCalls -> TurnPlaces]
      /\ agentCall'[c].at = place
      /\ \A d \in AgentTurn!LaunchCalls : agentCall'[d].attempt = agentCall[d].attempt
      /\ \A d \in AgentTurn!LaunchCalls \ {c} : agentCall'[d].at = agentCall[d].at
  BY <1>1, <1>2, PlaceLemma DEF TurnBusy
<1>4. \A s \in StartCalls : s \in AgentTurn!LaunchCalls /\ s # c /\ agentCall'[s].at = agentCall[s].at
  BY <1>3, OthersStandLemma
<1>5. TurnsTypeOK'
  BY <1>1, <1>2, <1>3 DEF TurnsTypeOK
<1>6. TurnQueued' /\ AttemptsMade'
  BY <1>1, GoesOnLemma DEF TurnBusy
<1>7. StartPending' <=> StartPending
  BY <1>1, <1>4 DEF StartPending
<1>8. ProcessKnown'
  BY <1>1, <1>2, <1>3, <1>4, <1>7 DEF TurnsInv, ProcessKnown
<1>9. ASSUME NEW d \in TurnCalls PROVE TurnRuns(d)'
  <2>1. TurnRuns(d)
    BY DEF TurnsInv
  <2>2. agentCall'[d].attempt \in StartCalls =>
          agentCall'[agentCall'[d].attempt].at = agentCall[agentCall[d].attempt].at
    BY <1>2, <1>3, <1>4
  <2>3. QED BY <1>1, <1>2, <1>3, <2>1, <2>2 DEF TurnRuns, TurnBusy, AgentTurn!IsCurrent
<1>10. AgentTurn!NothingAfterStop' /\ AgentTurn!SessionIsKept'
  <2>1. \A t \in TurnCalls : agentCall[t].at = "failed" => agentCall'[t].at = "failed"
    BY <1>1, <1>2, <1>3
  <2>2. QED BY <1>1, <1>2, <1>3, <2>1
    DEF TurnsInv, AgentTurn!NothingAfterStop, AgentTurn!SessionIsKept, AgentTurn!At
<1>11. ASSUME joined' = {} PROVE PromptIsOwn'
  BY <1>1, <1>2, <1>3, <1>7, <1>11 DEF TurnsInv, PromptIsOwn, AgentTurn!IsCurrent
<1>12. ASSUME joined' = {}, NEW d \in TurnCalls PROVE AnswerWaits(d)'
  <2>1. AnswerWaits(d) /\ TurnRuns(d)
    BY <1>1, <1>12 DEF TurnsInv
  <2>2. QED BY <1>1, <1>2, <1>3, <2>1, TurnsAssumption DEF AnswerWaits, TurnRuns, AgentTurn!IsCurrent
<1>13. QED BY <1>5, <1>6, <1>8, <1>9, <1>10, <1>11, <1>12 DEF TurnsInv

\* A turn that fails gives the session up, if its attempt stands.
LEMMA TurnFails ==
  ASSUME TurnsInv, NEW c \in TurnCalls, turnQueue # <<>>, Head(turnQueue) = c,
         agentCall[c].at \in TurnBusy, AgentTurn!Fail(c),
         UNCHANGED <<launchAttempt, model, answer, joined>>,
         UNCHANGED <<process, work>> \/ AgentTurn!Kill
  PROVE  TurnsInv'
<1>1. /\ agentCall' = [agentCall EXCEPT ![c].at = "failed"]
      /\ turnSession' = IF AgentTurn!IsCurrent(c) THEN None ELSE turnSession
      /\ turnQueue' = Tail(turnQueue)
  BY DEF AgentTurn!Fail
<1>2. TurnsTypeOK /\ c \in AgentTurn!LaunchCalls /\ TurnCalls \subseteq AgentTurn!LaunchCalls
  BY DEF TurnsInv, AgentTurn!LaunchCalls
<1>3. /\ agentCall' \in [AgentTurn!LaunchCalls -> TurnPlaces]
      /\ agentCall'[c].at = "failed"
      /\ \A d \in AgentTurn!LaunchCalls : agentCall'[d].attempt = agentCall[d].attempt
      /\ \A d \in AgentTurn!LaunchCalls \ {c} : agentCall'[d].at = agentCall[d].at
  BY <1>1, <1>2, PlaceLemma
<1>4. \A s \in StartCalls : s \in AgentTurn!LaunchCalls /\ s # c /\ agentCall'[s].at = agentCall[s].at
  BY <1>3, OthersStandLemma
<1>5. TurnQueued' /\ AttemptsMade' /\ turnQueue' \in Seq(TurnCalls)
  BY <1>1, LeavesLemma
<1>6. work' = work \/ work' = <<>>
  BY DEF AgentTurn!Kill
<1>7. process' = process \/ (process' = None /\ work' = <<>>)
  <2>1. CASE UNCHANGED <<process, work>>
    BY <2>1
  <2>2. CASE AgentTurn!Kill
    BY <2>2 DEF AgentTurn!Kill
  <2>3. QED BY <2>1, <2>2
<1>8. TurnsTypeOK'
  <2>1. work' \in Seq(TurnCalls)
    <3>1. work \in Seq(TurnCalls) /\ <<>> \in Seq(TurnCalls)
      BY <1>2 DEF TurnsTypeOK
    <3>2. QED BY <1>6, <3>1
  <2>2. turnSession' \in Models \cup {None} /\ process' \in TurnCalls \cup StartCalls \cup {None}
    BY <1>1, <1>2, <1>7 DEF TurnsTypeOK
  <2>3. QED BY <1>2, <1>3, <1>5, <2>1, <2>2 DEF TurnsTypeOK
<1>9. StartPending' <=> StartPending
  BY <1>4 DEF StartPending
<1>10. \A d \in TurnCalls \ {c} : agentCall[d].at \notin TurnBusy
  BY FirstLemma
<1>11. ProcessKnown'
  BY <1>2, <1>3, <1>6, <1>7, <1>9, TurnsAssumption DEF TurnsInv, ProcessKnown
<1>12. ASSUME NEW d \in TurnCalls PROVE TurnRuns(d)'
  <2>1. agentCall'[d].at \notin TurnBusy
    BY <1>2, <1>3, <1>10 DEF TurnBusy
  <2>2. agentCall'[d].at \in {"idle", "queued"} => d # c /\ agentCall[d].at \in {"idle", "queued"}
    BY <1>2, <1>3
  <2>3. agentCall'[d].at \in {"idle", "queued", "spawning", "readying"} => answer'[d] = None
    BY <2>1, <2>2 DEF TurnsInv, TurnRuns, TurnBusy
  <2>4. QED BY <2>1, <2>3 DEF TurnRuns, TurnBusy
<1>13. AgentTurn!NothingAfterStop'
  BY <1>1, <1>7, TurnsAssumption DEF TurnsInv, AgentTurn!NothingAfterStop
<1>14. AgentTurn!SessionIsKept'
  <2>1. ASSUME NEW s \in StartCalls, process' = s, turnSession' = None
        PROVE  \E t \in TurnCalls : agentCall'[t].at = "failed" /\ (agentCall'[t].attempt = s \/ t \in joined')
    <3>1. process = s
      BY <1>7, <2>1, TurnsAssumption
    <3>2. CASE turnSession = None
      <4>1. PICK t \in TurnCalls : agentCall[t].at = "failed" /\ (agentCall[t].attempt = s \/ t \in joined)
        BY <3>1, <3>2 DEF TurnsInv, AgentTurn!SessionIsKept, AgentTurn!At
      <4>2. QED BY <1>2, <1>3, <4>1
    <3>3. CASE turnSession # None
      <4>1. launchAttempt = agentCall[c].attempt
        BY <1>1, <2>1, <3>3 DEF AgentTurn!IsCurrent
      <4>2. CASE launchAttempt = s
        BY <1>2, <1>3, <4>1, <4>2
      <4>3. CASE StartPending
        <5>1. c \in joined
          BY <4>1, <4>3 DEF TurnsInv, TurnRuns, StartPending
        <5>2. QED BY <1>3, <5>1
      <4>4. QED BY <3>1, <4>2, <4>3 DEF TurnsInv, ProcessKnown
    <3>4. QED BY <3>2, <3>3
  <2>2. QED BY <2>1 DEF AgentTurn!SessionIsKept, AgentTurn!At
<1>15. ASSUME joined' = {} PROVE PromptIsOwn'
  <2>1. CASE work' = <<>>
    BY <2>1 DEF PromptIsOwn
  <2>2. CASE work' = work /\ work # <<>>
    <3>1. PICK w \in TurnCalls :
            /\ work = <<w>>
            /\ \/ agentCall[w].at \in {"acking", "waiting"} /\ (AgentTurn!IsCurrent(w) \/ StartPending)
               \/ agentCall[w].at = "failed" /\ (turnSession = None \/ StartPending)
      BY <1>15, <2>2 DEF TurnsInv, PromptIsOwn
    <3>2. agentCall'[w].at = "failed"
      BY <1>2, <1>3, <1>10, <3>1 DEF TurnBusy
    <3>3. turnSession' = None \/ StartPending
      <4>1. CASE agentCall[w].at = "failed"
        BY <1>1, <3>1, <4>1
      <4>2. CASE agentCall[w].at \in {"acking", "waiting"}
        <5>1. w = c
          BY <1>10, <4>2 DEF TurnBusy
        <5>2. QED BY <1>1, <3>1, <4>2, <5>1
      <4>3. QED BY <3>1, <4>1, <4>2
    <3>4. QED BY <1>9, <2>2, <3>1, <3>2, <3>3 DEF PromptIsOwn
  <2>3. QED BY <1>6, <2>1, <2>2
<1>16. ASSUME joined' = {}, NEW d \in TurnCalls PROVE AnswerWaits(d)'
  <2>1. agentCall'[d].at \notin TurnBusy
    BY <1>2, <1>3, <1>10 DEF TurnBusy
  <2>2. agentCall'[d].at = "ok" => answer'[d] = d
    BY <1>2, <1>3, <1>16 DEF TurnsInv, AnswerWaits
  <2>3. QED BY <2>1, <2>2 DEF AnswerWaits, TurnBusy
<1>17. QED BY <1>5, <1>8, <1>11, <1>12, <1>13, <1>14, <1>15, <1>16 DEF TurnsInv

\* A turn that has its answer leaves; so does one that could not be resolved.
LEMMA TurnLeaves ==
  ASSUME TurnsInv, NEW c \in TurnCalls, turnQueue # <<>>, Head(turnQueue) = c,
         turnQueue' = Tail(turnQueue), NEW place \in {"ok", "failed"},
         agentCall' = [agentCall EXCEPT ![c].at = place],
         UNCHANGED <<launchAttempt, process, turnSession, model, answer, work, joined>>,
         \/ agentCall[c].at = "queued" /\ place = "failed"
         \/ agentCall[c].at = "waiting" /\ place = "ok" /\ answer[c] \in TurnCalls
  PROVE  TurnsInv'
<1>2. TurnsTypeOK /\ c \in AgentTurn!LaunchCalls /\ TurnCalls \subseteq AgentTurn!LaunchCalls
  BY DEF TurnsInv, AgentTurn!LaunchCalls
<1>3. /\ agentCall' \in [AgentTurn!LaunchCalls -> TurnPlaces]
      /\ agentCall'[c].at = place
      /\ \A d \in AgentTurn!LaunchCalls : agentCall'[d].attempt = agentCall[d].attempt
      /\ \A d \in AgentTurn!LaunchCalls \ {c} : agentCall'[d].at = agentCall[d].at
  BY <1>2, PlaceLemma
<1>4. \A s \in StartCalls : s \in AgentTurn!LaunchCalls /\ s # c /\ agentCall'[s].at = agentCall[s].at
  BY <1>3, OthersStandLemma
<1>5. TurnQueued' /\ AttemptsMade' /\ turnQueue' \in Seq(TurnCalls)
  BY LeavesLemma
<1>8. TurnsTypeOK'
  BY <1>2, <1>3, <1>5 DEF TurnsTypeOK
<1>9. StartPending' <=> StartPending
  BY <1>4 DEF StartPending
<1>10. \A d \in TurnCalls \ {c} : agentCall[d].at \notin TurnBusy
  BY FirstLemma
<1>11. ProcessKnown'
  BY <1>2, <1>3, <1>9, TurnsAssumption DEF TurnsInv, ProcessKnown
<1>12. ASSUME NEW d \in TurnCalls PROVE TurnRuns(d)'
  <2>1. agentCall'[d].at \notin TurnBusy
    BY <1>2, <1>3, <1>10 DEF TurnBusy
  <2>2. agentCall'[d].at \in {"idle", "queued"} => d # c /\ agentCall[d].at \in {"idle", "queued"}
    BY <1>2, <1>3
  <2>3. agentCall'[d].at \in {"idle", "queued", "spawning", "readying"} => answer'[d] = None
    BY <2>1, <2>2 DEF TurnsInv, TurnRuns, TurnBusy
  <2>4. QED BY <2>1, <2>3 DEF TurnRuns, TurnBusy
<1>13. AgentTurn!NothingAfterStop'
  BY DEF TurnsInv, AgentTurn!NothingAfterStop
<1>14. AgentTurn!SessionIsKept'
  <2>1. \A t \in TurnCalls : agentCall[t].at = "failed" => agentCall'[t].at = "failed"
    BY <1>2, <1>3
  <2>2. QED BY <1>2, <1>3, <2>1 DEF TurnsInv, AgentTurn!SessionIsKept, AgentTurn!At
<1>15. ASSUME joined' = {} PROVE PromptIsOwn'
  <2>1. ASSUME agentCall[c].at = "waiting", answer[c] \in TurnCalls PROVE work = <<>>
    BY <1>15, <2>1 DEF TurnsInv, AnswerWaits
  <2>2. CASE agentCall[c].at = "waiting"
    BY <2>1, <2>2 DEF PromptIsOwn
  <2>3. CASE agentCall[c].at = "queued"
    BY <1>2, <1>3, <1>9, <1>15, <2>3 DEF TurnsInv, PromptIsOwn, AgentTurn!IsCurrent
  <2>4. QED BY <2>2, <2>3
<1>16. ASSUME joined' = {}, NEW d \in TurnCalls PROVE AnswerWaits(d)'
  <2>1. agentCall'[d].at \notin TurnBusy
    BY <1>2, <1>3, <1>10 DEF TurnBusy
  <2>2. agentCall'[d].at = "ok" => answer'[d] = d
    BY <1>2, <1>3, <1>16 DEF TurnsInv, AnswerWaits
  <2>3. QED BY <2>1, <2>2 DEF AnswerWaits, TurnBusy
<1>17. QED BY <1>5, <1>8, <1>11, <1>12, <1>13, <1>14, <1>15, <1>16 DEF TurnsInv

\* A turn is resolved, and keeps the session or not.
LEMMA TurnResolves ==
  ASSUME TurnsInv, NEW c \in TurnCalls, NEW m \in Models, AgentTurn!Resolve(c, m)
  PROVE  TurnsInv'
<1> DEFINE place == IF process # None /\ turnSession = m THEN "readying" ELSE "spawning"
<1>1. /\ turnQueue # <<>> /\ Head(turnQueue) = c /\ agentCall[c].at = "queued"
      /\ agentCall' = [agentCall EXCEPT ![c].at = place] /\ place \in {"readying", "spawning"}
      /\ UNCHANGED <<turnQueue, launchAttempt, process, turnSession, answer, work>>
      /\ launchAttempt # None /\ launchAttempt = agentCall[c].attempt
      /\ place = "readying" => turnSession = m
      /\ model' = [model EXCEPT ![c] = m]
      /\ joined' = IF launchAttempt \in StartCalls /\ agentCall[launchAttempt].at # "ok"
                     THEN joined \cup {c} ELSE joined
  BY DEF AgentTurn!Resolve, AgentTurn!Running, AgentTurn!At, AgentTurn!Goto, AgentTurn!IsCurrent
<1> HIDE DEF place
<1>2. TurnsTypeOK /\ c \in AgentTurn!LaunchCalls /\ TurnCalls \subseteq AgentTurn!LaunchCalls
  BY DEF TurnsInv, AgentTurn!LaunchCalls
<1>3. /\ agentCall' \in [AgentTurn!LaunchCalls -> TurnPlaces]
      /\ agentCall'[c].at = place
      /\ \A d \in AgentTurn!LaunchCalls : agentCall'[d].attempt = agentCall[d].attempt
      /\ \A d \in AgentTurn!LaunchCalls \ {c} : agentCall'[d].at = agentCall[d].at
  BY <1>1, <1>2, PlaceLemma DEF TurnBusy
<1>4. \A s \in StartCalls : s \in AgentTurn!LaunchCalls /\ s # c /\ agentCall'[s].at = agentCall[s].at
  BY <1>3, OthersStandLemma
<1>5. /\ model' \in [TurnCalls -> Models \cup {None}] /\ model'[c] = m
      /\ \A d \in TurnCalls \ {c} : model'[d] = model[d]
      /\ joined' \subseteq TurnCalls /\ joined \subseteq joined'
  BY <1>1, <1>2 DEF TurnsTypeOK
<1>6. TurnsTypeOK'
  BY <1>1, <1>2, <1>3, <1>5 DEF TurnsTypeOK
<1>7. TurnQueued' /\ AttemptsMade'
  BY <1>1, GoesOnLemma DEF TurnBusy
<1>8. StartPending' <=> StartPending
  BY <1>1, <1>4 DEF StartPending
<1>9. process # c
  BY <1>1 DEF TurnsInv, ProcessKnown
<1>10. ProcessKnown'
  BY <1>1, <1>2, <1>3, <1>4, <1>8, <1>9 DEF TurnsInv, ProcessKnown
<1>11. ASSUME NEW d \in TurnCalls PROVE TurnRuns(d)'
  <2>1. TurnRuns(d)
    BY DEF TurnsInv
  <2>2. agentCall'[d].attempt \in StartCalls =>
          agentCall'[agentCall'[d].attempt].at = agentCall[agentCall[d].attempt].at
    BY <1>2, <1>3, <1>4
  <2>3. CASE d # c
    BY <1>1, <1>2, <1>3, <1>5, <2>1, <2>2, <2>3 DEF TurnRuns, TurnBusy, AgentTurn!IsCurrent
  <2>4. CASE d = c
    BY <1>1, <1>2, <1>3, <1>5, <2>1, <2>2, <2>4, TurnsAssumption
    DEF TurnRuns, TurnBusy, AgentTurn!IsCurrent
  <2>5. QED BY <2>3, <2>4
<1>12. AgentTurn!NothingAfterStop'
  BY <1>1, <1>5, <1>9 DEF TurnsInv, AgentTurn!NothingAfterStop
<1>13. AgentTurn!SessionIsKept'
  <2>1. \A t \in TurnCalls : agentCall[t].at = "failed" => agentCall'[t].at = "failed"
    BY <1>1, <1>2, <1>3
  <2>2. QED BY <1>1, <1>2, <1>3, <1>5, <2>1 DEF TurnsInv, AgentTurn!SessionIsKept, AgentTurn!At
<1>14. ASSUME joined' = {} PROVE PromptIsOwn'
  <2>1. joined = {}
    BY <1>5, <1>14
  <2>2. QED BY <1>1, <1>2, <1>3, <1>8, <2>1 DEF TurnsInv, PromptIsOwn, AgentTurn!IsCurrent
<1>15. ASSUME joined' = {}, NEW d \in TurnCalls PROVE AnswerWaits(d)'
  <2>1. AnswerWaits(d)
    BY <1>5, <1>15 DEF TurnsInv
  <2>2. QED BY <1>1, <1>2, <1>3, <2>1 DEF AnswerWaits, AgentTurn!IsCurrent
<1>16. QED BY <1>6, <1>7, <1>10, <1>11, <1>12, <1>13, <1>14, <1>15 DEF TurnsInv

\* The process is replaced by that of the turn.
LEMMA TurnSpawns ==
  ASSUME TurnsInv, NEW c \in TurnCalls, AgentTurn!Spawn(c)
  PROVE  TurnsInv'
<1>1. /\ turnQueue # <<>> /\ Head(turnQueue) = c /\ agentCall[c].at = "spawning"
      /\ agentCall' = [agentCall EXCEPT ![c].at = "readying"]
      /\ UNCHANGED <<turnQueue, launchAttempt, model, answer, joined>>
      /\ launchAttempt # None /\ launchAttempt = agentCall[c].attempt
      /\ process' = c /\ turnSession' = model[c] /\ work' = <<>>
  BY DEF AgentTurn!Spawn, AgentTurn!Run, AgentTurn!Running, AgentTurn!At, AgentTurn!Goto, AgentTurn!IsCurrent
<1>2. TurnsTypeOK /\ c \in AgentTurn!LaunchCalls /\ TurnCalls \subseteq AgentTurn!LaunchCalls
  BY DEF TurnsInv, AgentTurn!LaunchCalls
<1>3. /\ agentCall' \in [AgentTurn!LaunchCalls -> TurnPlaces]
      /\ agentCall'[c].at = "readying"
      /\ \A d \in AgentTurn!LaunchCalls : agentCall'[d].attempt = agentCall[d].attempt
      /\ \A d \in AgentTurn!LaunchCalls \ {c} : agentCall'[d].at = agentCall[d].at
  BY <1>1, <1>2, PlaceLemma DEF TurnBusy
<1>4. \A s \in StartCalls : s \in AgentTurn!LaunchCalls /\ s # c /\ agentCall'[s].at = agentCall[s].at
  BY <1>3, OthersStandLemma
<1>5. model[c] # None /\ model[c] \in Models \cup {None}
  BY <1>1, <1>2 DEF TurnsInv, TurnRuns, TurnBusy, TurnsTypeOK
<1>6. TurnsTypeOK'
  BY <1>1, <1>2, <1>3, <1>5 DEF TurnsTypeOK
<1>7. TurnQueued' /\ AttemptsMade'
  BY <1>1, GoesOnLemma DEF TurnBusy
<1>8. \A d \in TurnCalls \ {c} : agentCall[d].at \notin TurnBusy
  BY <1>1, FirstLemma
<1>9. ProcessKnown'
  BY <1>1, <1>3, TurnsAssumption DEF ProcessKnown
<1>10. ASSUME NEW d \in TurnCalls PROVE TurnRuns(d)'
  <2>1. TurnRuns(d)
    BY DEF TurnsInv
  <2>2. agentCall'[d].attempt \in StartCalls =>
          agentCall'[agentCall'[d].attempt].at = agentCall[agentCall[d].attempt].at
    BY <1>2, <1>3, <1>4
  <2>3. QED BY <1>1, <1>2, <1>3, <1>5, <2>1, <2>2 DEF TurnRuns, TurnBusy, AgentTurn!IsCurrent
<1>11. AgentTurn!NothingAfterStop' /\ AgentTurn!SessionIsKept'
  BY <1>1, <1>5, TurnsAssumption DEF AgentTurn!NothingAfterStop, AgentTurn!SessionIsKept
<1>12. PromptIsOwn'
  BY <1>1 DEF PromptIsOwn
<1>13. ASSUME joined' = {}, NEW d \in TurnCalls PROVE AnswerWaits(d)'
  <2>1. AnswerWaits(d)
    BY <1>1, <1>13 DEF TurnsInv
  <2>2. QED BY <1>1, <1>2, <1>3, <1>8, <2>1 DEF AnswerWaits, AgentTurn!IsCurrent, TurnBusy
<1>14. QED BY <1>6, <1>7, <1>9, <1>10, <1>11, <1>12, <1>13 DEF TurnsInv

\* The prompt is typed: the process works on nothing else, or a turn joined early.
LEMMA TurnTypes ==
  ASSUME TurnsInv, NEW c \in TurnCalls, AgentTurn!Type(c)
  PROVE  TurnsInv'
<1>1. /\ turnQueue # <<>> /\ Head(turnQueue) = c /\ agentCall[c].at = "typing"
      /\ agentCall' = [agentCall EXCEPT ![c].at = "acking"]
      /\ UNCHANGED <<turnQueue, launchAttempt, process, turnSession, model, answer, joined>>
      /\ AgentTurn!IsCurrent(c) /\ process # None
      /\ work' = Append(work, c)
  BY DEF AgentTurn!Type, AgentTurn!Running, AgentTurn!At, AgentTurn!Goto
<1>2. TurnsTypeOK /\ c \in AgentTurn!LaunchCalls /\ TurnCalls \subseteq AgentTurn!LaunchCalls
  BY DEF TurnsInv, AgentTurn!LaunchCalls
<1>3. /\ agentCall' \in [AgentTurn!LaunchCalls -> TurnPlaces]
      /\ agentCall'[c].at = "acking"
      /\ \A d \in AgentTurn!LaunchCalls : agentCall'[d].attempt = agentCall[d].attempt
      /\ \A d \in AgentTurn!LaunchCalls \ {c} : agentCall'[d].at = agentCall[d].at
  BY <1>1, <1>2, PlaceLemma DEF TurnBusy
<1>4. \A s \in StartCalls : s \in AgentTurn!LaunchCalls /\ s # c /\ agentCall'[s].at = agentCall[s].at
  BY <1>3, OthersStandLemma
<1>5. TurnsTypeOK'
  BY <1>1, <1>2, <1>3 DEF TurnsTypeOK
<1>6. TurnQueued' /\ AttemptsMade'
  BY <1>1, GoesOnLemma DEF TurnBusy
<1>7. \A d \in TurnCalls \ {c} : agentCall[d].at \notin TurnBusy
  BY <1>1, FirstLemma
<1>8. StartPending' <=> StartPending
  BY <1>1, <1>4 DEF StartPending
<1>9. ProcessKnown'
  BY <1>1, <1>2, <1>3, <1>4, <1>8 DEF TurnsInv, ProcessKnown
<1>10. ASSUME NEW d \in TurnCalls PROVE TurnRuns(d)'
  <2>1. TurnRuns(d)
    BY DEF TurnsInv
  <2>2. agentCall'[d].attempt \in StartCalls =>
          agentCall'[agentCall'[d].attempt].at = agentCall[agentCall[d].attempt].at
    BY <1>2, <1>3, <1>4
  <2>3. QED BY <1>1, <1>2, <1>3, <2>1, <2>2 DEF TurnRuns, TurnBusy, AgentTurn!IsCurrent
<1>11. AgentTurn!NothingAfterStop' /\ AgentTurn!SessionIsKept'
  <2>1. \A t \in TurnCalls : agentCall[t].at = "failed" => agentCall'[t].at = "failed"
    BY <1>1, <1>2, <1>3
  <2>2. QED BY <1>1, <1>2, <1>3, <2>1
    DEF TurnsInv, AgentTurn!NothingAfterStop, AgentTurn!SessionIsKept, AgentTurn!At
<1>12. ASSUME joined = {} PROVE work = <<>>
  <2>1. SUFFICES ASSUME work # <<>> PROVE FALSE
    OBVIOUS
  <2>2. PICK w \in TurnCalls :
          \/ agentCall[w].at \in {"acking", "waiting"}
          \/ agentCall[w].at = "failed" /\ (turnSession = None \/ StartPending)
    BY <1>12, <2>1 DEF TurnsInv, PromptIsOwn
  <2>3. turnSession # None
    BY <1>1 DEF TurnsInv, TurnRuns
  <2>4. ~StartPending
    BY <1>1, <1>12 DEF TurnsInv, TurnRuns, StartPending, AgentTurn!IsCurrent, TurnBusy
  <2>5. QED BY <1>1, <1>7, <2>2, <2>3, <2>4 DEF TurnBusy
<1>13. ASSUME joined' = {} PROVE PromptIsOwn'
  <2>1. work' = <<c>>
    BY <1>1, <1>12, <1>13
  <2>2. QED BY <1>1, <1>2, <1>3, <2>1 DEF PromptIsOwn, AgentTurn!IsCurrent
<1>14. ASSUME joined' = {}, NEW d \in TurnCalls PROVE AnswerWaits(d)'
  <2>1. AnswerWaits(d) /\ work' = <<c>>
    BY <1>1, <1>12, <1>14 DEF TurnsInv
  <2>2. QED BY <1>1, <1>2, <1>3, <1>7, <2>1 DEF AnswerWaits, TurnBusy
<1>15. QED BY <1>5, <1>6, <1>9, <1>10, <1>11, <1>13, <1>14 DEF TurnsInv

\* A turn joins the attempt that stands, and the queue.
LEMMA TurnIsSent ==
  ASSUME TurnsInv, NEW c \in TurnCalls, AgentTurn!Send(c)
  PROVE  TurnsInv'
<1>1. /\ agentCall[c].at = "idle"
      /\ launchAttempt' = IF launchAttempt = None THEN c ELSE launchAttempt
      /\ agentCall' = [agentCall EXCEPT ![c] = [at |-> "queued", attempt |-> launchAttempt']]
      /\ turnQueue' = Append(turnQueue, c)
      /\ UNCHANGED <<process, turnSession, model, answer, work, joined>>
  BY DEF AgentTurn!Send, AgentTurn!At
<1>2. TurnsTypeOK /\ c \in AgentTurn!LaunchCalls /\ TurnCalls \subseteq AgentTurn!LaunchCalls
  BY DEF TurnsInv, AgentTurn!LaunchCalls
<1>3. launchAttempt' \in AgentTurn!LaunchCalls \cup {None} /\ launchAttempt' # None
  BY <1>1, <1>2, TurnsAssumption DEF TurnsTypeOK
<1>4. /\ agentCall' \in [AgentTurn!LaunchCalls -> TurnPlaces]
      /\ agentCall'[c].at = "queued" /\ agentCall'[c].attempt = launchAttempt'
      /\ \A d \in AgentTurn!LaunchCalls \ {c} : agentCall'[d] = agentCall[d]
  <2>1. [at |-> "queued", attempt |-> launchAttempt'] \in TurnPlaces
    BY <1>3 DEF TurnPlaces
  <2>2. QED BY <1>1, <1>2, <2>1 DEF TurnsTypeOK
<1>5. \A s \in StartCalls : s \in AgentTurn!LaunchCalls /\ s # c /\ agentCall'[s].at = agentCall[s].at
  BY <1>4, OthersStandLemma
<1>6. TurnsTypeOK'
  BY <1>1, <1>2, <1>3, <1>4 DEF TurnsTypeOK
<1>7. \A i \in 1 .. Len(turnQueue) : turnQueue[i] \in TurnCalls \ {c}
  BY <1>1, <1>2 DEF TurnsInv, TurnsTypeOK, TurnQueued
<1>8. TurnQueued'
  <2>1. /\ Len(turnQueue') = Len(turnQueue) + 1 /\ Len(turnQueue) \in Nat
        /\ turnQueue'[Len(turnQueue) + 1] = c
        /\ \A i \in 1 .. Len(turnQueue) : turnQueue'[i] = turnQueue[i]
    BY <1>1, <1>2 DEF TurnsTypeOK
  <2>2. ASSUME NEW d \in TurnCalls, agentCall'[d].at \in TurnBusy
        PROVE  turnQueue' # <<>> /\ d = turnQueue'[1]
    <3>1. d # c /\ agentCall[d].at \in TurnBusy
      BY <1>2, <1>4, <2>2 DEF TurnBusy
    <3>2. turnQueue # <<>> /\ d = turnQueue[1]
      BY <3>1 DEF TurnsInv, TurnQueued
    <3>3. 1 \in 1 .. Len(turnQueue)
      BY <1>2, <3>2 DEF TurnsTypeOK
    <3>4. QED BY <1>2, <2>1, <3>2, <3>3
  <2>3. ASSUME NEW i \in 1 .. Len(turnQueue')
        PROVE  /\ i > 1 => agentCall'[turnQueue'[i]].at = "queued"
               /\ agentCall'[turnQueue'[i]].at # "idle"
               /\ \A j \in 1 .. Len(turnQueue') : turnQueue'[i] = turnQueue'[j] => i = j
    <3>1. CASE i = Len(turnQueue) + 1
      BY <1>4, <1>7, <2>1, <3>1
    <3>2. CASE i \in 1 .. Len(turnQueue)
      <4>1. turnQueue'[i] = turnQueue[i] /\ turnQueue[i] # c /\ turnQueue[i] \in AgentTurn!LaunchCalls
        BY <1>2, <1>7, <2>1, <3>2
      <4>2. agentCall'[turnQueue'[i]] = agentCall[turnQueue[i]]
        BY <1>4, <4>1
      <4>3. ASSUME NEW j \in 1 .. Len(turnQueue'), turnQueue'[i] = turnQueue'[j] PROVE i = j
        <5>1. j \in 1 .. Len(turnQueue)
          BY <2>1, <4>1, <4>3
        <5>2. QED BY <2>1, <3>2, <4>3, <5>1 DEF TurnsInv, TurnQueued
      <4>4. QED BY <3>2, <4>2, <4>3 DEF TurnsInv, TurnQueued
    <3>3. QED BY <2>1, <3>1, <3>2
  <2>4. QED BY <2>2, <2>3 DEF TurnQueued
<1>9. AttemptsMade'
  <2>1. \A d \in AgentTurn!LaunchCalls : agentCall[d].at # "idle" => agentCall'[d].at # "idle"
    BY <1>4
  <2>2. launchAttempt' # None => agentCall'[launchAttempt'].at # "idle"
    BY <1>1, <1>2, <1>4, <2>1 DEF TurnsInv, AttemptsMade, TurnsTypeOK
  <2>3. ASSUME NEW d \in TurnCalls, agentCall'[d].attempt # None
        PROVE  agentCall'[agentCall'[d].attempt].at # "idle"
    <3>1. CASE d = c
      BY <1>3, <1>4, <2>2, <3>1
    <3>2. CASE d # c
      BY <1>2, <1>4, <2>1, <2>3, <3>2 DEF TurnsInv, AttemptsMade, TurnsTypeOK, TurnPlaces
    <3>3. QED BY <3>1, <3>2
  <2>4. \A s \in StartCalls : agentCall'[s] = agentCall[s]
    BY <1>4, <1>5
  <2>5. QED BY <2>2, <2>3, <2>4 DEF TurnsInv, AttemptsMade
<1>10. StartPending => StartPending'
  BY <1>1, <1>5, TurnsAssumption DEF StartPending
<1>11. process # None => UNCHANGED launchAttempt /\ process # c
  BY <1>1 DEF TurnsInv, ProcessKnown, AgentTurn!NothingAfterStop
<1>12. ProcessKnown'
  <2>1. process \in TurnCalls => agentCall'[process] = agentCall[process]
    BY <1>2, <1>4, <1>11, TurnsAssumption
  <2>2. process \in StartCalls => launchAttempt' = process \/ StartPending'
    BY <1>10, <1>11, TurnsAssumption DEF TurnsInv, ProcessKnown
  <2>3. QED BY <1>1, <2>1, <2>2 DEF TurnsInv, ProcessKnown
<1>13. ASSUME NEW d \in TurnCalls PROVE TurnRuns(d)'
  <2>1. TurnRuns(d) /\ AttemptsMade
    BY DEF TurnsInv
  <2>2. CASE d = c
    BY <1>1, <1>4, <2>1, <2>2 DEF TurnRuns, TurnBusy
  <2>3. CASE d # c
    <3>1. agentCall'[d] = agentCall[d]
      BY <1>2, <1>4, <2>3
    <3>2. agentCall[d].attempt \in StartCalls =>
            agentCall'[agentCall[d].attempt].at = agentCall[agentCall[d].attempt].at
      BY <1>5
    <3>3. AgentTurn!IsCurrent(d)' => AgentTurn!IsCurrent(d)
      BY <1>1, <1>2, <2>1, <3>1 DEF AgentTurn!IsCurrent, AttemptsMade
    <3>4. QED BY <1>1, <2>1, <3>1, <3>2, <3>3 DEF TurnRuns
  <2>4. QED BY <2>2, <2>3
<1>14. AgentTurn!NothingAfterStop'
  BY <1>1, <1>3 DEF TurnsInv, AgentTurn!NothingAfterStop
<1>15. AgentTurn!SessionIsKept'
  <2>1. \A t \in TurnCalls : agentCall[t].at = "failed" => agentCall'[t] = agentCall[t]
    BY <1>1, <1>2, <1>4
  <2>2. QED BY <1>1, <2>1 DEF TurnsInv, AgentTurn!SessionIsKept, AgentTurn!At
<1>16. ASSUME joined' = {} PROVE PromptIsOwn'
  <2>1. SUFFICES ASSUME work' # <<>> PROVE PromptIsOwn'
    BY DEF PromptIsOwn
  <2>2. PICK w \in TurnCalls :
            /\ work = <<w>>
            /\ \/ agentCall[w].at \in {"acking", "waiting"} /\ (AgentTurn!IsCurrent(w) \/ StartPending)
               \/ agentCall[w].at = "failed" /\ (turnSession = None \/ StartPending)
    BY <1>1, <1>16, <2>1 DEF TurnsInv, PromptIsOwn
  <2>3. UNCHANGED launchAttempt
    BY <1>1, <1>11, <2>1 DEF TurnsInv, ProcessKnown
  <2>4. agentCall'[w] = agentCall[w]
    BY <1>1, <1>2, <1>4, <2>2
  <2>5. QED BY <1>1, <1>10, <2>2, <2>3, <2>4 DEF PromptIsOwn, AgentTurn!IsCurrent
<1>17. ASSUME joined' = {}, NEW d \in TurnCalls PROVE AnswerWaits(d)'
  <2>1. AnswerWaits(d) /\ AttemptsMade
    BY <1>1, <1>17 DEF TurnsInv
  <2>2. CASE d = c
    BY <1>4, <2>2 DEF AnswerWaits
  <2>3. CASE d # c
    <3>1. agentCall'[d] = agentCall[d]
      BY <1>2, <1>4, <2>3
    <3>2. AgentTurn!IsCurrent(d)' => AgentTurn!IsCurrent(d)
      BY <1>1, <1>2, <2>1, <3>1 DEF AgentTurn!IsCurrent, AttemptsMade
    <3>3. QED BY <1>1, <2>1, <3>1, <3>2 DEF AnswerWaits
  <2>4. QED BY <2>2, <2>3
<1>18. QED BY <1>6, <1>8, <1>9, <1>12, <1>13, <1>14, <1>15, <1>16, <1>17 DEF TurnsInv

\* Whoever listens hears the answer, the end of the process, or its timer.
LEMMA TurnHears ==
  ASSUME TurnsInv,
         (\E c \in TurnCalls : AgentTurn!WaitTimesOut(c)) \/ AgentTurn!Prints \/ AgentTurn!Exit
  PROVE  TurnsInv'
<1>1. UNCHANGED <<launchAttempt, turnSession, turnQueue, agentCall, model, joined>>
  BY DEF AgentTurn!WaitTimesOut, AgentTurn!Prints, AgentTurn!Exit
<1>2. TurnsTypeOK
  BY DEF TurnsInv
<1>3. /\ answer' \in [TurnCalls -> TurnCalls \cup {None, "timeout", "exit"}]
      /\ work' \in Seq(TurnCalls)
      /\ UNCHANGED process \/ process' = None
      /\ process' = None => work' = <<>>
      /\ UNCHANGED work \/ (work # <<>> /\ work' = Tail(work)) \/ work' = <<>>
      /\ \A d \in TurnCalls :
           \/ answer'[d] = answer[d]
           \/ /\ agentCall[d].at \in {"typing", "acking", "waiting"} /\ answer[d] = None
              /\ answer'[d] \in {"timeout", "exit"} \/ (work # <<>> /\ answer'[d] = Head(work) /\ work' = Tail(work))
  <2>1. ASSUME NEW c \in TurnCalls, AgentTurn!WaitTimesOut(c) PROVE <1>3
    BY <1>2, <2>1 DEF AgentTurn!WaitTimesOut, AgentTurn!Listening, TurnsTypeOK, TurnsInv, ProcessKnown
  <2>2. CASE AgentTurn!Prints
    BY <1>2, <2>2 DEF AgentTurn!Prints, AgentTurn!Listening, TurnsTypeOK
  <2>3. CASE AgentTurn!Exit
    BY <1>2, <2>3 DEF AgentTurn!Exit, AgentTurn!Kill, AgentTurn!Listening, TurnsTypeOK
  <2>4. QED BY <2>1, <2>2, <2>3
<1>4. TurnsTypeOK'
  BY <1>1, <1>2, <1>3 DEF TurnsTypeOK
<1>5. TurnQueued' /\ AttemptsMade' /\ (StartPending' <=> StartPending)
  BY <1>1 DEF TurnsInv, TurnQueued, AttemptsMade, StartPending
<1>6. ProcessKnown'
  BY <1>1, <1>3, <1>5, TurnsAssumption DEF TurnsInv, ProcessKnown
<1>7. ASSUME NEW d \in TurnCalls PROVE TurnRuns(d)'
  BY <1>1, <1>3 DEF TurnsInv, TurnRuns, AgentTurn!IsCurrent
<1>8. AgentTurn!NothingAfterStop' /\ AgentTurn!SessionIsKept'
  BY <1>1, <1>3, TurnsAssumption
  DEF TurnsInv, AgentTurn!NothingAfterStop, AgentTurn!SessionIsKept, AgentTurn!At
<1>9. ASSUME joined' = {}
      PROVE  /\ PromptIsOwn
             /\ \A d \in TurnCalls : AnswerWaits(d)
             /\ work' = work \/ work' = <<>>
  <2>1. PromptIsOwn /\ \A d \in TurnCalls : AnswerWaits(d)
    BY <1>1, <1>9 DEF TurnsInv
  <2>2. CASE work = <<>>
    BY <1>3, <2>1, <2>2
  <2>3. CASE work # <<>>
    <3>1. PICK w \in TurnCalls : work = <<w>>
      BY <2>1, <2>3 DEF PromptIsOwn
    <3>2. Tail(work) = <<>>
      BY <3>1
    <3>3. QED BY <1>3, <2>1, <3>2
  <2>4. QED BY <2>2, <2>3
<1>10. ASSUME joined' = {} PROVE PromptIsOwn'
  BY <1>1, <1>5, <1>9, <1>10 DEF PromptIsOwn, AgentTurn!IsCurrent
<1>11. ASSUME joined' = {}, NEW d \in TurnCalls PROVE AnswerWaits(d)'
  <2>1. AnswerWaits(d) /\ PromptIsOwn /\ TurnRuns(d) /\ AgentTurn!IsCurrent(d)' = AgentTurn!IsCurrent(d)
    BY <1>1, <1>9, <1>11 DEF TurnsInv, AgentTurn!IsCurrent
  <2>2. CASE answer'[d] = answer[d]
    BY <1>1, <1>9, <1>11, <2>1, <2>2 DEF AnswerWaits
  <2>3. CASE answer'[d] \in {"timeout", "exit"} /\ agentCall[d].at \in {"typing", "acking", "waiting"}
    BY <1>1, <1>9, <1>11, <2>1, <2>3, TurnsAssumption DEF AnswerWaits
  <2>4. CASE /\ work # <<>> /\ answer'[d] = Head(work) /\ work' = Tail(work)
             /\ agentCall[d].at \in {"typing", "acking", "waiting"}
    <3>1. PICK w \in TurnCalls :
            /\ work = <<w>>
            /\ \/ agentCall[w].at \in {"acking", "waiting"}
               \/ agentCall[w].at = "failed" /\ (turnSession = None \/ StartPending)
      BY <2>1, <2>4 DEF PromptIsOwn
    <3>2. answer'[d] = w /\ work' = <<>>
      BY <2>4, <3>1
    <3>3. CASE agentCall[d].at = "typing"
      <4>1. ASSUME AgentTurn!IsCurrent(d) PROVE FALSE
        <5>1. turnSession # None /\ ~StartPending
          BY <1>1, <1>11, <2>1, <3>3, <4>1 DEF TurnRuns, StartPending, AgentTurn!IsCurrent, TurnBusy
        <5>2. agentCall[w].at \in TurnBusy
          BY <3>1, <5>1 DEF TurnBusy
        <5>3. d = turnQueue[1] /\ w = turnQueue[1]
          BY <3>3, <5>2 DEF TurnsInv, TurnQueued, TurnBusy
        <5>4. QED BY <3>1, <3>3, <5>1, <5>3
      <4>2. QED BY <1>1, <2>1, <3>3, <4>1 DEF AnswerWaits
    <3>4. CASE agentCall[d].at \in {"acking", "waiting"}
      <4>1. work = <<d>>
        BY <2>1, <2>4, <3>4 DEF AnswerWaits
      <4>2. w = d
        BY <3>1, <4>1
      <4>3. QED BY <1>1, <3>2, <3>4, <4>2 DEF AnswerWaits
    <3>5. QED BY <2>4, <3>3, <3>4
  <2>5. QED BY <1>3, <2>2, <2>3, <2>4
<1>12. QED BY <1>4, <1>5, <1>6, <1>7, <1>8, <1>10, <1>11 DEF TurnsInv

\* A start and a stop replace the attempt: no turn has the new one yet.
LEMMA AttemptIsReplaced ==
  ASSUME TurnsInv, NEW c \in StartCalls \cup StopCalls, agentCall[c].at = "idle",
         NEW at \in {"spawning", "ok"},
         agentCall' \in [AgentTurn!LaunchCalls -> TurnPlaces],
         agentCall'[c].at = at, c \in StartCalls => agentCall'[c].attempt = c,
         \A d \in AgentTurn!LaunchCalls \ {c} : agentCall'[d] = agentCall[d],
         UNCHANGED <<turnQueue, model, answer, joined>>,
         \/ /\ launchAttempt' = c /\ c \in StartCalls /\ at = "spawning"
            /\ UNCHANGED <<process, turnSession, work>>
         \/ launchAttempt' = None /\ turnSession' = None /\ process' = None /\ work' = <<>>
  PROVE  TurnsInv'
<1>1. /\ TurnsTypeOK /\ c \in AgentTurn!LaunchCalls /\ TurnCalls \subseteq AgentTurn!LaunchCalls
      /\ c \notin TurnCalls /\ c # None /\ None \notin TurnCalls
  BY TurnsAssumption DEF TurnsInv, AgentTurn!LaunchCalls
<1>2. \A d \in TurnCalls : agentCall'[d] = agentCall[d]
  BY <1>1
<1>3. \A d \in AgentTurn!LaunchCalls : agentCall[d].at # "idle" => agentCall'[d] = agentCall[d]
  BY <1>1
<1>4. TurnsTypeOK'
  <2>1. work' \in Seq(TurnCalls) /\ process' \in TurnCalls \cup StartCalls \cup {None}
    <3>1. work \in Seq(TurnCalls) /\ <<>> \in Seq(TurnCalls)
      BY <1>1 DEF TurnsTypeOK
    <3>2. QED BY <1>1, <3>1 DEF TurnsTypeOK
  <2>2. launchAttempt' \in AgentTurn!LaunchCalls \cup {None} /\ turnSession' \in Models \cup {None}
    BY <1>1 DEF TurnsTypeOK
  <2>3. QED BY <1>1, <2>1, <2>2 DEF TurnsTypeOK
<1>5. TurnQueued'
  BY <1>1, <1>2 DEF TurnsInv, TurnQueued, TurnsTypeOK
<1>6. AttemptsMade'
  <2>1. \A d \in TurnCalls : agentCall[d].attempt # None => agentCall'[agentCall[d].attempt].at # "idle"
    BY <1>1, <1>3 DEF TurnsInv, AttemptsMade, TurnsTypeOK, TurnPlaces
  <2>2. \A s \in StartCalls : agentCall'[s].at # "idle" => agentCall'[s].attempt = s
    BY <1>1 DEF TurnsInv, AttemptsMade, AgentTurn!LaunchCalls
  <2>3. QED BY <1>1, <1>2, <2>1, <2>2 DEF AttemptsMade
<1>7. \A d \in TurnCalls : ~AgentTurn!IsCurrent(d)'
  BY <1>1, <1>2 DEF TurnsInv, AttemptsMade, AgentTurn!IsCurrent
<1>8. launchAttempt' # None => StartPending'
  BY <1>1 DEF StartPending
<1>9. ProcessKnown'
  BY <1>1, <1>2, <1>8, TurnsAssumption DEF TurnsInv, ProcessKnown
<1>10. ASSUME NEW d \in TurnCalls PROVE TurnRuns(d)'
  <2>1. agentCall[d].attempt \in StartCalls =>
          agentCall'[agentCall[d].attempt] = agentCall[agentCall[d].attempt]
    BY <1>1, <1>3, TurnsAssumption DEF TurnsInv, AttemptsMade, TurnsTypeOK, TurnPlaces
  <2>2. QED BY <1>2, <1>7, <2>1 DEF TurnsInv, TurnRuns
<1>11. AgentTurn!NothingAfterStop'
  BY <1>1 DEF TurnsInv, AgentTurn!NothingAfterStop
<1>12. AgentTurn!SessionIsKept'
  BY <1>1, <1>2, TurnsAssumption DEF TurnsInv, AgentTurn!SessionIsKept, AgentTurn!At
<1>13. ASSUME joined' = {} PROVE PromptIsOwn'
  <2>1. PromptIsOwn
    BY <1>13 DEF TurnsInv
  <2>2. CASE work' = <<>>
    BY <2>2 DEF PromptIsOwn
  <2>3. CASE work' = work /\ StartPending'
    BY <1>2, <2>1, <2>3 DEF PromptIsOwn
  <2>4. QED BY <1>1, <1>8, <2>2, <2>3
<1>14. ASSUME joined' = {}, NEW d \in TurnCalls PROVE AnswerWaits(d)'
  <2>1. AnswerWaits(d)
    BY <1>14 DEF TurnsInv
  <2>2. work' = work \/ work' = <<>>
    OBVIOUS
  <2>3. QED BY <1>2, <1>7, <2>1, <2>2 DEF AnswerWaits
<1>15. QED BY <1>4, <1>5, <1>6, <1>9, <1>10, <1>11, <1>12, <1>13, <1>14 DEF TurnsInv

\* A start that was asked for runs the process anew, or fails.
LEMMA StartIsOver ==
  ASSUME TurnsInv, NEW c \in StartCalls,
         AgentTurn!StartFails(c) \/ \E m \in Models : AgentTurn!Started(c, m)
  PROVE  TurnsInv'
<1> DEFINE at == IF AgentTurn!StartFails(c) THEN "failed" ELSE "ok"
<1>1. /\ TurnsTypeOK /\ c \in AgentTurn!LaunchCalls /\ TurnCalls \subseteq AgentTurn!LaunchCalls
      /\ c \notin TurnCalls /\ c # None /\ None \notin TurnCalls
  BY TurnsAssumption DEF TurnsInv, AgentTurn!LaunchCalls
<1>2. /\ agentCall[c].at = "spawning"
      /\ UNCHANGED <<turnQueue, launchAttempt, model, answer, joined>>
      /\ \/ /\ agentCall' = [agentCall EXCEPT ![c].at = "failed"]
            /\ UNCHANGED turnSession
            /\ UNCHANGED <<process, work>> \/ (process' = None /\ work' = <<>>)
         \/ /\ agentCall' = [agentCall EXCEPT ![c].at = "ok"]
            /\ launchAttempt # None /\ launchAttempt = agentCall[c].attempt
            /\ process' = c /\ turnSession' \in Models /\ work' = <<>>
  BY DEF AgentTurn!StartFails, AgentTurn!Started, AgentTurn!Run, AgentTurn!Kill, AgentTurn!At,
         AgentTurn!Goto, AgentTurn!IsCurrent
<1>3. PICK place \in {"ok", "failed"} :
        /\ agentCall' = [agentCall EXCEPT ![c].at = place]
        /\ \/ /\ place = "failed" /\ UNCHANGED turnSession
              /\ UNCHANGED <<process, work>> \/ (process' = None /\ work' = <<>>)
           \/ /\ place = "ok" /\ launchAttempt # None /\ launchAttempt = agentCall[c].attempt
              /\ process' = c /\ turnSession' \in Models /\ work' = <<>>
  BY <1>2
<1>4. /\ agentCall' \in [AgentTurn!LaunchCalls -> TurnPlaces]
      /\ agentCall'[c].at = place
      /\ \A d \in AgentTurn!LaunchCalls : agentCall'[d].attempt = agentCall[d].attempt
      /\ \A d \in AgentTurn!LaunchCalls \ {c} : agentCall'[d].at = agentCall[d].at
  BY <1>1, <1>3, PlaceLemma
<1>5. \A d \in TurnCalls : agentCall'[d].at = agentCall[d].at /\ agentCall'[d].attempt = agentCall[d].attempt
  BY <1>1, <1>4
<1>6. /\ work' \in Seq(TurnCalls) /\ process' \in TurnCalls \cup StartCalls \cup {None}
      /\ turnSession' \in Models \cup {None} /\ (work' = work \/ work' = <<>>)
  <2>1. work' = work \/ work' = <<>>
    BY <1>3
  <2>2. work' \in Seq(TurnCalls)
    <3>1. work \in Seq(TurnCalls) /\ <<>> \in Seq(TurnCalls)
      BY <1>1 DEF TurnsTypeOK
    <3>2. QED BY <2>1, <3>1
  <2>3. QED BY <1>1, <1>3, <2>1, <2>2 DEF TurnsTypeOK
<1>7. TurnsTypeOK'
  BY <1>1, <1>2, <1>4, <1>6 DEF TurnsTypeOK
<1>8. TurnQueued'
  BY <1>1, <1>2, <1>5 DEF TurnsInv, TurnQueued, TurnsTypeOK
<1>9. AttemptsMade'
  <2>1. \A d \in AgentTurn!LaunchCalls : agentCall[d].at # "idle" => agentCall'[d].at # "idle"
    BY <1>4
  <2>2. \A s \in StartCalls :
          s \in AgentTurn!LaunchCalls /\ (agentCall'[s].at # "idle" => agentCall[s].at # "idle")
    BY <1>2, <1>4 DEF AgentTurn!LaunchCalls
  <2>3. QED BY <1>1, <1>2, <1>4, <2>1, <2>2 DEF TurnsInv, TurnsTypeOK, TurnPlaces, AttemptsMade
<1>10. StartPending => StartPending' \/ place = "ok"
  BY <1>1, <1>2, <1>4, TurnsAssumption DEF StartPending, AgentTurn!LaunchCalls
<1>11. ProcessKnown'
  <2>1. CASE place = "ok"
    BY <1>1, <1>2, <1>3, <2>1, TurnsAssumption DEF TurnsInv, AttemptsMade, ProcessKnown
  <2>2. CASE place = "failed"
    BY <1>1, <1>2, <1>3, <1>5, <1>10, <2>2, TurnsAssumption DEF TurnsInv, ProcessKnown
  <2>3. QED BY <2>1, <2>2
<1>12. ASSUME NEW d \in TurnCalls PROVE TurnRuns(d)'
  <2>1. TurnRuns(d)
    BY DEF TurnsInv
  <2>2. \A x \in StartCalls : agentCall'[x].at # "ok" => agentCall[x].at # "ok"
    BY <1>2, <1>4 DEF AgentTurn!LaunchCalls
  <2>3. turnSession # None => turnSession' # None
    BY <1>3, TurnsAssumption
  <2>4. QED BY <1>2, <1>5, <2>1, <2>2, <2>3 DEF TurnRuns, AgentTurn!IsCurrent
<1>13. AgentTurn!NothingAfterStop'
  BY <1>1, <1>2, <1>3 DEF TurnsInv, AgentTurn!NothingAfterStop
<1>14. AgentTurn!SessionIsKept'
  <2>1. CASE place = "ok"
    BY <1>3, <2>1, TurnsAssumption DEF AgentTurn!SessionIsKept
  <2>2. CASE place = "failed"
    BY <1>1, <1>2, <1>3, <1>5, <2>2, TurnsAssumption DEF TurnsInv, AgentTurn!SessionIsKept, AgentTurn!At
  <2>3. QED BY <2>1, <2>2
<1>15. ASSUME joined' = {} PROVE PromptIsOwn'
  <2>1. CASE work' = <<>>
    BY <2>1 DEF PromptIsOwn
  <2>2. CASE work' = work /\ place = "failed"
    BY <1>2, <1>3, <1>5, <1>10, <1>15, <2>2 DEF TurnsInv, PromptIsOwn, AgentTurn!IsCurrent
  <2>3. QED BY <1>3, <1>6, <2>1, <2>2
<1>16. ASSUME joined' = {}, NEW d \in TurnCalls PROVE AnswerWaits(d)'
  <2>1. AnswerWaits(d)
    BY <1>2, <1>16 DEF TurnsInv
  <2>2. QED BY <1>2, <1>5, <1>6, <2>1 DEF AnswerWaits, AgentTurn!IsCurrent
<1>17. QED BY <1>7, <1>8, <1>9, <1>11, <1>12, <1>13, <1>14, <1>15, <1>16 DEF TurnsInv

LEMMA TurnsStep == TurnsInv /\ [AgentTurn!Next]_agentVars => TurnsInv'
<1> SUFFICES ASSUME TurnsInv, [AgentTurn!Next]_agentVars PROVE TurnsInv'
  OBVIOUS
<1>1. ASSUME NEW c \in TurnCalls, AgentTurn!ResolveFails(c) PROVE TurnsInv'
  BY <1>1, TurnLeaves DEF AgentTurn!ResolveFails, AgentTurn!Running, AgentTurn!At, AgentTurn!Goto
<1>2. ASSUME NEW c \in TurnCalls,
             AgentTurn!SpawnFails(c) \/ AgentTurn!NotReady(c) \/ AgentTurn!NotAcked(c)
      PROVE  TurnsInv'
  BY <1>2, TurnFails
  DEF AgentTurn!SpawnFails, AgentTurn!NotReady, AgentTurn!NotAcked, AgentTurn!Running, AgentTurn!At,
      TurnBusy
<1>3. ASSUME NEW c \in TurnCalls, AgentTurn!Finish(c) PROVE TurnsInv'
  <2>1. /\ turnQueue # <<>> /\ Head(turnQueue) = c /\ agentCall[c].at = "waiting"
        /\ UNCHANGED <<launchAttempt, process, model, answer, work, joined>>
    BY <1>3 DEF AgentTurn!Finish, AgentTurn!Running, AgentTurn!At
  <2>2. CASE answer[c] \in TurnCalls
    BY <1>3, <2>1, <2>2, TurnLeaves DEF AgentTurn!Finish, AgentTurn!Goto
  <2>3. CASE answer[c] \notin TurnCalls
    BY <1>3, <2>1, <2>3, TurnFails DEF AgentTurn!Finish, TurnBusy
  <2>4. QED BY <2>2, <2>3
<1>4. ASSUME NEW c \in StartCalls, AgentTurn!Start(c) PROVE TurnsInv'
  <2>1. /\ agentCall[c].at = "idle" /\ launchAttempt' = c
        /\ agentCall' = [agentCall EXCEPT ![c] = [at |-> "spawning", attempt |-> c]]
        /\ UNCHANGED <<process, turnSession, turnQueue, model, answer, work, joined>>
    BY <1>4 DEF AgentTurn!Start, AgentTurn!At
  <2>2. /\ agentCall' \in [AgentTurn!LaunchCalls -> TurnPlaces]
        /\ agentCall'[c].at = "spawning" /\ agentCall'[c].attempt = c
        /\ \A d \in AgentTurn!LaunchCalls \ {c} : agentCall'[d] = agentCall[d]
    BY <2>1 DEF TurnsInv, TurnsTypeOK, TurnPlaces, TurnBusy, AgentTurn!LaunchCalls
  <2>3. QED BY <2>1, <2>2, AttemptIsReplaced
<1>5. ASSUME NEW c \in StopCalls, AgentTurn!Stop(c) PROVE TurnsInv'
  <2>1. /\ agentCall[c].at = "idle" /\ launchAttempt' = None /\ turnSession' = None
        /\ process' = None /\ work' = <<>>
        /\ agentCall' = [agentCall EXCEPT ![c].at = "ok"]
        /\ UNCHANGED <<turnQueue, model, answer, joined>>
    BY <1>5 DEF AgentTurn!Stop, AgentTurn!Kill, AgentTurn!At, AgentTurn!Goto
  <2>2. /\ agentCall' \in [AgentTurn!LaunchCalls -> TurnPlaces]
        /\ agentCall'[c].at = "ok" /\ agentCall'[c].attempt = agentCall[c].attempt
        /\ \A d \in AgentTurn!LaunchCalls \ {c} : agentCall'[d] = agentCall[d]
    BY <2>1 DEF TurnsInv, TurnsTypeOK, TurnPlaces, TurnBusy, AgentTurn!LaunchCalls
  <2>3. QED BY <2>1, <2>2, AttemptIsReplaced, TurnsAssumption
<1>6. CASE UNCHANGED agentVars
  BY <1>6
  DEF agentVars, TurnsInv, TurnsTypeOK, TurnQueued, AttemptsMade, StartPending, ProcessKnown, TurnRuns,
      PromptIsOwn, AnswerWaits, AgentTurn!IsCurrent, AgentTurn!At, AgentTurn!NothingAfterStop,
      AgentTurn!SessionIsKept
<1>7. QED
  BY <1>1, <1>2, <1>3, <1>4, <1>5, <1>6, TurnGoesOn, TurnResolves, TurnSpawns, TurnTypes, TurnIsSent,
     TurnHears, StartIsOver
  DEF AgentTurn!Next

LEMMA TurnsAnswer == TurnsInv => AgentTurn!AnswerIsOwn
<1> SUFFICES ASSUME TurnsInv, joined = {} PROVE
      (\A c \in TurnCalls : agentCall[c].at = "ok" => answer[c] = c) /\ Len(work) <= 1
  BY DEF AgentTurn!AnswerIsOwn, AgentTurn!At
<1>1. \A c \in TurnCalls : agentCall[c].at = "ok" => answer[c] = c
  BY DEF TurnsInv, AnswerWaits
<1>2. CASE work = <<>>
  BY <1>1, <1>2
<1>3. CASE work # <<>>
  <2>1. PICK c \in TurnCalls : work = <<c>>
    BY <1>3 DEF TurnsInv, PromptIsOwn
  <2>2. QED BY <1>1, <2>1
<1>4. QED BY <1>2, <1>3

\* No agent runs in a terminal that was stopped after its last start, the session
\* that turns use is that of its process, and a turn takes the answer to its own prompt.
THEOREM TurnsSafe == Spec => [](part = "turns" => TurnsInv)
<1>1. Init => (part = "turns" => TurnsInv)
  BY TurnsInitially DEF Init
<1>2. (part = "turns" => TurnsInv) /\ [Next]_partVars => (part = "turns" => TurnsInv)'
  BY TurnsMoves, TurnsStep, PartStays
<1>3. QED BY <1>1, <1>2, PTL DEF Spec

-----------------------------------------------------------------------------
(* codex-bridge-health.ts *)

HealthEntries == [id : Nat, state : {"none", "configuring", "connecting", "connected",
               "agents_available", "failed", "stopped"},
             agents : BOOLEAN, expects : BOOLEAN, timer : BOOLEAN]

WaiterTypes == [HealthWaiters -> [for : Nat, state : {"new", "waiting", "resolved", "rejected"}]]

HealthTypeOK ==
  /\ launch \in HealthEntries
  /\ configured \in Nat
  /\ waiter \in WaiterTypes

\* An entry that is connected made its handshake; one that is over is not the
\* terminal's, or shows it; and the ids of launches to come are new.
EntryIsHonest ==
  /\ Health!Connected(launch) => launch.id \in accepted
  /\ ~Health!Over(launch) => launch.id \notin over
  /\ over \cup {launch.id} \subseteq 0 .. configured
  /\ 0 \notin spawned /\ 0 \notin accepted

HealthInv == HealthTypeOK /\ EntryIsHonest /\ Health!ConnectedIsEarned

LEMMA HealthMoves ==
  ASSUME [Next]_partVars, part = "health"
  PROVE  [Health!Next]_healthVars
  BY DEF Next, partVars, healthVars

LEMMA HealthInitially == Health!Init => HealthInv
  BY DEF HealthInv, HealthTypeOK, WaiterTypes, HealthEntries, EntryIsHonest, Health!ConnectedIsEarned,
         Health!Init, Health!NoLaunch, Health!Connected, Health!Over

\* What emit makes of the waiters: one that resolves was waiting for this entry,
\* which is connected.
LEMMA ShowLemma ==
  ASSUME NEW ws \in WaiterTypes, NEW l \in HealthEntries
  PROVE  /\ Health!Show(ws, l) \in WaiterTypes
         /\ \A w \in HealthWaiters : Health!Show(ws, l)[w].state = "resolved" =>
              \/ ws[w].state = "resolved"
              \/ Health!Show(ws, l)[w].for = l.id /\ Health!Connected(l)
  BY DEF WaiterTypes, Health!Show, Health!Inspected

\* An entry that is shown: connected only with its handshake, and over if the
\* one before it was.
LEMMA EmitLemma ==
  ASSUME HealthInv, NEW l \in HealthEntries, NEW ws \in WaiterTypes, NEW hello,
         Health!Emit(l, ws, hello), accepted' = hello, accepted \subseteq hello,
         0 \notin hello, 0 \notin spawned',
         configured' \in Nat, configured <= configured', l.id \in 0 .. configured',
         Health!Connected(l) => l.id \in hello,
         Health!Over(launch) /\ l.id = launch.id => Health!Over(l),
         l.id = launch.id \/ l.id \notin 0 .. configured,
         \A w \in HealthWaiters : ws[w].state = "resolved" => waiter[w].state = "resolved"
  PROVE  HealthInv'
<1> USE DEF HealthInv, HealthTypeOK, WaiterTypes
<1>1. launch' = l /\ waiter' = Health!Show(ws, l) /\ over \subseteq over'
  BY DEF Health!Emit
<1>2. HealthTypeOK' BY <1>1, ShowLemma
<1>3. over' \subseteq over \cup {l.id} /\ (~Health!Over(l) => over' = over)
  BY DEF Health!Emit
<1>4. EntryIsHonest'
  BY <1>1, <1>3 DEF EntryIsHonest, Health!Connected, Health!Over
<1>5. \A w \in HealthWaiters : waiter'[w].state = "resolved" => w \in earned'
  <2> TAKE w \in HealthWaiters
  <2> HAVE waiter'[w].state = "resolved"
  <2>1. CASE ws[w].state = "resolved"
    BY <2>1 DEF Health!ConnectedIsEarned, Health!Emit
  <2>2. CASE waiter'[w].for = l.id /\ Health!Connected(l)
    BY <2>2 DEF Health!Emit
  <2>3. QED BY <1>1, <2>1, <2>2, ShowLemma
<1>6. Health!ConnectedIsEarned'
  BY <1>1, <1>4, <1>5 DEF EntryIsHonest, Health!ConnectedIsEarned, Health!Connected, Health!Over
<1>7. QED BY <1>2, <1>4, <1>6

\* The entries that a launch's own end, and another start, leave.
LEMMA EndedLemma ==
  ASSUME NEW l \in HealthEntries
  PROVE  /\ Health!Stopped(l) \in HealthEntries /\ Health!Failed(l) \in HealthEntries
         /\ Health!Stopped(l).id = l.id /\ Health!Failed(l).id = l.id
         /\ Health!Over(l) => Health!Over(Health!Stopped(l)) /\ Health!Over(Health!Failed(l))
         /\ Health!Connected(Health!Stopped(l)) \/ Health!Connected(Health!Failed(l))
              => Health!Connected(l)
  BY DEF HealthEntries, Health!Stopped, Health!Failed, Health!Over, Health!Connected

LEMMA HealthStep == HealthInv /\ [Health!Next]_healthVars => HealthInv'
<1> SUFFICES ASSUME HealthInv, [Health!Next]_healthVars PROVE HealthInv'
  OBVIOUS
<1>1. /\ launch \in HealthEntries /\ waiter \in WaiterTypes /\ configured \in Nat
      /\ launch.id \in 0 .. configured
      /\ Health!Connected(launch) => launch.id \in accepted
      /\ 0 \notin spawned /\ 0 \notin accepted
  BY DEF HealthInv, HealthTypeOK, EntryIsHonest, WaiterTypes
<1>2. CASE Health!Configure
  <2> DEFINE l == [id |-> configured + 1, state |-> "configuring", agents |-> FALSE,
                   expects |-> TRUE, timer |-> FALSE]
             ws == Health!Show(waiter, Health!Stopped(launch))
  <2>1. l \in HealthEntries /\ ~Health!Connected(l) /\ l.id \notin 0 .. configured /\ l.id # launch.id
    BY <1>1 DEF HealthEntries, Health!Connected
  <2>2. ws \in WaiterTypes /\ \A w \in HealthWaiters : ws[w].state = "resolved" =>
          waiter[w].state = "resolved" \/ Health!Connected(Health!Stopped(launch))
    BY <1>1, ShowLemma, EndedLemma
  <2>3. ~Health!Connected(Health!Stopped(launch))
    BY DEF Health!Connected, Health!Stopped, HealthInv, EntryIsHonest
  <2>4. Health!Emit(l, ws, accepted) /\ configured' = configured + 1 /\ accepted' = accepted
        /\ spawned' = spawned
    BY <1>2 DEF Health!Configure
  <2>5. l.id \in 0 .. configured' /\ configured <= configured' /\ configured' \in Nat
    BY <1>1, <2>4
  <2> HIDE DEF l, ws
  <2>6. \A w \in HealthWaiters : ws[w].state = "resolved" => waiter[w].state = "resolved"
    BY <2>2, <2>3 DEF HealthInv, EntryIsHonest
  <2>7. QED BY <1>1, <2>1, <2>2, <2>4, <2>5, <2>6, EmitLemma
<1>3. ASSUME Health!OnTerminalStart, UNCHANGED <<configured, accepted>>, 0 \notin spawned'
      PROVE  HealthInv'
  <2>1. CASE launch.expects
    <3>1. /\ launch' \in HealthEntries /\ launch'.id = launch.id /\ launch'.state = launch.state
          /\ UNCHANGED <<waiter, earned, over>>
      BY <1>1, <1>3, <2>1 DEF Health!OnTerminalStart, HealthEntries
    <3>2. QED
      BY <1>3, <3>1
      DEF HealthInv, HealthTypeOK, EntryIsHonest, Health!ConnectedIsEarned, Health!Connected,
          Health!Over
  <2>2. CASE ~launch.expects
    BY <1>1, <1>3, <2>2, EndedLemma, EmitLemma DEF Health!OnTerminalStart
  <2>3. QED BY <2>1, <2>2
<1>4. ASSUME NEW l, l \in {Health!Stopped(launch), Health!Failed(launch)},
             Health!Emit(l, waiter, accepted), UNCHANGED <<configured, accepted, spawned>>
      PROVE  HealthInv'
  BY <1>1, <1>4, EndedLemma, EmitLemma
<1>5. CASE Health!StartFailure \/ Health!StartupTimeout \/ Health!ErrorCode
  BY <1>4, <1>5 DEF Health!StartFailure, Health!StartupTimeout, Health!ErrorCode
<1>6. ASSUME Health!Quiet, UNCHANGED <<configured, accepted, spawned>> PROVE HealthInv'
  BY <1>6 DEF Health!Quiet, HealthInv, HealthTypeOK, EntryIsHonest, Health!ConnectedIsEarned,
              Health!Connected, Health!Over
<1>7. CASE Health!TerminalEnds \/ Health!StopTerminal
  BY <1>4, <1>6, <1>7 DEF Health!TerminalEnds, Health!StopTerminal
<1>8. ASSUME NEW id \in HealthLaunches, Health!Connecting(id) \/ Health!Handshake(id)
      PROVE  HealthInv'
  <2>1. CASE Health!Connecting(id)
    <3> DEFINE l == [launch EXCEPT !.state = "connecting", !.expects = TRUE, !.timer = TRUE]
    <3>1. l \in HealthEntries /\ l.id = launch.id /\ ~Health!Connected(l)
      BY <1>1 DEF HealthEntries, Health!Connected
    <3>2. Health!Emit(l, waiter, accepted) /\ ~Health!Over(launch) /\ UNCHANGED <<configured, accepted, spawned>>
      BY <2>1 DEF Health!Connecting
    <3> HIDE DEF l
    <3>3. QED BY <1>1, <3>1, <3>2, EmitLemma
  <2>2. CASE Health!Handshake(id)
    <3>1. PICK agents \in BOOLEAN :
            Health!Emit([launch EXCEPT !.state = IF agents THEN "agents_available" ELSE "connected",
                                       !.agents = agents, !.timer = FALSE],
                        waiter, accepted \cup {id})
      BY <2>2 DEF Health!Handshake
    <3> DEFINE l == [launch EXCEPT !.state = IF agents THEN "agents_available" ELSE "connected",
                                   !.agents = agents, !.timer = FALSE]
    <3>2. l \in HealthEntries /\ l.id = launch.id
      BY <1>1 DEF HealthEntries
    <3>3. /\ Health!Emit(l, waiter, accepted \cup {id}) /\ ~Health!Over(launch) /\ launch.id = id
          /\ accepted' = accepted \cup {id} /\ id \in spawned /\ UNCHANGED <<configured, spawned>>
      BY <2>2, <3>1 DEF Health!Handshake
    <3> HIDE DEF l
    <3>4. QED BY <1>1, <3>2, <3>3, EmitLemma
  <2>3. QED BY <1>8, <2>1, <2>2
<1>9. ASSUME NEW agents \in BOOLEAN, Health!RegistryChanged(agents) PROVE HealthInv'
  <2> DEFINE l == [launch EXCEPT !.agents = agents,
                                 !.state = IF agents THEN "agents_available" ELSE "connected"]
  <2>1. l \in HealthEntries /\ l.id = launch.id /\ ~Health!Over(launch)
    BY <1>1, <1>9 DEF HealthEntries, Health!RegistryChanged, Health!Connected, Health!Over
  <2>2. /\ Health!Emit(l, waiter, accepted) /\ Health!Connected(launch)
        /\ UNCHANGED <<configured, accepted, spawned>>
    BY <1>9 DEF Health!RegistryChanged
  <2> HIDE DEF l
  <2>3. QED BY <1>1, <2>1, <2>2, EmitLemma
<1>10. ASSUME NEW w \in HealthWaiters, Health!Wait(w) \/ Health!WaitTimeout(w) PROVE HealthInv'
  <2> USE DEF HealthInv, HealthTypeOK, EntryIsHonest, Health!ConnectedIsEarned,
              Health!Connected, Health!Over
  <2> DEFINE v == [for |-> launch.id, state |-> "waiting"]
  <2>1. CASE Health!Wait(w)
    <3>1. /\ v \in [for : Nat, state : {"new", "waiting", "resolved", "rejected"}]
          /\ Health!Inspected(v, launch) \in [for : Nat, state : {"new", "waiting", "resolved", "rejected"}]
          /\ Health!Inspected(v, launch).state = "resolved" => Health!Connected(launch)
      BY <1>1 DEF Health!Inspected, HealthEntries
    <3>2. waiter' = [waiter EXCEPT ![w] = waiter'[w]] /\ waiter'[w] \in
            {[waiter[w] EXCEPT !.state = "rejected"], Health!Inspected(v, launch)}
      BY <2>1 DEF Health!Wait, WaiterTypes
    <3>3. /\ waiter'[w].state = "resolved" => w \in earned'
          /\ earned \subseteq earned'
          /\ UNCHANGED <<launch, configured, accepted, spawned, over>>
      BY <1>1, <2>1, <3>1, <3>2 DEF Health!Wait, WaiterTypes
    <3>4. waiter' \in WaiterTypes
      BY <3>1, <3>2 DEF WaiterTypes
    <3>5. QED BY <3>2, <3>3, <3>4 DEF WaiterTypes
  <2>2. CASE Health!WaitTimeout(w)
    BY <2>2 DEF Health!WaitTimeout, WaiterTypes
  <2>3. QED BY <1>10, <2>1, <2>2
<1>11. CASE UNCHANGED healthVars
  BY <1>6, <1>11 DEF healthVars, Health!Quiet
<1>12. QED
  BY <1>1, <1>2, <1>3, <1>5, <1>7, <1>8, <1>9, <1>10, <1>11
  DEF Health!Next, Health!Spawn, Health!StartOther

\* A launch counts as connected by the handshake of its own, and never after it
\* failed or was stopped.
THEOREM HealthSafe == Spec => [](part = "health" => HealthInv)
<1>1. Init => (part = "health" => HealthInv)
  BY HealthInitially DEF Init
<1>2. (part = "health" => HealthInv) /\ [Next]_partVars => (part = "health" => HealthInv)'
  BY HealthMoves, HealthStep, PartStays
<1>3. QED BY <1>1, <1>2, PTL DEF Spec

-----------------------------------------------------------------------------
(* ai-memory-launcher.ts: sessions of the external memory *)

LaunchesOrNone == Launches \cup {None}

SessionsTypeOK ==
  /\ memoryLaunch \in
       [Launches -> {"new", "preparing", "reserved", "direct", "wrapped", "over"}]
  /\ attempt \in [Sessions!MemoryTerminals -> LaunchesOrNone]
  /\ memoryPty \in [Sessions!MemoryTerminals -> LaunchesOrNone]
  /\ reserved \in [Sessions!MemoryTerminals -> LaunchesOrNone]
  /\ session \in [Sessions!MemoryTerminals -> LaunchesOrNone]
  /\ lastKey \in [Sessions!MemoryTerminals -> LaunchesOrNone]
  /\ finished \subseteq Launches /\ inFlight \subseteq Launches /\ failed \subseteq Launches
  /\ overlapping \subseteq Sessions!MemoryTerminals /\ early \subseteq Sessions!MemoryTerminals

\* A reservation and a session are those of a launch of their terminal; the session
\* of a launch is there once, after the reservation.
OwnSession(t) ==
  /\ reserved[t] # None => TerminalOf[reserved[t]] = t /\ memoryLaunch[reserved[t]] = "reserved"
  /\ session[t] # None =>
       /\ TerminalOf[session[t]] = t
       /\ session[t] \notin finished
       /\ memoryLaunch[session[t]] \in {"wrapped", "over"}
       /\ session[t] \in {memoryPty[t]} \cup inFlight \cup failed

\* Only a launch that was registered is finalized; the terminal of the latest one
\* runs its PTY, or none.
Registered(l) ==
  /\ l \in finished \cup inFlight \cup failed => memoryLaunch[l] \in {"wrapped", "over"}
  /\ memoryLaunch[l] = "wrapped" /\ attempt[TerminalOf[l]] = l =>
       memoryPty[TerminalOf[l]] \in {l, None}

SessionsInv ==
  /\ SessionsTypeOK
  /\ \A t \in Sessions!MemoryTerminals : OwnSession(t)
  /\ \A l \in Launches : Registered(l)

LEMMA SessionsMoves ==
  ASSUME [Next]_partVars, part = "sessions"
  PROVE  [Sessions!Next]_sessionVars
  BY DEF Next, partVars, sessionVars

LEMMA SessionsInitially == Sessions!Init => SessionsInv
<1> SUFFICES ASSUME Sessions!Init PROVE SessionsInv
  OBVIOUS
<1>1. SessionsTypeOK
  BY DEF Sessions!Init, SessionsTypeOK, LaunchesOrNone
<1>2. \A t \in Sessions!MemoryTerminals : OwnSession(t)
  BY DEF Sessions!Init, OwnSession
<1>3. \A l \in Launches : Registered(l)
  BY DEF Sessions!Init, Registered
<1>4. QED BY <1>1, <1>2, <1>3 DEF SessionsInv

LEMMA TerminalIsThere == \A l \in Launches : TerminalOf[l] \in Sessions!MemoryTerminals
  BY DEF Sessions!MemoryTerminals

\* What the finalization of terminal t makes of a state, or what it is without one:
\* a session that stays is one whose command runs, unless its PTY stays too.
AfterFinalizing(t, f) ==
  /\ f.reserved \in [Sessions!MemoryTerminals -> LaunchesOrNone]
  /\ f.active \in [Sessions!MemoryTerminals -> LaunchesOrNone]
  /\ f.lastKey \in [Sessions!MemoryTerminals -> LaunchesOrNone]
  /\ f.finished \subseteq Launches /\ f.inFlight \subseteq Launches
  /\ f.overlapping \subseteq Sessions!MemoryTerminals /\ f.early \subseteq Sessions!MemoryTerminals
  /\ inFlight \subseteq f.inFlight
  /\ \A u \in Sessions!MemoryTerminals :
       f.reserved[u] \in {reserved[u], None} /\ f.active[u] \in {session[u], None}
  /\ \A u \in Sessions!MemoryTerminals \ {t} : f.active[u] = session[u]
  /\ \A l \in f.finished : l \in finished \/ (l = session[t] /\ f.active[t] = None)
  /\ \A l \in f.inFlight : l \in inFlight \/ l = session[t]

LEMMA FinalizingLemma ==
  ASSUME SessionsInv, NEW t \in Sessions!MemoryTerminals
  PROVE  /\ AfterFinalizing(t, Sessions!Finalized(t))
         /\ session[t] # None /\ Sessions!Finalized(t).active[t] # None =>
              session[t] \in Sessions!Finalized(t).inFlight
<1> DEFINE f == Sessions!Finalized(t)
<1> USE DEF SessionsInv, SessionsTypeOK
<1>1. /\ f.reserved = IF Sessions!Ignored(t) THEN reserved ELSE [reserved EXCEPT ![t] = None]
      /\ f.active = IF Sessions!WithoutCommand(t) THEN [session EXCEPT ![t] = None] ELSE session
      /\ f.finished = IF Sessions!WithoutCommand(t) THEN finished \cup {session[t]} ELSE finished
      /\ f.lastKey = IF Sessions!WithoutCommand(t) THEN [lastKey EXCEPT ![t] = session[t]] ELSE lastKey
      /\ f.inFlight = IF Sessions!WithCommand(t) THEN inFlight \cup {session[t]} ELSE inFlight
  BY DEF Sessions!Finalized
<1>2. /\ f.overlapping \subseteq overlapping
      /\ f.early \subseteq early \cup {t}
  BY DEF Sessions!Finalized
<1>3. /\ Sessions!WithoutCommand(t) \/ Sessions!WithCommand(t) => session[t] \in Launches
      /\ session[t] # None => Sessions!Ignored(t) \/ Sessions!WithoutCommand(t) \/ Sessions!WithCommand(t)
      /\ Sessions!Ignored(t) /\ session[t] # None => session[t] \in inFlight
  BY DEF Sessions!WithCommand, Sessions!WithoutCommand, Sessions!Ignored, Sessions!SessionKey,
    LaunchesOrNone, OwnSession
<1>4. session[t] # None /\ f.active[t] # None => session[t] \in f.inFlight
  BY <1>1, <1>3
<1>5. /\ f.reserved \in [Sessions!MemoryTerminals -> LaunchesOrNone]
      /\ f.active \in [Sessions!MemoryTerminals -> LaunchesOrNone]
  BY <1>1 DEF LaunchesOrNone
<1>6. f.lastKey \in [Sessions!MemoryTerminals -> LaunchesOrNone]
  BY <1>1, <1>3 DEF LaunchesOrNone
<1>7. /\ f.finished \subseteq Launches /\ f.inFlight \subseteq Launches
      /\ f.overlapping \subseteq Sessions!MemoryTerminals /\ f.early \subseteq Sessions!MemoryTerminals
      /\ inFlight \subseteq f.inFlight
  BY <1>1, <1>2, <1>3
<1>8. /\ \A u \in Sessions!MemoryTerminals :
           f.reserved[u] \in {reserved[u], None} /\ f.active[u] \in {session[u], None}
      /\ \A u \in Sessions!MemoryTerminals \ {t} : f.active[u] = session[u]
  BY <1>1
<1>9. /\ \A l \in f.finished : l \in finished \/ (l = session[t] /\ f.active[t] = None)
      /\ \A l \in f.inFlight : l \in inFlight \/ l = session[t]
  BY <1>1
<1> HIDE DEF f
<1>10. QED BY <1>4, <1>5, <1>6, <1>7, <1>8, <1>9 DEF AfterFinalizing, f

LEMMA WithoutFinalizing ==
  ASSUME SessionsInv, NEW t \in Sessions!MemoryTerminals
  PROVE  AfterFinalizing(t, Sessions!Current)
<1> DEFINE f == Sessions!Current
<1>1. /\ f.reserved = reserved /\ f.active = session /\ f.lastKey = lastKey
      /\ f.finished = finished /\ f.inFlight = inFlight
      /\ f.overlapping = overlapping /\ f.early = early
  BY DEF Sessions!Current
<1> HIDE DEF f
<1>2. AfterFinalizing(t, f)
  BY <1>1 DEF SessionsInv, SessionsTypeOK, AfterFinalizing
<1>3. QED BY <1>2 DEF f

LEMMA PrepareSessionLemma ==
  ASSUME SessionsInv, NEW l \in Launches, Sessions!Prepare(l)
  PROVE  SessionsInv'
<1> USE DEF SessionsInv, SessionsTypeOK
<1>1. /\ memoryLaunch[l] = "new" /\ memoryLaunch' = [memoryLaunch EXCEPT ![l] = "preparing"]
      /\ attempt' = [attempt EXCEPT ![TerminalOf[l]] = l]
      /\ early' = early \ {TerminalOf[l]}
      /\ UNCHANGED <<memoryPty, reserved, session, finished, lastKey, inFlight, overlapping, failed>>
  BY DEF Sessions!Prepare
<1>2. SessionsTypeOK'
  BY <1>1 DEF LaunchesOrNone
<1>3. ASSUME NEW t \in Sessions!MemoryTerminals PROVE OwnSession(t)'
  BY <1>1 DEF OwnSession, LaunchesOrNone
<1>4. ASSUME NEW k \in Launches PROVE Registered(k)'
  BY <1>1, TerminalIsThere DEF Registered
<1>5. QED BY <1>2, <1>3, <1>4

LEMMA ReserveLemma ==
  ASSUME SessionsInv, NEW l \in Launches, Sessions!Reserve(l)
  PROVE  SessionsInv'
<1> USE DEF SessionsInv, SessionsTypeOK
<1>1. /\ memoryLaunch[l] = "preparing"
      /\ \/ /\ reserved' = [reserved EXCEPT ![TerminalOf[l]] = l]
            /\ memoryLaunch' = [memoryLaunch EXCEPT ![l] = "reserved"]
         \/ memoryLaunch' = [memoryLaunch EXCEPT ![l] = "direct"] /\ reserved' = reserved
      /\ UNCHANGED <<attempt, memoryPty, session, finished, lastKey, inFlight, overlapping, early, failed>>
  BY DEF Sessions!Reserve
<1>2. SessionsTypeOK'
  BY <1>1 DEF LaunchesOrNone
<1>3. ASSUME NEW t \in Sessions!MemoryTerminals PROVE OwnSession(t)'
  BY <1>1 DEF OwnSession, LaunchesOrNone
<1>4. ASSUME NEW k \in Launches PROVE Registered(k)'
  BY <1>1, TerminalIsThere DEF Registered
<1>5. QED BY <1>2, <1>3, <1>4

LEMMA SupersededLemma ==
  ASSUME SessionsInv, NEW l \in Launches, Sessions!Superseded(l)
  PROVE  SessionsInv'
<1> USE DEF SessionsInv, SessionsTypeOK
<1>1. /\ memoryLaunch[l] \in {"reserved", "direct"}
      /\ memoryLaunch' = [memoryLaunch EXCEPT ![l] = "over"]
      /\ reserved' = IF reserved[TerminalOf[l]] = l
                     THEN [reserved EXCEPT ![TerminalOf[l]] = None] ELSE reserved
      /\ UNCHANGED <<attempt, memoryPty, session, finished, lastKey, inFlight, overlapping, early, failed>>
  BY DEF Sessions!Superseded
<1>2. SessionsTypeOK'
  BY <1>1 DEF LaunchesOrNone
<1>3. ASSUME NEW t \in Sessions!MemoryTerminals PROVE OwnSession(t)'
  BY <1>1 DEF OwnSession, LaunchesOrNone
<1>4. ASSUME NEW k \in Launches PROVE Registered(k)'
  BY <1>1, TerminalIsThere DEF Registered
<1>5. QED BY <1>2, <1>3, <1>4

LEMMA CommandEndsLemma ==
  ASSUME SessionsInv, NEW l \in Launches, Sessions!CommandEnds(l)
  PROVE  SessionsInv'
<1> USE DEF SessionsInv, SessionsTypeOK
<1>1. /\ l \in inFlight /\ inFlight' = inFlight \ {l}
      /\ \/ /\ session' = [session EXCEPT ![TerminalOf[l]] = None]
            /\ overlapping' = overlapping \ {TerminalOf[l]}
            /\ finished' = finished \cup {l}
            /\ lastKey' = [lastKey EXCEPT ![TerminalOf[l]] = l]
            /\ failed' = failed
         \/ /\ failed' = failed \cup {l}
            /\ UNCHANGED <<session, overlapping, finished, lastKey>>
      /\ UNCHANGED <<memoryLaunch, attempt, memoryPty, reserved, early>>
  BY DEF Sessions!CommandEnds
<1>2. SessionsTypeOK'
  BY <1>1 DEF LaunchesOrNone
<1>3. ASSUME NEW t \in Sessions!MemoryTerminals PROVE OwnSession(t)'
  BY <1>1 DEF OwnSession, LaunchesOrNone
<1>4. ASSUME NEW k \in Launches PROVE Registered(k)'
  BY <1>1 DEF Registered
<1>5. QED BY <1>2, <1>3, <1>4

\* Exit and Stop: the PTY is gone, so that its session must be on its way.
LEMMA FinalizeLemma ==
  ASSUME SessionsInv, NEW t \in Sessions!MemoryTerminals, Sessions!FinalizeNow(t),
         memoryPty' = [memoryPty EXCEPT ![t] = None],
         attempt' \in {attempt, [attempt EXCEPT ![t] = None]},
         UNCHANGED <<memoryLaunch, failed>>
  PROVE  SessionsInv'
<1> DEFINE f == Sessions!Finalized(t)
<1> USE DEF SessionsInv, SessionsTypeOK
<1>1. /\ reserved' = f.reserved /\ session' = f.active /\ finished' = f.finished
      /\ lastKey' = f.lastKey /\ inFlight' = f.inFlight
      /\ overlapping' = f.overlapping /\ early' = f.early
  BY DEF Sessions!FinalizeNow
<1>2. /\ AfterFinalizing(t, f)
      /\ session[t] # None /\ f.active[t] # None => session[t] \in f.inFlight
  BY FinalizingLemma
<1> HIDE DEF f
<1>3. SessionsTypeOK'
  BY <1>1, <1>2 DEF LaunchesOrNone, AfterFinalizing
<1>4. ASSUME NEW u \in Sessions!MemoryTerminals PROVE OwnSession(u)'
  <2>1. reserved'[u] # None => TerminalOf[reserved'[u]] = u /\ memoryLaunch[reserved'[u]] = "reserved"
    BY <1>1, <1>2 DEF OwnSession, AfterFinalizing
  <2>2. ASSUME session'[u] # None
        PROVE  /\ TerminalOf[session'[u]] = u /\ session'[u] \notin finished'
               /\ memoryLaunch[session'[u]] \in {"wrapped", "over"}
               /\ session'[u] \in {memoryPty'[u]} \cup inFlight' \cup failed
    <3>1. session'[u] = session[u] /\ (u = t => session[t] \in inFlight')
      BY <1>1, <1>2, <2>2 DEF AfterFinalizing
    <3>2. /\ TerminalOf[session[u]] = u /\ session[u] \notin finished
          /\ memoryLaunch[session[u]] \in {"wrapped", "over"}
          /\ session[u] \in {memoryPty[u]} \cup inFlight \cup failed
      BY <2>2, <3>1 DEF OwnSession
    <3>3. session[u] \notin finished'
      <4>1. SUFFICES ASSUME session[u] \in finished' PROVE FALSE
        OBVIOUS
      <4>2. session[u] = session[t] /\ f.active[t] = None
        BY <1>1, <1>2, <3>2, <4>1 DEF AfterFinalizing
      <4>3. u = t
        BY <2>2, <3>1, <3>2, <4>2 DEF OwnSession
      <4>4. QED BY <1>1, <2>2, <4>2, <4>3
    <3>4. session[u] \in {memoryPty'[u]} \cup inFlight' \cup failed
      BY <1>1, <1>2, <3>1, <3>2 DEF AfterFinalizing
    <3>5. QED BY <3>1, <3>2, <3>3, <3>4
  <2>3. QED BY <2>1, <2>2 DEF OwnSession
<1>5. ASSUME NEW k \in Launches PROVE Registered(k)'
  <2>1. k \in finished' \cup inFlight' \cup failed => memoryLaunch[k] \in {"wrapped", "over"}
    BY <1>1, <1>2, LaunchesAssumption DEF Registered, OwnSession, AfterFinalizing
  <2>2. memoryLaunch[k] = "wrapped" /\ attempt'[TerminalOf[k]] = k =>
          memoryPty'[TerminalOf[k]] \in {k, None}
    BY TerminalIsThere, LaunchesAssumption DEF Registered
  <2>3. QED BY <2>1, <2>2 DEF Registered
<1>6. QED BY <1>3, <1>4, <1>5

\* What a launch that starts, or falls back, does to its terminal's session.
LEMMA StartedLemma ==
  ASSUME SessionsInv, NEW l \in Launches, NEW f,
         AfterFinalizing(TerminalOf[l], f),
         f.active[TerminalOf[l]] \notin {l, None} =>
           f.active[TerminalOf[l]] \in f.inFlight \cup failed,
         memoryLaunch[l] \in {"reserved", "direct", "wrapped"}, attempt[TerminalOf[l]] = l,
         NEW to \in {"wrapped", "over"}, memoryLaunch' = [memoryLaunch EXCEPT ![l] = to],
         NEW p \in {l, None}, memoryPty' = [memoryPty EXCEPT ![TerminalOf[l]] = p],
         finished' = f.finished, inFlight' = f.inFlight, UNCHANGED <<attempt, failed>>,
         reserved' = IF f.reserved[TerminalOf[l]] = l
                     THEN [f.reserved EXCEPT ![TerminalOf[l]] = None] ELSE f.reserved,
         \/ session' = [f.active EXCEPT ![TerminalOf[l]] = None]
         \/ session' = f.active /\ f.active[TerminalOf[l]] # l
         \/ session' = [f.active EXCEPT ![TerminalOf[l]] = l] /\ p = l /\ memoryLaunch[l] = "reserved",
         lastKey' \in {f.lastKey, [f.lastKey EXCEPT ![TerminalOf[l]] = None]},
         overlapping' \subseteq Sessions!MemoryTerminals, early' \subseteq Sessions!MemoryTerminals
  PROVE  SessionsInv'
<1> DEFINE t == TerminalOf[l]
<1> USE DEF SessionsInv, SessionsTypeOK
<1>1. t \in Sessions!MemoryTerminals
  BY TerminalIsThere
<1>2. SessionsTypeOK'
  <2>1. /\ memoryLaunch' \in
             [Launches -> {"new", "preparing", "reserved", "direct", "wrapped", "over"}]
        /\ attempt' \in [Sessions!MemoryTerminals -> LaunchesOrNone]
        /\ memoryPty' \in [Sessions!MemoryTerminals -> LaunchesOrNone]
    BY DEF LaunchesOrNone
  <2>2. reserved' \in [Sessions!MemoryTerminals -> LaunchesOrNone]
    BY DEF LaunchesOrNone, AfterFinalizing
  <2>3. session' \in [Sessions!MemoryTerminals -> LaunchesOrNone]
    BY DEF LaunchesOrNone, AfterFinalizing
  <2>4. lastKey' \in [Sessions!MemoryTerminals -> LaunchesOrNone]
    BY DEF LaunchesOrNone, AfterFinalizing
  <2>5. QED BY <2>1, <2>2, <2>3, <2>4 DEF AfterFinalizing
<1>3. ASSUME NEW u \in Sessions!MemoryTerminals PROVE OwnSession(u)'
  <2>1. ASSUME reserved'[u] # None
        PROVE  TerminalOf[reserved'[u]] = u /\ memoryLaunch'[reserved'[u]] = "reserved"
    <3>1. reserved'[u] = reserved[u] /\ TerminalOf[reserved[u]] = u /\ memoryLaunch[reserved[u]] = "reserved"
      BY <1>1, <2>1 DEF AfterFinalizing, OwnSession
    <3>2. reserved[u] # l
      BY <1>1, <2>1, <3>1 DEF AfterFinalizing
    <3>3. reserved[u] \in Launches
      BY <2>1, <3>1 DEF LaunchesOrNone
    <3>4. QED BY <3>1, <3>2, <3>3
  <2>2. ASSUME session'[u] # None
        PROVE  /\ TerminalOf[session'[u]] = u /\ session'[u] \notin finished'
               /\ memoryLaunch'[session'[u]] \in {"wrapped", "over"}
               /\ session'[u] \in {memoryPty'[u]} \cup inFlight' \cup failed
    <3>1. CASE u = t /\ session'[u] = l /\ p = l /\ memoryLaunch[l] = "reserved"
      <4>1. l \notin finished /\ session[t] # l
        BY <1>1, <3>1, LaunchesAssumption DEF Registered, OwnSession
      <4>2. l \notin finished'
        BY <4>1 DEF AfterFinalizing
      <4>3. QED BY <1>1, <3>1, <4>2
    <3>2. CASE session'[u] = f.active[u] /\ (u = t => session'[u] # l)
      <4>1. session'[u] = session[u] /\ session[u] \in Launches
        BY <2>2, <3>2 DEF AfterFinalizing, LaunchesOrNone
      <4>2. /\ TerminalOf[session[u]] = u /\ session[u] \notin finished
            /\ memoryLaunch[session[u]] \in {"wrapped", "over"}
            /\ session[u] \in {memoryPty[u]} \cup inFlight \cup failed
        BY <2>2, <4>1 DEF OwnSession
      <4>3. session[u] \notin finished'
        <5>1. SUFFICES ASSUME session[u] \in finished' PROVE FALSE
          OBVIOUS
        <5>2. session[u] = session[t] /\ f.active[t] = None
          BY <4>2, <5>1 DEF AfterFinalizing
        <5>3. u = t
          BY <1>1, <2>2, <4>1, <4>2, <5>2 DEF OwnSession
        <5>4. QED BY <2>2, <3>2, <5>2, <5>3
      <4>4. session[u] # l
        BY <3>2, <4>1, <4>2
      <4>5. memoryLaunch'[session[u]] \in {"wrapped", "over"}
        BY <4>1, <4>2, <4>4
      <4>6. session[u] \in {memoryPty'[u]} \cup inFlight' \cup failed
        <5>1. CASE u = t
          BY <2>2, <3>2, <4>1, <5>1
        <5>2. CASE u # t
          BY <1>1, <4>2, <5>2 DEF AfterFinalizing
        <5>3. QED BY <5>1, <5>2
      <4>7. QED BY <4>1, <4>2, <4>3, <4>5, <4>6
    <3>3. QED BY <1>1, <2>2, <3>1, <3>2 DEF AfterFinalizing
  <2>3. QED BY <2>1, <2>2 DEF OwnSession
<1>4. ASSUME NEW k \in Launches PROVE Registered(k)'
  <2>1. ASSUME k \in finished' \cup inFlight' \cup failed' PROVE memoryLaunch'[k] \in {"wrapped", "over"}
    <3>1. CASE k = l BY <3>1
    <3>2. CASE k # l
      <4>1. memoryLaunch[k] \in {"wrapped", "over"}
        BY <1>1, <2>1, LaunchesAssumption DEF Registered, OwnSession, AfterFinalizing
      <4>2. QED BY <3>2, <4>1
    <3>3. QED BY <3>1, <3>2
  <2>2. ASSUME memoryLaunch'[k] = "wrapped", attempt'[TerminalOf[k]] = k
        PROVE  memoryPty'[TerminalOf[k]] \in {k, None}
    <3>1. CASE TerminalOf[k] = t
      BY <1>1, <2>2, <3>1
    <3>2. CASE TerminalOf[k] # t
      BY <2>2, <3>2, TerminalIsThere DEF Registered
    <3>3. QED BY <3>1, <3>2
  <2>3. QED BY <2>1, <2>2 DEF Registered
<1>5. QED BY <1>2, <1>3, <1>4

\* rollbackAiMemoryLaunch, as StartedLemma needs it.
LEMMA RollbackLemma ==
  ASSUME NEW l \in Launches, NEW f, AfterFinalizing(TerminalOf[l], f), Sessions!Rollback(l, f)
  PROVE  /\ reserved' = IF f.reserved[TerminalOf[l]] = l
                        THEN [f.reserved EXCEPT ![TerminalOf[l]] = None] ELSE f.reserved
         /\ \/ session' = [f.active EXCEPT ![TerminalOf[l]] = None]
            \/ session' = f.active /\ f.active[TerminalOf[l]] # l
         /\ lastKey' = f.lastKey
         /\ overlapping' \subseteq Sessions!MemoryTerminals
         /\ early' \subseteq Sessions!MemoryTerminals
<1>1. TerminalOf[l] \in Sessions!MemoryTerminals
  BY TerminalIsThere
<1>2. /\ reserved' = IF f.reserved[TerminalOf[l]] = l
                     THEN [f.reserved EXCEPT ![TerminalOf[l]] = None] ELSE f.reserved
      /\ session' = IF f.active[TerminalOf[l]] = l
                    THEN [f.active EXCEPT ![TerminalOf[l]] = None] ELSE f.active
      /\ lastKey' = f.lastKey
      /\ overlapping' \subseteq f.overlapping
      /\ early' \subseteq f.early \cup {TerminalOf[l]}
  BY DEF Sessions!Rollback
<1>3. QED BY <1>1, <1>2 DEF AfterFinalizing

LEMMA RegisterLemma ==
  ASSUME NEW l \in Launches, NEW f, AfterFinalizing(TerminalOf[l], f), Sessions!Register(l, f)
  PROVE  /\ reserved' = IF f.reserved[TerminalOf[l]] = l
                        THEN [f.reserved EXCEPT ![TerminalOf[l]] = None] ELSE f.reserved
         /\ \/ session' = [f.active EXCEPT ![TerminalOf[l]] = None]
            \/ session' = [f.active EXCEPT ![TerminalOf[l]] = l]
         /\ lastKey' \in {f.lastKey, [f.lastKey EXCEPT ![TerminalOf[l]] = None]}
         /\ overlapping' \subseteq Sessions!MemoryTerminals
         /\ early' \subseteq Sessions!MemoryTerminals
<1>1. TerminalOf[l] \in Sessions!MemoryTerminals
  BY TerminalIsThere
<1>2. Sessions!Parallel(l, f.active) \subseteq Sessions!MemoryTerminals
  BY DEF Sessions!Parallel
<1>3. QED BY <1>1, <1>2 DEF Sessions!Register, AfterFinalizing

LEMMA StartSessionLemma ==
  ASSUME SessionsInv, NEW l \in Launches, Sessions!Start(l)
  PROVE  SessionsInv'
<1> DEFINE t == TerminalOf[l]
           f == IF memoryPty[t] # None THEN Sessions!Finalized(t) ELSE Sessions!Current
<1>1. t \in Sessions!MemoryTerminals
  BY TerminalIsThere
<1>2. AfterFinalizing(t, f)
  BY <1>1, FinalizingLemma, WithoutFinalizing
<1>3. f.active[t] # None => f.active[t] \in f.inFlight \cup failed
  <2>1. CASE memoryPty[t] # None
    BY <1>1, <1>2, <2>1, FinalizingLemma DEF AfterFinalizing
  <2>2. CASE memoryPty[t] = None
    BY <1>1, <2>2 DEF Sessions!Current, SessionsInv, OwnSession
  <2>3. QED BY <2>1, <2>2
<1>4. /\ memoryLaunch[l] \in {"reserved", "direct"} /\ attempt[t] = l
      /\ finished' = f.finished /\ inFlight' = f.inFlight
      /\ \/ /\ memoryLaunch[l] = "reserved"
            /\ memoryLaunch' = [memoryLaunch EXCEPT ![l] = "wrapped"]
            /\ memoryPty' = [memoryPty EXCEPT ![t] = l]
            /\ Sessions!Register(l, f)
         \/ /\ memoryLaunch[l] = "reserved"
            /\ \E p \in {l, None} : memoryPty' = [memoryPty EXCEPT ![t] = p]
            /\ memoryLaunch' = [memoryLaunch EXCEPT ![l] = "over"]
            /\ Sessions!Rollback(l, f)
         \/ /\ memoryLaunch[l] = "direct"
            /\ \E p \in {l, None} : memoryPty' = [memoryPty EXCEPT ![t] = p]
            /\ memoryLaunch' = [memoryLaunch EXCEPT ![l] = "over"]
            /\ reserved' = f.reserved /\ session' = f.active /\ lastKey' = f.lastKey
            /\ overlapping' = f.overlapping /\ early' = f.early
      /\ UNCHANGED <<attempt, failed>>
  BY DEF Sessions!Start
<1> HIDE DEF f
<1>5. CASE /\ memoryLaunch[l] = "reserved"
           /\ memoryLaunch' = [memoryLaunch EXCEPT ![l] = "wrapped"]
           /\ memoryPty' = [memoryPty EXCEPT ![t] = l]
           /\ Sessions!Register(l, f)
  BY <1>2, <1>3, <1>4, <1>5, RegisterLemma, StartedLemma
<1>6. CASE /\ memoryLaunch[l] = "reserved"
           /\ \E p \in {l, None} : memoryPty' = [memoryPty EXCEPT ![t] = p]
           /\ memoryLaunch' = [memoryLaunch EXCEPT ![l] = "over"]
           /\ Sessions!Rollback(l, f)
  BY <1>2, <1>3, <1>4, <1>6, RollbackLemma, StartedLemma
<1>7. CASE /\ memoryLaunch[l] = "direct"
           /\ \E p \in {l, None} : memoryPty' = [memoryPty EXCEPT ![t] = p]
           /\ memoryLaunch' = [memoryLaunch EXCEPT ![l] = "over"]
           /\ reserved' = f.reserved /\ session' = f.active /\ lastKey' = f.lastKey
           /\ overlapping' = f.overlapping /\ early' = f.early
  <2>1. f.reserved[t] # l /\ f.active[t] # l
    BY <1>1, <1>2, <1>7, LaunchesAssumption DEF AfterFinalizing, SessionsInv, OwnSession
  <2>2. overlapping' \subseteq Sessions!MemoryTerminals /\ early' \subseteq Sessions!MemoryTerminals
    BY <1>2, <1>7 DEF AfterFinalizing
  <2>3. QED BY <1>2, <1>3, <1>4, <1>7, <2>1, <2>2, StartedLemma
<1>8. QED BY <1>4, <1>5, <1>6, <1>7

LEMMA FallBackLemma ==
  ASSUME SessionsInv, NEW l \in Launches, Sessions!FallBack(l)
  PROVE  SessionsInv'
<1> DEFINE t == TerminalOf[l]
           f == Sessions!Current
<1>1. t \in Sessions!MemoryTerminals
  BY TerminalIsThere
<1>2. AfterFinalizing(t, f)
  BY <1>1, WithoutFinalizing
<1>3. /\ memoryLaunch[l] = "wrapped" /\ attempt[t] = l
      /\ memoryLaunch' = [memoryLaunch EXCEPT ![l] = "over"]
      /\ \E p \in {l, None} : memoryPty' = [memoryPty EXCEPT ![t] = p]
      /\ Sessions!Rollback(l, f) /\ finished' = f.finished /\ inFlight' = f.inFlight
      /\ UNCHANGED <<attempt, failed>>
  BY DEF Sessions!FallBack, Sessions!Current
<1>4. f.active[t] \notin {l, None} => f.active[t] \in f.inFlight \cup failed
  BY <1>1, <1>3 DEF Sessions!Current, SessionsInv, OwnSession, Registered
<1> HIDE DEF f
<1>5. QED BY <1>2, <1>3, <1>4, RollbackLemma, StartedLemma

LEMMA SessionsStep == SessionsInv /\ [Sessions!Next]_sessionVars => SessionsInv'
<1> SUFFICES ASSUME SessionsInv, [Sessions!Next]_sessionVars PROVE SessionsInv'
  OBVIOUS
<1>1. CASE UNCHANGED sessionVars
  BY <1>1 DEF sessionVars, SessionsInv, SessionsTypeOK, OwnSession, Registered
<1>2. ASSUME NEW l \in Launches,
             \/ Sessions!Prepare(l) \/ Sessions!Reserve(l) \/ Sessions!Superseded(l)
             \/ Sessions!Start(l) \/ Sessions!FallBack(l) \/ Sessions!CommandEnds(l)
      PROVE  SessionsInv'
  BY <1>2, PrepareSessionLemma, ReserveLemma, SupersededLemma, StartSessionLemma, FallBackLemma, CommandEndsLemma
<1>3. ASSUME NEW t \in Sessions!MemoryTerminals, Sessions!Exit(t)
      PROVE  SessionsInv'
  BY <1>3, FinalizeLemma DEF Sessions!Exit
<1>4. ASSUME NEW t \in Sessions!MemoryTerminals, Sessions!Stop(t)
      PROVE  SessionsInv'
  <2>1. CASE memoryPty[t] # None
    BY <1>4, <2>1, FinalizeLemma DEF Sessions!Stop
  <2>2. CASE memoryPty[t] = None
    <3>1. /\ attempt' = [attempt EXCEPT ![t] = None]
          /\ UNCHANGED <<memoryLaunch, memoryPty, reserved, session, finished, lastKey, inFlight,
                         overlapping, early, failed>>
      BY <1>4, <2>2 DEF Sessions!Stop
    <3>2. SessionsTypeOK' /\ \A u \in Sessions!MemoryTerminals : OwnSession(u)'
      BY <3>1 DEF SessionsInv, SessionsTypeOK, OwnSession, LaunchesOrNone
    <3>3. \A l \in Launches : Registered(l)'
      BY <3>1, TerminalIsThere, LaunchesAssumption DEF SessionsInv, SessionsTypeOK, Registered
    <3>4. QED BY <3>2, <3>3 DEF SessionsInv
  <2>3. QED BY <2>1, <2>2
<1>5. QED BY <1>1, <1>2, <1>3, <1>4 DEF Sessions!Next

\* A session that ended keeps no scope busy.
LEMMA SessionsFree == SessionsInv => Sessions!ScopeIsFreed
  BY DEF SessionsInv, OwnSession, Sessions!ScopeIsFreed

\* The scope of a project's memory is freed, whatever launches, stops, exits and
\* finalizations follow one another on its terminals.
THEOREM SessionsSafe == Spec => [](part = "sessions" => SessionsInv)
<1>1. Init => (part = "sessions" => SessionsInv)
  BY SessionsInitially DEF Init
<1>2. (part = "sessions" => SessionsInv) /\ [Next]_partVars => (part = "sessions" => SessionsInv)'
  BY SessionsMoves, SessionsStep, PartStays
<1>3. QED BY <1>1, <1>2, PTL DEF Spec

-----------------------------------------------------------------------------
(* agent-task-delivery.ts and WorkspaceTerminal.tsx: deliveries of tasks *)

DeliveryTypeOK ==
  /\ newest \in 0 .. MaxTasks /\ (task = None \/ (task = newest /\ newest # 0))
  /\ mounted \in Mounts \cup {0}
  /\ slot \in (1 .. newest) \cup {None}
  /\ completed \in [Mounts -> Delivery!Tasks \cup {None}]
  /\ delivered \in [Mounts -> SUBSET canvasTold] /\ failures \in [Mounts -> SUBSET canvasTold]
  /\ deliveries \in [Delivery!Tasks -> {"none", "in-flight", "delivered"}]
  /\ deliveredTimes \in [Delivery!Tasks -> Nat]
  /\ sending \subseteq Mounts \X (1 .. newest) /\ awaiting \subseteq Mounts \X (1 .. newest)
  /\ owed \subseteq 1 .. newest /\ printed \subseteq 1 .. newest /\ canvasTold \subseteq 1 .. newest

\* A task is on its way once, or not at all, and was delivered as often as the
\* registry says.
OnItsWay(t) ==
  /\ deliveries[t] = "none" => deliveredTimes[t] = 0
  /\ deliveries[t] = "in-flight" => deliveredTimes[t] = 0
  /\ deliveries[t] = "delivered" => deliveredTimes[t] = 1
  /\ deliveries[t] # "in-flight" => \A m \in Mounts : <<m, t>> \notin sending
  /\ \A m, n \in Mounts : <<m, t>> \in sending /\ <<n, t>> \in sending => m = n

\* The newest task that somebody works on has the slot until the canvas is told.
SlotNamesIt ==
  /\ newest # 0 /\ newest \notin canvasTold
  /\ newest \in owed \/ \E m \in Mounts : <<m, newest>> \in sending \cup awaiting
  => slot = newest

DeliveryInv ==
  DeliveryTypeOK /\ (\A t \in Delivery!Tasks : OnItsWay(t)) /\ SlotNamesIt /\ ~unnamed

LEMMA DeliveryMoves ==
  ASSUME [Next]_partVars, part = "delivery"
  PROVE  [Delivery!Next]_deliveryVars
  BY DEF Next, partVars, deliveryVars

LEMMA DeliveryInitially == Delivery!Init => DeliveryInv
<1> SUFFICES ASSUME Delivery!Init PROVE DeliveryInv
  OBVIOUS
<1>1. DeliveryTypeOK
  BY DeliveryAssumption DEF Delivery!Init, DeliveryTypeOK
<1>2. (\A t \in Delivery!Tasks : OnItsWay(t)) /\ SlotNamesIt /\ ~unnamed
  BY DEF Delivery!Init, OnItsWay, SlotNamesIt
<1>3. QED BY <1>1, <1>2 DEF DeliveryInv

\* The slot loses the name of the newest task only when the canvas is told.
LEMMA SlotLemma ==
  ASSUME DeliveryInv, UNCHANGED newest, canvasTold \subseteq canvasTold',
         (newest \in owed' \/ \E m \in Mounts : <<m, newest>> \in sending' \cup awaiting') =>
           (newest \in owed \/ \E m \in Mounts : <<m, newest>> \in sending \cup awaiting) \/ slot' = newest,
         slot = newest /\ slot' # newest => newest \in canvasTold' \/ newest = 0
  PROVE  SlotNamesIt'
  BY DEF DeliveryInv, SlotNamesIt

\* A delivery is claimed, and sent, by one who found none under way.
LEMMA ClaimLemma ==
  ASSUME DeliveryInv, NEW m \in Mounts, NEW t \in 1 .. newest, Delivery!ClaimDelivery(m, t),
         UNCHANGED deliveredTimes
  PROVE  /\ deliveries' \in [Delivery!Tasks -> {"none", "in-flight", "delivered"}]
         /\ sending' \subseteq Mounts \X (1 .. newest) /\ awaiting' \subseteq Mounts \X (1 .. newest)
         /\ sending' \cup awaiting' \subseteq sending \cup awaiting \cup {<<m, t>>}
         /\ \A u \in Delivery!Tasks : OnItsWay(u)'
<1>1. t \in Delivery!Tasks
  BY DeliveryAssumption DEF DeliveryInv, DeliveryTypeOK, Delivery!Tasks
<1>2. CASE deliveries[t] = "none"
  <2>1. /\ deliveries' = [deliveries EXCEPT ![t] = "in-flight"]
        /\ sending' = sending \cup {<<m, t>>} /\ awaiting' = {w \in awaiting : w[1] # m}
    BY <1>2 DEF Delivery!ClaimDelivery, Delivery!Left
  <2>2. ASSUME NEW u \in Delivery!Tasks PROVE OnItsWay(u)'
    BY <1>1, <1>2, <2>1 DEF DeliveryInv, DeliveryTypeOK, OnItsWay
  <2>3. QED BY <1>1, <2>1, <2>2 DEF DeliveryInv, DeliveryTypeOK
<1>3. CASE deliveries[t] # "none"
  <2>1. /\ UNCHANGED <<deliveries, sending>>
        /\ awaiting' = {w \in awaiting : w[1] # m} \cup {<<m, t>>}
    BY <1>3 DEF Delivery!ClaimDelivery, Delivery!Left
  <2>2. ASSUME NEW u \in Delivery!Tasks PROVE OnItsWay(u)'
    BY <2>1 DEF DeliveryInv, OnItsWay
  <2>3. QED BY <2>1, <2>2 DEF DeliveryInv, DeliveryTypeOK
<1>4. QED BY <1>2, <1>3

\* A delivery that is under way ends.
LEMMA SettleLemma ==
  ASSUME DeliveryInv, NEW m \in Mounts, NEW t \in 1 .. newest, <<m, t>> \in sending,
         sending' = sending \ {<<m, t>>}, NEW ok \in BOOLEAN, Delivery!Settle(t, ok)
  PROVE  /\ deliveries' \in [Delivery!Tasks -> {"none", "in-flight", "delivered"}]
         /\ deliveredTimes' \in [Delivery!Tasks -> Nat]
         /\ sending' \subseteq Mounts \X (1 .. newest)
         /\ \A u \in Delivery!Tasks : OnItsWay(u)'
<1>1. t \in Delivery!Tasks
  BY DeliveryAssumption DEF DeliveryInv, DeliveryTypeOK, Delivery!Tasks
<1>2. deliveries[t] = "in-flight" /\ deliveredTimes[t] = 0
  BY <1>1 DEF DeliveryInv, DeliveryTypeOK, OnItsWay
<1>3. CASE ok = TRUE
  <2>1. /\ deliveries' = [deliveries EXCEPT ![t] = "delivered"]
        /\ deliveredTimes' = [deliveredTimes EXCEPT ![t] = @ + 1]
    BY <1>2, <1>3 DEF Delivery!Settle
  <2>2. ASSUME NEW u \in Delivery!Tasks PROVE OnItsWay(u)'
    BY <1>1, <1>2, <2>1 DEF DeliveryInv, DeliveryTypeOK, OnItsWay
  <2>3. QED BY <1>1, <2>1, <2>2 DEF DeliveryInv, DeliveryTypeOK
<1>4. CASE ok = FALSE
  <2>1. deliveries' = [deliveries EXCEPT ![t] = "none"] /\ UNCHANGED deliveredTimes
    BY <1>2, <1>4 DEF Delivery!Settle
  <2>2. ASSUME NEW u \in Delivery!Tasks PROVE OnItsWay(u)'
    BY <1>1, <1>2, <2>1 DEF DeliveryInv, DeliveryTypeOK, OnItsWay
  <2>3. QED BY <1>1, <2>1, <2>2 DEF DeliveryInv, DeliveryTypeOK
<1>5. QED BY <1>3, <1>4

\* The component comes and goes, and tasks are queued.
LEMMA ComponentLemma ==
  ASSUME DeliveryInv, Delivery!QueueAgentTask \/ Delivery!Mount \/ Delivery!Unmount
  PROVE  DeliveryInv'
<1>1. CASE Delivery!QueueAgentTask
  <2>1. DeliveryTypeOK'
    BY <1>1, DeliveryAssumption DEF Delivery!QueueAgentTask, DeliveryInv, DeliveryTypeOK, Delivery!Tasks
  <2>2. \A t \in Delivery!Tasks : OnItsWay(t)'
    BY <1>1 DEF Delivery!QueueAgentTask, DeliveryInv, OnItsWay
  <2>3. newest' \notin owed' /\ \A m \in Mounts : <<m, newest'>> \notin sending' \cup awaiting'
    BY <1>1 DEF Delivery!QueueAgentTask, DeliveryInv, DeliveryTypeOK
  <2>4. QED BY <1>1, <2>1, <2>2, <2>3 DEF Delivery!QueueAgentTask, DeliveryInv, SlotNamesIt
<1>2. CASE Delivery!Mount
  BY <1>2 DEF Delivery!Mount, DeliveryInv, DeliveryTypeOK, OnItsWay, SlotNamesIt
<1>3. CASE Delivery!Unmount
  BY <1>3 DEF Delivery!Unmount, Delivery!Left, DeliveryInv, DeliveryTypeOK, OnItsWay, SlotNamesIt
<1>4. QED BY <1>1, <1>2, <1>3

LEMMA EffectLemma ==
  ASSUME DeliveryInv, Delivery!Effect
  PROVE  DeliveryInv'
<1>1. /\ mounted \in Mounts
      /\ UNCHANGED <<codex, task, newest, mounted, mounts, delivered, failures, deliveredTimes, owed,
                     printed, canvasTold, unnamed>>
  BY DEF Delivery!Effect, DeliveryInv, DeliveryTypeOK
<1>2. CASE task = None \/ completed[mounted] = task
  <2>1. awaiting' = {w \in awaiting : w[1] # mounted} /\ UNCHANGED <<completed, deliveries, slot, sending>>
    BY <1>2 DEF Delivery!Effect, Delivery!Left
  <2>2. QED BY <1>1, <2>1 DEF DeliveryInv, DeliveryTypeOK, OnItsWay, SlotNamesIt
<1>3. CASE task # None /\ completed[mounted] # task
  <2>1. task = newest /\ newest \in 1 .. newest /\ slot' = newest /\ newest \in Delivery!Tasks
    BY <1>3, DeliveryAssumption DEF Delivery!Effect, DeliveryInv, DeliveryTypeOK, Delivery!Tasks
  <2>2. CASE deliveries[task] = "delivered"
    <3>1. /\ awaiting' = {w \in awaiting : w[1] # mounted} /\ UNCHANGED <<deliveries, sending>>
          /\ completed' = [completed EXCEPT ![mounted] = newest]
      BY <1>3, <2>1, <2>2 DEF Delivery!Effect, Delivery!Left
    <3>2. completed' \in [Mounts -> Delivery!Tasks \cup {None}]
      BY <1>1, <2>1, <3>1 DEF DeliveryInv, DeliveryTypeOK
    <3>3. QED BY <1>1, <2>1, <3>1, <3>2 DEF DeliveryInv, DeliveryTypeOK, OnItsWay, SlotNamesIt
  <2>3. CASE deliveries[task] # "delivered"
    <3>1. Delivery!ClaimDelivery(mounted, newest) /\ UNCHANGED completed
      BY <1>3, <2>1, <2>3 DEF Delivery!Effect
    <3>2. /\ deliveries' \in [Delivery!Tasks -> {"none", "in-flight", "delivered"}]
          /\ sending' \subseteq Mounts \X (1 .. newest) /\ awaiting' \subseteq Mounts \X (1 .. newest)
          /\ \A u \in Delivery!Tasks : OnItsWay(u)'
      BY <1>1, <2>1, <3>1, ClaimLemma
    <3>3. SlotNamesIt'
      BY <1>1, <2>1 DEF SlotNamesIt
    <3>4. DeliveryTypeOK'
      BY <1>1, <2>1, <3>1, <3>2 DEF DeliveryInv, DeliveryTypeOK
    <3>5. QED BY <1>1, <3>2, <3>3, <3>4 DEF DeliveryInv
  <2>4. QED BY <2>2, <2>3
<1>4. QED BY <1>2, <1>3

LEMMA ResumeLemma ==
  ASSUME DeliveryInv, NEW m \in Mounts, NEW t \in Delivery!Tasks, Delivery!Resume(m, t)
  PROVE  DeliveryInv'
<1>1. /\ <<m, t>> \in awaiting /\ t \in 1 .. newest
      /\ UNCHANGED <<codex, task, newest, mounted, mounts, delivered, failures, slot, deliveredTimes, owed,
                     printed, canvasTold, unnamed>>
  BY DEF Delivery!Resume, DeliveryInv, DeliveryTypeOK
<1>2. CASE deliveries[t] = "delivered"
  <2>1. /\ awaiting' = awaiting \ {<<m, t>>} /\ UNCHANGED <<deliveries, sending>>
        /\ completed' = [completed EXCEPT ![m] = t]
    BY <1>2 DEF Delivery!Resume
  <2>2. completed' \in [Mounts -> Delivery!Tasks \cup {None}]
    BY <2>1 DEF DeliveryInv, DeliveryTypeOK
  <2>3. QED BY <1>1, <2>1, <2>2 DEF DeliveryInv, DeliveryTypeOK, OnItsWay, SlotNamesIt
<1>3. CASE deliveries[t] # "delivered"
  <2>1. Delivery!ClaimDelivery(m, t) /\ UNCHANGED completed
    BY <1>3 DEF Delivery!Resume
  <2>2. /\ deliveries' \in [Delivery!Tasks -> {"none", "in-flight", "delivered"}]
        /\ sending' \subseteq Mounts \X (1 .. newest) /\ awaiting' \subseteq Mounts \X (1 .. newest)
        /\ sending' \cup awaiting' \subseteq sending \cup awaiting \cup {<<m, t>>}
        /\ \A u \in Delivery!Tasks : OnItsWay(u)'
    BY <1>1, <2>1, ClaimLemma
  <2>3. \A x : x \in sending' \cup awaiting' => x \in sending \cup awaiting
    BY <1>1, <2>2
  <2>4. SlotNamesIt'
    BY <1>1, <2>3 DEF DeliveryInv, SlotNamesIt
  <2>5. DeliveryTypeOK'
    BY <1>1, <2>1, <2>2 DEF DeliveryInv, DeliveryTypeOK
  <2>6. QED BY <1>1, <2>2, <2>4, <2>5 DEF DeliveryInv
<1>4. QED BY <1>2, <1>3

\* What the canvas is told of a result, or of a failure.
LEMMA DeliverLemma ==
  ASSUME DeliveryInv, NEW m \in Mounts, NEW t \in 1 .. newest, Delivery!DeliverResult(m, t), UNCHANGED newest
  PROVE  /\ delivered' \in [Mounts -> SUBSET canvasTold'] /\ (task' = None \/ (task' = newest /\ newest # 0))
         /\ canvasTold \subseteq canvasTold' /\ canvasTold' \subseteq 1 .. newest /\ t \in canvasTold'
<1>1. CASE t \in delivered[m]
  BY <1>1 DEF Delivery!DeliverResult, DeliveryInv, DeliveryTypeOK
<1>2. CASE t \notin delivered[m]
  <2>1. /\ delivered' = [delivered EXCEPT ![m] = @ \cup {t}] /\ canvasTold' = canvasTold \cup {t}
        /\ task' = task \/ task' = None
    BY <1>2 DEF Delivery!DeliverResult, Delivery!Tell, Delivery!Cleared
  <2>2. QED BY <2>1, DeliveryAssumption DEF DeliveryInv, DeliveryTypeOK
<1>3. QED BY <1>1, <1>2

LEMMA FailureLemma ==
  ASSUME DeliveryInv, NEW m \in Mounts, NEW t \in 1 .. newest, Delivery!ReportFailure(m, t), UNCHANGED newest
  PROVE  /\ failures' \in [Mounts -> SUBSET canvasTold'] /\ (task' = None \/ (task' = newest /\ newest # 0))
         /\ canvasTold \subseteq canvasTold' /\ canvasTold' \subseteq 1 .. newest /\ t \in canvasTold'
         /\ slot' = slot \/ (slot = t /\ slot' = None)
<1>1. CASE t \in failures[m]
  BY <1>1 DEF Delivery!ReportFailure, DeliveryInv, DeliveryTypeOK
<1>2. CASE t \notin failures[m]
  <2>1. /\ failures' = [failures EXCEPT ![m] = @ \cup {t}] /\ canvasTold' = canvasTold \cup {t}
        /\ task' = task \/ task' = None
        /\ slot' = slot \/ (slot = t /\ slot' = None)
    BY <1>2 DEF Delivery!ReportFailure, Delivery!Tell, Delivery!Cleared
  <2>2. QED BY <2>1, DeliveryAssumption DEF DeliveryInv, DeliveryTypeOK
<1>3. QED BY <1>1, <1>2

\* The deliveries that end.
LEMMA DeliveryEnds ==
  ASSUME DeliveryInv, NEW m \in Mounts, NEW t \in Delivery!Tasks,
         Delivery!SendFails(m, t) \/ Delivery!TurnEnds(m, t) \/ Delivery!Accepted(m, t)
  PROVE  DeliveryInv'
<1>1. /\ <<m, t>> \in sending /\ t \in 1 .. newest /\ sending' = sending \ {<<m, t>>}
      /\ UNCHANGED <<codex, newest, mounted, mounts, awaiting, owed, printed, unnamed>>
      /\ \E ok \in BOOLEAN : Delivery!Settle(t, ok)
      /\ UNCHANGED completed \/ completed' = [completed EXCEPT ![m] = t]
  BY DEF Delivery!SendFails, Delivery!TurnEnds, Delivery!Accepted, DeliveryInv, DeliveryTypeOK
<1>2. /\ deliveries' \in [Delivery!Tasks -> {"none", "in-flight", "delivered"}]
      /\ deliveredTimes' \in [Delivery!Tasks -> Nat]
      /\ sending' \subseteq Mounts \X (1 .. newest)
      /\ \A u \in Delivery!Tasks : OnItsWay(u)'
  BY <1>1, SettleLemma
<1>3. completed' \in [Mounts -> Delivery!Tasks \cup {None}]
  BY <1>1 DEF DeliveryInv, DeliveryTypeOK
<1>4. /\ delivered' \in [Mounts -> SUBSET canvasTold'] /\ failures' \in [Mounts -> SUBSET canvasTold']
      /\ task' = None \/ (task' = newest /\ newest # 0)
      /\ canvasTold \subseteq canvasTold' /\ canvasTold' \subseteq 1 .. newest
      /\ slot' = slot \/ (slot = t /\ slot' = None /\ t \in canvasTold')
  <2>1. CASE Delivery!SendFails(m, t)
    <3>1. Delivery!ReportFailure(m, t) /\ UNCHANGED delivered
      BY <2>1 DEF Delivery!SendFails
    <3>2. QED BY <1>1, <3>1, FailureLemma DEF DeliveryInv, DeliveryTypeOK
  <2>2. CASE Delivery!TurnEnds(m, t)
    <3>1. Delivery!DeliverResult(m, t) /\ UNCHANGED failures /\ (slot' = slot \/ (slot = t /\ slot' = None))
      BY <2>2 DEF Delivery!TurnEnds, Delivery!Cleared
    <3>2. QED BY <1>1, <3>1, DeliverLemma DEF DeliveryInv, DeliveryTypeOK
  <2>3. CASE Delivery!Accepted(m, t)
    <3>1. /\ UNCHANGED <<delivered, failures, task, canvasTold>>
          /\ slot' = slot \/ (slot = t /\ slot' = None /\ t \in delivered[m])
      BY <2>3 DEF Delivery!Accepted, Delivery!Cleared
    <3>2. QED BY <3>1 DEF DeliveryInv, DeliveryTypeOK
  <2>4. QED BY <2>1, <2>2, <2>3
<1>5. slot' \in (1 .. newest) \cup {None}
  BY <1>4 DEF DeliveryInv, DeliveryTypeOK
<1>6. DeliveryTypeOK'
  BY <1>1, <1>2, <1>3, <1>4, <1>5 DEF DeliveryInv, DeliveryTypeOK
<1>7. SlotNamesIt'
  BY <1>1, <1>4, SlotLemma
<1>8. QED BY <1>1, <1>2, <1>6, <1>7 DEF DeliveryInv

\* The PTY prints a result, or exits.
LEMMA PtyLemma ==
  ASSUME DeliveryInv,
         Delivery!Exit \/ \E t \in Delivery!Tasks, ok \in BOOLEAN : Delivery!Marker(t, ok)
  PROVE  DeliveryInv'
<1>1. CASE Delivery!Exit
  <2>1. /\ owed' = {}
        /\ UNCHANGED <<codex, newest, mounted, mounts, completed, delivered, deliveries, sending,
                       awaiting, deliveredTimes, printed, unnamed>>
        /\ \/ UNCHANGED <<failures, slot, canvasTold, task>>
           \/ mounted \in Mounts /\ slot \in 1 .. newest /\ Delivery!ReportFailure(mounted, slot)
    BY <1>1 DEF Delivery!Exit, DeliveryInv, DeliveryTypeOK
  <2>2. /\ failures' \in [Mounts -> SUBSET canvasTold']
        /\ task' = None \/ (task' = newest /\ newest # 0)
        /\ canvasTold \subseteq canvasTold' /\ canvasTold' \subseteq 1 .. newest
        /\ slot' = slot \/ (slot' = None /\ slot \in canvasTold')
    <3>1. CASE UNCHANGED <<failures, slot, canvasTold, task>>
      BY <2>1, <3>1 DEF DeliveryInv, DeliveryTypeOK
    <3>2. ASSUME NEW m \in Mounts, NEW s \in 1 .. newest, slot = s, Delivery!ReportFailure(m, s)
          PROVE  <2>2
      BY <2>1, <3>2, FailureLemma
    <3>3. QED BY <2>1, <3>1, <3>2
  <2>3. delivered' \in [Mounts -> SUBSET canvasTold'] /\ slot' \in (1 .. newest) \cup {None}
    BY <2>1, <2>2 DEF DeliveryInv, DeliveryTypeOK
  <2>4. DeliveryTypeOK'
    BY <2>1, <2>2, <2>3 DEF DeliveryInv, DeliveryTypeOK
  <2>5. \A t \in Delivery!Tasks : OnItsWay(t)'
    BY <2>1 DEF DeliveryInv, OnItsWay
  <2>6. SlotNamesIt'
    BY <2>1, <2>2, SlotLemma
  <2>7. QED BY <2>1, <2>4, <2>5, <2>6 DEF DeliveryInv
<1>2. ASSUME NEW t \in Delivery!Tasks, NEW ok \in BOOLEAN, Delivery!Marker(t, ok)
      PROVE  DeliveryInv'
  <2>1. /\ t \in owed /\ owed' = owed \ {t} /\ printed' = printed \cup {t}
        /\ UNCHANGED <<codex, newest, mounted, mounts, completed, deliveries, sending, awaiting, deliveredTimes>>
        /\ t \in 1 .. newest
    BY <1>2 DEF Delivery!Marker, DeliveryInv, DeliveryTypeOK
  <2>2. \A u \in Delivery!Tasks : OnItsWay(u)'
    BY <2>1 DEF DeliveryInv, OnItsWay
  <2>3. CASE mounted = 0
    <3>1. UNCHANGED <<slot, delivered, failures, canvasTold, task, unnamed>>
      BY <1>2, <2>3 DEF Delivery!Marker
    <3>2. QED BY <2>1, <2>2, <3>1 DEF DeliveryInv, DeliveryTypeOK, SlotNamesIt
  <2>4. CASE mounted # 0
    <3>1. /\ slot' = None /\ mounted \in Mounts
          /\ unnamed' = (unnamed \/ (slot = None /\ t = newest /\ t \notin canvasTold))
          /\ \/ (slot = None \/ slot \in delivered[mounted]) /\ UNCHANGED <<delivered, failures, canvasTold, task>>
             \/ /\ slot # None
                /\ delivered' = [delivered EXCEPT ![mounted] = @ \cup {slot}]
                /\ failures' = failures \/ failures' = [failures EXCEPT ![mounted] = @ \cup {slot}]
                /\ \/ canvasTold' = canvasTold \cup {slot} /\ (task' = task \/ task' = None)
                   \/ slot \in failures[mounted] /\ UNCHANGED <<canvasTold, task>>
      BY <1>2, <2>4 DEF Delivery!Marker, Delivery!Tell, Delivery!Cleared, DeliveryInv, DeliveryTypeOK
    <3>2. /\ slot # None => slot \in canvasTold' /\ slot \in 1 .. newest
          /\ canvasTold \subseteq canvasTold' /\ canvasTold' \subseteq 1 .. newest
          /\ task' = task \/ task' = None
      BY <3>1 DEF DeliveryInv, DeliveryTypeOK
    <3>3. delivered' \in [Mounts -> SUBSET canvasTold'] /\ failures' \in [Mounts -> SUBSET canvasTold']
      BY <3>1, <3>2 DEF DeliveryInv, DeliveryTypeOK
    <3>4. DeliveryTypeOK'
      BY <2>1, <3>1, <3>2, <3>3 DEF DeliveryInv, DeliveryTypeOK
    <3>5. newest # None
      BY DeliveryAssumption, <2>1 DEF DeliveryInv, DeliveryTypeOK
    <3>6. SlotNamesIt'
      BY <2>1, <3>2, <3>5, SlotLemma
    <3>7. ~unnamed'
      <4>1. ASSUME slot = None, t = newest, t \notin canvasTold PROVE FALSE
        BY <2>1, <3>5, <4>1 DEF DeliveryInv, SlotNamesIt
      <4>2. ~unnamed
        BY DEF DeliveryInv
      <4>3. QED BY <3>1, <4>1, <4>2
    <3>8. QED BY <2>2, <3>4, <3>6, <3>7 DEF DeliveryInv
  <2>5. QED BY <2>3, <2>4
<1>3. QED BY <1>1, <1>2

LEMMA TypedLemma ==
  ASSUME DeliveryInv, NEW m \in Mounts, NEW t \in Delivery!Tasks, Delivery!Typed(m, t)
  PROVE  DeliveryInv'
<1>1. /\ <<m, t>> \in sending /\ t \in 1 .. newest /\ owed' = owed \cup {t}
      /\ UNCHANGED <<codex, task, newest, mounted, mounts, completed, delivered, failures, deliveries, slot,
                     sending, awaiting, deliveredTimes, printed, canvasTold, unnamed>>
  BY DEF Delivery!Typed, DeliveryInv, DeliveryTypeOK
<1>2. QED BY <1>1 DEF DeliveryInv, DeliveryTypeOK, OnItsWay, SlotNamesIt

LEMMA DeliveryStep == DeliveryInv /\ [Delivery!Next]_deliveryVars => DeliveryInv'
<1> SUFFICES ASSUME DeliveryInv, [Delivery!Next]_deliveryVars PROVE DeliveryInv'
  OBVIOUS
<1>1. CASE UNCHANGED deliveryVars
  BY <1>1 DEF deliveryVars, DeliveryInv, DeliveryTypeOK, OnItsWay, SlotNamesIt
<1>2. CASE Delivery!Next
  BY <1>2, ComponentLemma, EffectLemma, ResumeLemma, DeliveryEnds, PtyLemma, TypedLemma DEF Delivery!Next
<1>3. QED BY <1>1, <1>2

LEMMA DeliveryOnce == DeliveryInv => Delivery!TaskIsSentOnce /\ Delivery!ResultHasItsTask
<1> DEFINE Senders(t) == {m \in Mounts : <<m, t>> \in sending}
<1> SUFFICES ASSUME DeliveryInv PROVE Delivery!TaskIsSentOnce
  BY DEF DeliveryInv, Delivery!ResultHasItsTask
<1>1. ASSUME NEW t \in Delivery!Tasks
      PROVE  deliveredTimes[t] <= 1 /\ Cardinality(Senders(t)) + deliveredTimes[t] <= 1
  <2>1. OnItsWay(t) /\ deliveries[t] \in {"none", "in-flight", "delivered"}
    BY DEF DeliveryInv, DeliveryTypeOK
  <2>2. CASE \A m \in Mounts : <<m, t>> \notin sending
    <3>1. Senders(t) = {}
      BY <2>2
    <3>2. Cardinality(Senders(t)) = 0
      BY <3>1, FS_EmptySet
    <3>3. QED BY <2>1, <3>2 DEF OnItsWay
  <2>3. ASSUME NEW m \in Mounts, <<m, t>> \in sending
        PROVE  deliveredTimes[t] <= 1 /\ Cardinality(Senders(t)) + deliveredTimes[t] <= 1
    <3>1. Senders(t) = {m}
      BY <2>1, <2>3 DEF OnItsWay
    <3>2. Cardinality(Senders(t)) = 1
      BY <3>1, FS_Singleton
    <3>3. deliveredTimes[t] = 0
      BY <2>1, <2>3 DEF OnItsWay
    <3>4. QED BY <3>2, <3>3
  <2>4. QED BY <2>2, <2>3
<1>2. QED BY <1>1 DEF Delivery!TaskIsSentOnce, Delivery!Cardinality, Cardinality

\* A delivery of a task is under way once at most, and never again once one has
\* succeeded.
THEOREM DeliverySafe == Spec => [](part = "delivery" => DeliveryInv)
<1>1. Init => (part = "delivery" => DeliveryInv)
  BY DeliveryInitially DEF Init
<1>2. (part = "delivery" => DeliveryInv) /\ [Next]_partVars => (part = "delivery" => DeliveryInv)'
  BY DeliveryMoves, DeliveryStep, PartStays
<1>3. QED BY <1>1, <1>2, PTL DEF Spec

-----------------------------------------------------------------------------
(* WorkspaceCanvas.tsx: the run of a coordinator *)

Phases == {"planning", "specialist", "finalizing", "complete", "blocked"}

CanvasTypes ==
  /\ node \in [Agents -> {"absent", "unset", "ready"}]
  /\ tasks \in Seq([agent : Agents, run : Nat, step : Nat, reports : Nat])
  /\ taken \in Seq(Nat)
  /\ canvasRun # None =>
       canvasRun \in [id : Nat, phase : Phases, plan : Seq(Agents), agent : Agents,
                      task : Nat \cup {None}, results : Seq(Agents), last : Nat \cup {None}]

\* How far a run is in its plan, by its phase and by the results that it took.
RunInPhase ==
  canvasRun # None =>
    /\ \A i \in 1 .. Len(taken) :
         /\ taken[i] \in 1 .. Len(tasks)
         /\ tasks[taken[i]].run = canvasRun.id /\ tasks[taken[i]].step = i
    /\ Len(canvasRun.results) <= Len(canvasRun.plan)
    /\ \A i \in 1 .. Len(canvasRun.results) : canvasRun.results[i] = canvasRun.plan[i]
    /\ canvasRun.phase = "planning" => Len(taken) = 0 /\ Len(canvasRun.results) = 0
    /\ canvasRun.phase = "specialist" =>
         /\ Len(taken) = Len(canvasRun.results) + 1
         /\ Len(canvasRun.results) < Len(canvasRun.plan)
         /\ canvasRun.agent = canvasRun.plan[Len(canvasRun.results) + 1]
    /\ canvasRun.phase = "finalizing" =>
         Len(taken) = Len(canvasRun.results) + 1 /\ Len(canvasRun.results) = Len(canvasRun.plan)
    /\ canvasRun.phase = "complete" =>
         Len(taken) = Len(canvasRun.results) + 2 /\ Len(canvasRun.results) = Len(canvasRun.plan)

\* The result that moved the run on last is not the one it waits for.
LastIsPast == Canvas!Active => canvasRun.last # canvasRun.task

CanvasInv ==
  CanvasTypes /\ RunInPhase /\ LastIsPast /\ Canvas!RunWaitsForATask /\ Canvas!ManualTaskIsOut

CanvasTask == [agent : Agents, run : Nat, step : Nat, reports : Nat]

LEMMA CanvasMoves ==
  ASSUME [Next]_partVars, part = "canvas"
  PROVE  [Canvas!Next]_canvasVars
  BY DEF Next, partVars, canvasVars

LEMMA CanvasInitially == Canvas!Init => CanvasInv
<1> SUFFICES ASSUME Canvas!Init PROVE CanvasInv
  OBVIOUS
<1>1. /\ node = [a \in Agents |-> "ready"] /\ canvasRun = None /\ manual = {}
      /\ tasks = <<>> /\ taken = <<>>
  BY DEF Canvas!Init
<1>2. CanvasTypes
  BY <1>1 DEF CanvasTypes
<1>3. RunInPhase /\ LastIsPast /\ Canvas!RunWaitsForATask
  BY <1>1 DEF RunInPhase, LastIsPast, Canvas!RunWaitsForATask, Canvas!Active
<1>4. Canvas!ManualTaskIsOut
  BY <1>1 DEF Canvas!ManualTaskIsOut
<1>5. QED BY <1>2, <1>3, <1>4 DEF CanvasInv

LEMMA SentOf ==
  ASSUME NEW s \in Seq(CanvasTask), NEW a \in Agents, NEW r \in Nat, NEW stepOf \in Nat
  PROVE  /\ Canvas!Sent(s, a, r, stepOf) \in Seq(CanvasTask)
         /\ Len(s) \in Nat /\ Len(s) <= Len(Canvas!Sent(s, a, r, stepOf))
         /\ \A i \in 1 .. Len(s) : Canvas!Sent(s, a, r, stepOf)[i] = s[i]
         /\ node[a] = "ready" =>
              /\ Len(Canvas!Sent(s, a, r, stepOf)) = Len(s) + 1
              /\ Canvas!Sent(s, a, r, stepOf)[Len(s) + 1] =
                   [agent |-> a, run |-> r, step |-> stepOf, reports |-> 0]
<1>1. CASE node[a] = "ready"
  <2> DEFINE x == [agent |-> a, run |-> r, step |-> stepOf, reports |-> 0]
  <2>1. x \in CanvasTask
    BY DEF CanvasTask
  <2>2. Canvas!Sent(s, a, r, stepOf) = Append(s, x)
    BY <1>1 DEF Canvas!Sent
  <2> HIDE DEF x
  <2>3. /\ Append(s, x) \in Seq(CanvasTask) /\ Len(Append(s, x)) = Len(s) + 1
        /\ \A i \in 1 .. Len(s) : Append(s, x)[i] = s[i]
        /\ Append(s, x)[Len(s) + 1] = x /\ Len(s) \in Nat
    BY <2>1
  <2>4. QED BY <1>1, <2>2, <2>3 DEF x
<1>2. CASE node[a] # "ready"
  BY <1>2 DEF Canvas!Sent
<1>3. QED BY <1>1, <1>2

\* Tasks that are sent beside the run leave it alone.
LEMMA CanvasMore ==
  ASSUME CanvasInv, node' \in [Agents -> {"absent", "unset", "ready"}],
         tasks' \in Seq(CanvasTask), Len(tasks) <= Len(tasks'),
         \A i \in 1 .. Len(tasks) : tasks'[i] = tasks[i],
         UNCHANGED <<canvasRun, taken>>,
         \A a \in manual' \ manual : \E t \in 1 .. Len(tasks') :
           tasks'[t].agent = a /\ tasks'[t].run = 0 /\ tasks'[t].reports = 0
  PROVE  CanvasInv'
<1>1. Len(tasks) \in Nat /\ Len(tasks') \in Nat /\ 1 .. Len(tasks) \subseteq 1 .. Len(tasks')
  BY DEF CanvasInv, CanvasTypes
<1>2. CanvasTypes'
  BY DEF CanvasInv, CanvasTypes, CanvasTask
<1>3. RunInPhase'
  BY <1>1 DEF CanvasInv, RunInPhase
<1>4. LastIsPast' /\ Canvas!RunWaitsForATask'
  BY <1>1 DEF CanvasInv, LastIsPast, Canvas!RunWaitsForATask, Canvas!Active
<1>5. Canvas!ManualTaskIsOut'
  BY <1>1 DEF CanvasInv, Canvas!ManualTaskIsOut
<1>6. QED BY <1>2, <1>3, <1>4, <1>5 DEF CanvasInv

LEMMA CanvasSends ==
  ASSUME CanvasInv, NEW a \in Agents,
         Canvas!SendAgentTask(a) \/ Canvas!SurvivorTakeover(a) \/ \E h \in Handoffs : Canvas!FollowHandoff(h, a)
  PROVE  CanvasInv'
<1>1. tasks \in Seq(CanvasTask) /\ node \in [Agents -> {"absent", "unset", "ready"}]
  BY DEF CanvasInv, CanvasTypes, CanvasTask
<1>2. /\ tasks' = Canvas!Sent(tasks, a, 0, 0)
      /\ UNCHANGED <<node, canvasRun, taken>>
      /\ manual' \subseteq manual \cup (IF node[a] = "ready" THEN {a} ELSE {})
  <2>1. CASE Canvas!SendAgentTask(a)
    BY <2>1 DEF Canvas!SendAgentTask
  <2>2. CASE Canvas!SendAnyway(a)
    BY <2>2 DEF Canvas!SendAnyway
  <2>3. QED BY <2>1, <2>2 DEF Canvas!SurvivorTakeover, Canvas!FollowHandoff
<1> DEFINE out == Canvas!Sent(tasks, a, 0, 0)
<1>3. /\ out \in Seq(CanvasTask) /\ Len(tasks) \in Nat /\ Len(tasks) <= Len(out)
      /\ \A i \in 1 .. Len(tasks) : out[i] = tasks[i]
      /\ node[a] = "ready" =>
           /\ Len(out) = Len(tasks) + 1
           /\ out[Len(tasks) + 1] = [agent |-> a, run |-> 0, step |-> 0, reports |-> 0]
  BY <1>1, SentOf
<1> HIDE DEF out
<1>4. ASSUME NEW b \in manual' \ manual
      PROVE  \E t \in 1 .. Len(tasks') : tasks'[t].agent = b /\ tasks'[t].run = 0 /\ tasks'[t].reports = 0
  <2>1. node[a] = "ready" /\ b = a
    BY <1>2, <1>4
  <2>2. Len(tasks) + 1 \in 1 .. Len(out)
    BY <1>3, <2>1
  <2>3. QED BY <1>2, <1>3, <2>1, <2>2 DEF out
<1>5. QED BY <1>1, <1>2, <1>3, <1>4, CanvasMore DEF out

LEMMA CanvasStartRun ==
  ASSUME CanvasInv, NEW plan \in Plans, Canvas!StartRun(plan)
  PROVE  CanvasInv'
<1> DEFINE id == Len(tasks) + 1
           r == [id |-> id, phase |-> "planning", plan |-> plan, agent |-> Coordinator,
                 task |-> None, results |-> <<>>, last |-> None]
           out == Canvas!Sent(tasks, Coordinator, id, 1)
<1>1. /\ tasks \in Seq(CanvasTask) /\ node \in [Agents -> {"absent", "unset", "ready"}]
      /\ plan \in Seq(Agents) /\ Coordinator \in Agents /\ Len(tasks) \in Nat /\ id \in Nat
  BY CanvasAssumption DEF CanvasInv, CanvasTypes, CanvasTask
<1>2. /\ canvasRun' = Canvas!Waiting(r, tasks) /\ tasks' = out /\ taken' = <<>>
      /\ UNCHANGED <<node, manual>>
  BY DEF Canvas!StartRun
<1>3. /\ out \in Seq(CanvasTask) /\ Len(tasks) <= Len(out)
      /\ \A i \in 1 .. Len(tasks) : out[i] = tasks[i]
      /\ node[Coordinator] = "ready" =>
           /\ Len(out) = Len(tasks) + 1
           /\ out[id] = [agent |-> Coordinator, run |-> id, step |-> 1, reports |-> 0]
  BY <1>1, SentOf
<1> HIDE DEF out, id
<1>4. /\ r \in [id : Nat, phase : Phases, plan : Seq(Agents), agent : Agents,
                task : Nat \cup {None}, results : Seq(Agents), last : Nat \cup {None}]
      /\ r.phase = "planning" /\ r.results = <<>> /\ r.last = None /\ r.agent = Coordinator /\ r.id = id
      /\ r.plan = plan
  BY <1>1 DEF Phases
<1>5. canvasRun' = IF node[Coordinator] = "ready" THEN [r EXCEPT !.task = id] ELSE [r EXCEPT !.phase = "blocked"]
  BY <1>2, <1>4 DEF Canvas!Waiting, id
<1> HIDE DEF r
<1>6. /\ canvasRun' \in [id : Nat, phase : Phases, plan : Seq(Agents), agent : Agents,
                         task : Nat \cup {None}, results : Seq(Agents), last : Nat \cup {None}]
      /\ canvasRun'.results = <<>> /\ canvasRun'.last = None /\ canvasRun'.agent = Coordinator
      /\ canvasRun'.id = id /\ canvasRun'.plan = plan
      /\ canvasRun'.phase = IF node[Coordinator] = "ready" THEN "planning" ELSE "blocked"
      /\ node[Coordinator] = "ready" => canvasRun'.task = id
  BY <1>1, <1>4, <1>5 DEF Phases
<1>7. Len(<<>>) = 0 /\ <<>> \in Seq(Nat) /\ 1 .. 0 = {}
  OBVIOUS
<1>8. CanvasTypes'
  BY <1>1, <1>2, <1>3, <1>6, <1>7 DEF CanvasTypes, CanvasTask
<1>9. RunInPhase'
  <2>1. Len(plan) \in Nat
    BY <1>1
  <2>2. QED BY <1>2, <1>6, <1>7, <2>1 DEF RunInPhase
<1>10. LastIsPast'
  BY <1>1, <1>6, CanvasAssumption DEF LastIsPast, Canvas!Active
<1>11. Canvas!RunWaitsForATask'
  <2>1. node[Coordinator] = "ready" => id \in 1 .. Len(out)
    BY <1>1, <1>3 DEF id
  <2>2. Len(taken') + 1 = 1
    BY <1>2, <1>7
  <2>3. QED BY <1>2, <1>3, <1>6, <2>1, <2>2 DEF Canvas!RunWaitsForATask, Canvas!Active
<1>12. Canvas!ManualTaskIsOut'
  <2>1. 1 .. Len(tasks) \subseteq 1 .. Len(out)
    BY <1>1, <1>3
  <2>2. QED BY <1>2, <1>3, <2>1 DEF CanvasInv, Canvas!ManualTaskIsOut
<1>13. QED BY <1>8, <1>9, <1>10, <1>11, <1>12 DEF CanvasInv

LEMMA ToldOf ==
  ASSUME CanvasInv, NEW t \in 1 .. Len(tasks)
  PROVE  /\ Canvas!Told(t) \in Seq(CanvasTask) /\ Len(Canvas!Told(t)) = Len(tasks)
         /\ \A i \in 1 .. Len(tasks) : i # t => Canvas!Told(t)[i] = tasks[i]
         /\ \A i \in 1 .. Len(tasks) :
              /\ Canvas!Told(t)[i].agent = tasks[i].agent
              /\ Canvas!Told(t)[i].run = tasks[i].run /\ Canvas!Told(t)[i].step = tasks[i].step
<1>1. tasks \in Seq(CanvasTask)
  BY DEF CanvasInv, CanvasTypes, CanvasTask
<1> DEFINE x == [tasks[t] EXCEPT !.reports = @ + 1]
<1>2. tasks[t] \in CanvasTask
  BY <1>1
<1>3. x \in CanvasTask /\ x.agent = tasks[t].agent /\ x.run = tasks[t].run /\ x.step = tasks[t].step
  BY <1>2 DEF CanvasTask
<1>4. Canvas!Told(t) = [tasks EXCEPT ![t] = x]
  BY <1>1 DEF Canvas!Told
<1> HIDE DEF x
<1>5. /\ [tasks EXCEPT ![t] = x] \in Seq(CanvasTask) /\ Len([tasks EXCEPT ![t] = x]) = Len(tasks)
      /\ \A j \in 1 .. Len(tasks) : [tasks EXCEPT ![t] = x][j] = IF j = t THEN x ELSE tasks[j]
  BY <1>1, <1>3, ExceptSeq
<1>6. QED BY <1>3, <1>4, <1>5

\* The run awaits just the task it waits for.
LEMMA AwaitedIs ==
  ASSUME CanvasInv, NEW t \in 1 .. Len(tasks)
  PROVE  Canvas!Awaited(t) <=> Canvas!Active /\ canvasRun.task = t
<1>1. ASSUME Canvas!Active, canvasRun.task = t PROVE Canvas!Awaited(t)
  BY <1>1 DEF CanvasInv, Canvas!RunWaitsForATask, LastIsPast, Canvas!Awaited
<1>2. ASSUME Canvas!Awaited(t) PROVE Canvas!Active /\ canvasRun.task = t
  BY <1>2, CanvasAssumption DEF CanvasInv, Canvas!RunWaitsForATask, Canvas!Awaited
<1>3. QED BY <1>1, <1>2

\* A task of an agent that the user still waits for is not the one that was reported.
LEMMA ManualStaysOut ==
  ASSUME CanvasInv, NEW t \in 1 .. Len(tasks), manual' = manual \ {tasks[t].agent},
         Len(tasks) <= Len(tasks'), Len(tasks') \in Nat,
         \A i \in 1 .. Len(tasks) : i # t => tasks'[i] = tasks[i]
  PROVE  Canvas!ManualTaskIsOut'
<1>1. ASSUME NEW a \in manual' PROVE \E i \in 1 .. Len(tasks') :
        tasks'[i].agent = a /\ tasks'[i].run = 0 /\ tasks'[i].reports = 0
  <2>1. PICK i \in 1 .. Len(tasks) : tasks[i].agent = a /\ tasks[i].run = 0 /\ tasks[i].reports = 0
    BY <1>1 DEF CanvasInv, Canvas!ManualTaskIsOut
  <2>2. i # t
    BY <1>1, <2>1
  <2>3. i \in 1 .. Len(tasks')
    BY <2>1
  <2>4. QED BY <2>1, <2>2, <2>3
<1>2. QED BY <1>1 DEF Canvas!ManualTaskIsOut

LEMMA CanvasForeign ==
  ASSUME CanvasInv, NEW t \in 1 .. Len(tasks), ~Canvas!Awaited(t),
         tasks' = Canvas!Told(t), manual' = manual \ {tasks[t].agent},
         UNCHANGED <<node, canvasRun, taken>>
  PROVE  CanvasInv'
<1>1. /\ tasks' \in Seq(CanvasTask) /\ Len(tasks') = Len(tasks) /\ Len(tasks) \in Nat
      /\ \A i \in 1 .. Len(tasks) : i # t => tasks'[i] = tasks[i]
      /\ \A i \in 1 .. Len(tasks) : tasks'[i].run = tasks[i].run /\ tasks'[i].step = tasks[i].step
  BY ToldOf DEF CanvasInv, CanvasTypes
<1>2. CanvasTypes'
  BY <1>1 DEF CanvasInv, CanvasTypes, CanvasTask
<1>3. RunInPhase'
  BY <1>1 DEF CanvasInv, RunInPhase
<1>4. LastIsPast'
  BY DEF CanvasInv, LastIsPast, Canvas!Active
<1>5. Canvas!RunWaitsForATask'
  <2>1. Canvas!Active' <=> Canvas!Active
    BY DEF Canvas!Active
  <2>2. Canvas!Active => canvasRun.task # t
    BY AwaitedIs
  <2>3. QED BY <1>1, <2>1, <2>2 DEF CanvasInv, Canvas!RunWaitsForATask
<1>6. Canvas!ManualTaskIsOut'
  BY <1>1, ManualStaysOut
<1>7. QED BY <1>2, <1>3, <1>4, <1>5, <1>6 DEF CanvasInv

LEMMA CanvasFails ==
  ASSUME CanvasInv, NEW t \in 1 .. Len(tasks), NEW as, Canvas!ReportFailure(t, as)
  PROVE  CanvasInv'
<1>1. /\ tasks' = Canvas!Told(t) /\ manual' = manual \ {tasks[t].agent} /\ UNCHANGED <<node, taken>>
      /\ ~Canvas!Awaited(t) => UNCHANGED canvasRun
      /\ Canvas!Awaited(t) => canvasRun' = [canvasRun EXCEPT !.phase = "blocked", !.last = t]
  BY DEF Canvas!ReportFailure
<1>2. CASE ~Canvas!Awaited(t)
  BY <1>1, <1>2, CanvasForeign
<1>3. CASE Canvas!Awaited(t)
  <2>1. /\ tasks' \in Seq(CanvasTask) /\ Len(tasks') = Len(tasks) /\ Len(tasks) \in Nat
        /\ \A i \in 1 .. Len(tasks) : i # t => tasks'[i] = tasks[i]
        /\ \A i \in 1 .. Len(tasks) : tasks'[i].run = tasks[i].run /\ tasks'[i].step = tasks[i].step
    BY <1>1, ToldOf DEF CanvasInv, CanvasTypes
  <2>2. canvasRun # None /\ t \in Nat
    BY <1>3 DEF Canvas!Awaited, Canvas!Active
  <2>3. canvasRun \in [id : Nat, phase : Phases, plan : Seq(Agents), agent : Agents,
                       task : Nat \cup {None}, results : Seq(Agents), last : Nat \cup {None}]
    BY <2>2 DEF CanvasInv, CanvasTypes
  <2>4. /\ canvasRun' \in [id : Nat, phase : Phases, plan : Seq(Agents), agent : Agents,
                           task : Nat \cup {None}, results : Seq(Agents), last : Nat \cup {None}]
        /\ canvasRun'.phase = "blocked" /\ canvasRun'.id = canvasRun.id
        /\ canvasRun'.plan = canvasRun.plan /\ canvasRun'.results = canvasRun.results
    BY <1>1, <1>3, <2>2, <2>3 DEF Phases
  <2>5. CanvasTypes'
    BY <1>1, <2>1, <2>4 DEF CanvasInv, CanvasTypes, CanvasTask
  <2>6. RunInPhase'
    BY <1>1, <2>1, <2>2, <2>4 DEF CanvasInv, RunInPhase
  <2>7. LastIsPast' /\ Canvas!RunWaitsForATask'
    BY <2>4 DEF LastIsPast, Canvas!RunWaitsForATask, Canvas!Active
  <2>8. Canvas!ManualTaskIsOut'
    BY <1>1, <2>1, ManualStaysOut
  <2>9. QED BY <2>5, <2>6, <2>7, <2>8 DEF CanvasInv
<1>4. QED BY <1>2, <1>3

\* A run that takes the result of its next step.
LEMMA TakenGrows ==
  ASSUME CanvasInv, canvasRun # None, NEW t \in 1 .. Len(tasks),
         tasks[t].run = canvasRun.id, tasks[t].step = Len(taken) + 1,
         Len(tasks) \in Nat, Len(tasks') \in Nat, Len(tasks) <= Len(tasks'),
         \A i \in 1 .. Len(tasks) : tasks'[i].run = tasks[i].run /\ tasks'[i].step = tasks[i].step,
         taken' = Append(taken, t)
  PROVE  /\ taken' \in Seq(Nat) /\ Len(taken) \in Nat /\ Len(taken') = Len(taken) + 1
         /\ \A i \in 1 .. Len(taken') :
              /\ taken'[i] \in 1 .. Len(tasks')
              /\ tasks'[taken'[i]].run = canvasRun.id /\ tasks'[taken'[i]].step = i
<1>1. /\ taken' \in Seq(Nat) /\ Len(taken') = Len(taken) + 1 /\ Len(taken) \in Nat
      /\ \A i \in 1 .. Len(taken) : taken'[i] = taken[i]
      /\ taken'[Len(taken) + 1] = t
  <2>1. taken \in Seq(Nat) /\ t \in Nat
    BY DEF CanvasInv, CanvasTypes
  <2>2. QED BY <2>1
<1>2. ASSUME NEW i \in 1 .. Len(taken')
      PROVE  /\ taken'[i] \in 1 .. Len(tasks')
             /\ tasks'[taken'[i]].run = canvasRun.id /\ tasks'[taken'[i]].step = i
  <2>1. CASE i \in 1 .. Len(taken)
    <3>1. taken'[i] = taken[i] /\ taken[i] \in 1 .. Len(tasks)
          /\ tasks[taken[i]].run = canvasRun.id /\ tasks[taken[i]].step = i
      BY <1>1, <2>1 DEF CanvasInv, RunInPhase
    <3>2. QED BY <3>1
  <2>2. CASE i = Len(taken) + 1
    BY <1>1, <2>2
  <2>3. QED BY <1>1, <1>2, <2>1, <2>2
<1>3. QED BY <1>1, <1>2

LEMMA CanvasCompletes ==
  ASSUME CanvasInv, NEW t \in 1 .. Len(tasks), Canvas!Awaited(t), canvasRun.phase = "finalizing",
         tasks' = Canvas!Told(t), manual' = manual \ {tasks[t].agent}, node' = node,
         canvasRun' = [canvasRun EXCEPT !.phase = "complete", !.last = t],
         taken' = Append(taken, t)
  PROVE  CanvasInv'
<1>1. /\ tasks' \in Seq(CanvasTask) /\ Len(tasks') = Len(tasks) /\ Len(tasks) \in Nat
      /\ \A i \in 1 .. Len(tasks) : i # t => tasks'[i] = tasks[i]
      /\ \A i \in 1 .. Len(tasks) : tasks'[i].run = tasks[i].run /\ tasks'[i].step = tasks[i].step
  BY ToldOf DEF CanvasInv, CanvasTypes
<1>2. /\ Canvas!Active /\ canvasRun # None /\ canvasRun.task = t /\ t \in Nat
      /\ tasks[t].run = canvasRun.id /\ tasks[t].step = Len(taken) + 1
  <2>1. Canvas!Active /\ canvasRun.task = t
    BY AwaitedIs
  <2>2. tasks[t] = [agent |-> canvasRun.agent, run |-> canvasRun.id, step |-> Len(taken) + 1, reports |-> 0]
    BY <2>1 DEF CanvasInv, Canvas!RunWaitsForATask
  <2>3. QED BY <2>1, <2>2 DEF Canvas!Active
<1>3. canvasRun \in [id : Nat, phase : Phases, plan : Seq(Agents), agent : Agents,
                     task : Nat \cup {None}, results : Seq(Agents), last : Nat \cup {None}]
  BY <1>2 DEF CanvasInv, CanvasTypes
<1>4. /\ canvasRun' \in [id : Nat, phase : Phases, plan : Seq(Agents), agent : Agents,
                         task : Nat \cup {None}, results : Seq(Agents), last : Nat \cup {None}]
      /\ canvasRun'.phase = "complete" /\ canvasRun'.id = canvasRun.id
      /\ canvasRun'.plan = canvasRun.plan /\ canvasRun'.results = canvasRun.results
  BY <1>2, <1>3 DEF Phases
<1>5. /\ taken' \in Seq(Nat) /\ Len(taken) \in Nat /\ Len(taken') = Len(taken) + 1
      /\ \A i \in 1 .. Len(taken') :
           /\ taken'[i] \in 1 .. Len(tasks')
           /\ tasks'[taken'[i]].run = canvasRun.id /\ tasks'[taken'[i]].step = i
  BY <1>1, <1>2, TakenGrows
<1>6. CanvasTypes'
  BY <1>1, <1>4, <1>5 DEF CanvasInv, CanvasTypes, CanvasTask
<1>7. RunInPhase'
  <2>2. /\ Len(canvasRun.results) <= Len(canvasRun.plan)
        /\ \A i \in 1 .. Len(canvasRun.results) : canvasRun.results[i] = canvasRun.plan[i]
        /\ Len(taken) = Len(canvasRun.results) + 1 /\ Len(canvasRun.results) = Len(canvasRun.plan)
    BY <1>2 DEF CanvasInv, RunInPhase
  <2>3. Len(taken') = Len(canvasRun.results) + 2
    BY <1>3, <1>5, <2>2
  <2>4. QED BY <1>4, <1>5, <2>2, <2>3 DEF RunInPhase
<1>8. LastIsPast' /\ Canvas!RunWaitsForATask'
  BY <1>4 DEF LastIsPast, Canvas!RunWaitsForATask, Canvas!Active
<1>9. Canvas!ManualTaskIsOut'
  BY <1>1, ManualStaysOut
<1>10. QED BY <1>6, <1>7, <1>8, <1>9 DEF CanvasInv

LEMMA CanvasAdvances ==
  ASSUME CanvasInv, NEW t \in 1 .. Len(tasks), Canvas!Awaited(t), canvasRun.phase # "finalizing",
         NEW r, r = Canvas!After(canvasRun, t),
         canvasRun' = Canvas!Waiting(r, tasks),
         tasks' = Canvas!Sent(Canvas!Told(t), r.agent, r.id, Len(taken) + 2),
         manual' = manual \ {tasks[t].agent}, node' = node, taken' = Append(taken, t)
  PROVE  CanvasInv'
<1> DEFINE reported == Canvas!Told(t)
           RunType == [id : Nat, phase : Phases, plan : Seq(Agents), agent : Agents,
                       task : Nat \cup {None}, results : Seq(Agents), last : Nat \cup {None}]
           old == canvasRun.results
           plan == canvasRun.plan
<1>1. /\ reported \in Seq(CanvasTask) /\ Len(reported) = Len(tasks) /\ Len(tasks) \in Nat
      /\ \A i \in 1 .. Len(tasks) : i # t => reported[i] = tasks[i]
      /\ \A i \in 1 .. Len(tasks) : reported[i].run = tasks[i].run /\ reported[i].step = tasks[i].step
  BY ToldOf DEF CanvasInv, CanvasTypes
<1>2. /\ Canvas!Active /\ canvasRun # None /\ canvasRun.task = t /\ t \in Nat
      /\ tasks[t].run = canvasRun.id /\ tasks[t].step = Len(taken) + 1
  <2>1. Canvas!Active /\ canvasRun.task = t
    BY AwaitedIs
  <2>2. tasks[t] = [agent |-> canvasRun.agent, run |-> canvasRun.id, step |-> Len(taken) + 1, reports |-> 0]
    BY <2>1 DEF CanvasInv, Canvas!RunWaitsForATask
  <2>3. QED BY <2>1, <2>2 DEF Canvas!Active
<1>3. canvasRun \in RunType /\ taken \in Seq(Nat) /\ Len(taken) \in Nat
  BY <1>2 DEF CanvasInv, CanvasTypes
<1>4. canvasRun.phase \in {"planning", "specialist"}
  BY <1>2, <1>3 DEF Phases, Canvas!Active
<1>5. /\ Len(old) <= Len(plan) /\ old \in Seq(Agents) /\ plan \in Seq(Agents)
      /\ Len(old) \in Nat /\ Len(plan) \in Nat
      /\ \A i \in 1 .. Len(old) : old[i] = plan[i]
      /\ canvasRun.phase = "planning" => Len(taken) = 0 /\ Len(old) = 0
      /\ canvasRun.phase = "specialist" =>
           /\ Len(taken) = Len(old) + 1 /\ Len(old) < Len(plan)
           /\ canvasRun.agent = plan[Len(old) + 1]
  <2>1. RunInPhase
    BY DEF CanvasInv
  <2>2. old \in Seq(Agents) /\ plan \in Seq(Agents)
    BY <1>3
  <2>3. Len(old) \in Nat /\ Len(plan) \in Nat
    BY <2>2
  <2>4. Len(old) <= Len(plan) /\ \A i \in 1 .. Len(old) : old[i] = plan[i]
    BY <1>2, <2>1 DEF RunInPhase
  <2>5. canvasRun.phase = "planning" => Len(taken) = 0 /\ Len(old) = 0
    BY <1>2, <2>1 DEF RunInPhase
  <2>6. canvasRun.phase = "specialist" =>
          /\ Len(taken) = Len(old) + 1 /\ Len(old) < Len(plan)
          /\ canvasRun.agent = plan[Len(old) + 1]
    BY <1>2, <2>1 DEF RunInPhase
  <2> HIDE DEF old, plan
  <2>7. QED BY <2>2, <2>3, <2>4, <2>5, <2>6
<1> HIDE DEF reported
\* The results with the one of this task, which are as many as the tasks before the next.
<1> DEFINE results == IF canvasRun.phase = "specialist" THEN Append(old, canvasRun.agent) ELSE old
<1>6. /\ results \in Seq(Agents) /\ Len(results) \in Nat /\ Len(results) = Len(taken)
      /\ Len(results) <= Len(plan)
      /\ \A i \in 1 .. Len(results) : results[i] = plan[i]
  <2>1. CASE canvasRun.phase = "planning"
    BY <1>5, <2>1
  <2>2. CASE canvasRun.phase = "specialist"
    <3> DEFINE a == canvasRun.agent
    <3>1. a \in Agents /\ results = Append(old, a)
      BY <1>3, <2>2
    <3> HIDE DEF a
    <3>2. /\ Append(old, a) \in Seq(Agents) /\ Len(Append(old, a)) = Len(old) + 1
          /\ \A i \in 1 .. Len(old) : Append(old, a)[i] = old[i]
          /\ Append(old, a)[Len(old) + 1] = a
      BY <1>5, <3>1
    <3>3. ASSUME NEW i \in 1 .. Len(old) + 1 PROVE Append(old, a)[i] = plan[i]
      <4>1. CASE i \in 1 .. Len(old)
        BY <1>5, <3>2, <4>1
      <4>2. CASE i = Len(old) + 1
        BY <1>5, <2>2, <3>2, <4>2 DEF a
      <4>3. QED BY <1>5, <3>3, <4>1, <4>2
    <3>4. QED BY <1>5, <2>2, <3>1, <3>2, <3>3
  <2>3. QED BY <1>4, <2>1, <2>2
<1>7. /\ r \in RunType /\ r.id = canvasRun.id /\ r.plan = plan /\ r.results = results /\ r.last = t
      /\ r.phase = IF Len(results) < Len(plan) THEN "specialist" ELSE "finalizing"
      /\ r.agent = IF Len(results) < Len(plan) THEN plan[Len(results) + 1] ELSE Coordinator
  <2>1. r = IF Len(results) < Len(plan)
            THEN [canvasRun EXCEPT !.results = results, !.task = None, !.last = t,
                                   !.phase = "specialist", !.agent = plan[Len(results) + 1]]
            ELSE [canvasRun EXCEPT !.results = results, !.task = None, !.last = t,
                                   !.phase = "finalizing", !.agent = Coordinator]
    <3>1. canvasRun.plan = plan /\ canvasRun.results = old
      OBVIOUS
    <3> HIDE DEF results, plan, old
    <3>2. results = IF canvasRun.phase = "specialist" THEN Append(canvasRun.results, canvasRun.agent)
                    ELSE canvasRun.results
      BY DEF results, old
    <3> DEFINE done == [canvasRun EXCEPT !.results = results, !.task = None, !.last = t]
    <3>3. r = IF Len(results) < Len(done.plan)
              THEN [done EXCEPT !.phase = "specialist", !.agent = done.plan[Len(results) + 1]]
              ELSE [done EXCEPT !.phase = "finalizing", !.agent = Coordinator]
      BY <1>3, <3>2 DEF Canvas!After
    <3>4. QED BY <1>3, <3>1, <3>3
  <2>2. Len(results) < Len(plan) => plan[Len(results) + 1] \in Agents
    BY <1>5, <1>6
  <2>4. plan = canvasRun.plan
    OBVIOUS
  <2> HIDE DEF results, plan, old
  <2> DEFINE successor == plan[Len(results) + 1]
             more == Len(results) < Len(plan)
  <2>5. (more => successor \in Agents) /\ results \in Seq(Agents) /\ t \in Nat /\ Coordinator \in Agents
    BY <1>2, <1>6, <2>2, CanvasAssumption
  <2>6. CASE more
    <3>1. successor \in Agents
      BY <2>5, <2>6
    <3>2. r = [canvasRun EXCEPT !.results = results, !.task = None, !.last = t,
                                !.phase = "specialist", !.agent = successor]
      BY <2>1, <2>6
    <3> HIDE DEF successor, more
    <3>3. /\ r \in RunType /\ r.id = canvasRun.id /\ r.plan = canvasRun.plan
          /\ r.results = results /\ r.last = t /\ r.phase = "specialist" /\ r.agent = successor
      BY <1>3, <2>5, <3>1, <3>2 DEF Phases
    <3>4. QED BY <2>4, <2>6, <3>3 DEF successor, more
  <2>7. CASE ~more
    <3>1. r = [canvasRun EXCEPT !.results = results, !.task = None, !.last = t,
                                !.phase = "finalizing", !.agent = Coordinator]
      BY <2>1, <2>7
    <3> HIDE DEF successor, more
    <3>2. /\ r \in RunType /\ r.id = canvasRun.id /\ r.plan = canvasRun.plan
          /\ r.results = results /\ r.last = t /\ r.phase = "finalizing" /\ r.agent = Coordinator
      BY <1>3, <2>5, <3>1 DEF Phases
    <3>3. QED BY <2>4, <2>7, <3>2 DEF more
  <2>8. QED BY <2>6, <2>7
<1> HIDE DEF results
<1>8. canvasRun' = IF node[r.agent] = "ready" THEN [r EXCEPT !.task = Len(tasks) + 1] ELSE [r EXCEPT !.phase = "blocked"]
  BY DEF Canvas!Waiting
<1>9. /\ canvasRun' \in RunType /\ canvasRun'.id = canvasRun.id /\ canvasRun'.plan = plan
      /\ canvasRun'.results = results /\ canvasRun'.last = t /\ canvasRun'.agent = r.agent
      /\ canvasRun'.phase = IF node[r.agent] = "ready" THEN r.phase ELSE "blocked"
      /\ node[r.agent] = "ready" => canvasRun'.task = Len(tasks) + 1
  <2> HIDE DEF plan
  <2>1. Len(tasks) + 1 \in Nat
    BY <1>1
  <2>2. QED BY <1>7, <1>8, <2>1 DEF Phases
<1>10. /\ tasks' \in Seq(CanvasTask) /\ Len(tasks) <= Len(tasks') /\ Len(tasks') \in Nat
       /\ \A i \in 1 .. Len(tasks) : tasks'[i] = reported[i]
       /\ node[r.agent] = "ready" =>
            /\ Len(tasks') = Len(tasks) + 1
            /\ tasks'[Len(tasks) + 1] =
                 [agent |-> r.agent, run |-> canvasRun.id, step |-> Len(taken) + 2, reports |-> 0]
  <2>1. r.agent \in Agents /\ r.id = canvasRun.id /\ r.id \in Nat /\ Len(taken) + 2 \in Nat
    BY <1>3, <1>7
  <2>2. tasks' = Canvas!Sent(reported, r.agent, r.id, Len(taken) + 2)
    BY DEF reported
  <2> DEFINE n == Len(taken) + 2
             s == Canvas!Sent(reported, r.agent, r.id, n)
  <2>3. /\ s \in Seq(CanvasTask) /\ Len(reported) <= Len(s)
        /\ \A i \in 1 .. Len(reported) : s[i] = reported[i]
        /\ node[r.agent] = "ready" =>
             /\ Len(s) = Len(reported) + 1
             /\ s[Len(reported) + 1] = [agent |-> r.agent, run |-> r.id, step |-> n, reports |-> 0]
    <3>1. n \in Nat
      BY <2>1
    <3> DEFINE a == r.agent
               id == r.id
    <3>2. a \in Agents /\ id \in Nat /\ reported \in Seq(CanvasTask)
      BY <1>1, <2>1
    <3> HIDE DEF n, a, id
    <3>3. LET x == Canvas!Sent(reported, a, id, n) IN
          /\ x \in Seq(CanvasTask) /\ Len(reported) <= Len(x)
          /\ \A i \in 1 .. Len(reported) : x[i] = reported[i]
          /\ node[a] = "ready" =>
               /\ Len(x) = Len(reported) + 1
               /\ x[Len(reported) + 1] = [agent |-> a, run |-> id, step |-> n, reports |-> 0]
      BY <3>1, <3>2, SentOf
    <3>4. QED BY <3>3 DEF a, id
  <2>4. tasks' = s /\ n = Len(taken) + 2
    BY <2>2
  <2> HIDE DEF s, n
  <2>5. Len(s) \in Nat
    BY <2>3
  <2>6. QED BY <1>1, <2>1, <2>3, <2>4, <2>5
<1>11. /\ taken' \in Seq(Nat) /\ Len(taken') = Len(taken) + 1
       /\ \A i \in 1 .. Len(taken') :
            /\ taken'[i] \in 1 .. Len(tasks')
            /\ tasks'[taken'[i]].run = canvasRun.id /\ tasks'[taken'[i]].step = i
  BY <1>1, <1>2, <1>10, TakenGrows
<1>12. CanvasTypes'
  <2>1. node' \in [Agents -> {"absent", "unset", "ready"}]
    BY DEF CanvasInv, CanvasTypes
  <2>2. QED BY <1>9, <1>10, <1>11, <2>1 DEF CanvasTypes, CanvasTask
<1>13. RunInPhase'
  <2> HIDE DEF plan, old
  <2>1. canvasRun'.phase \in {"specialist", "finalizing", "blocked"}
    BY <1>7, <1>9
  <2>2. canvasRun'.phase = "specialist" => Len(results) < Len(plan) /\ canvasRun'.agent = plan[Len(results) + 1]
    BY <1>7, <1>9
  <2>3. canvasRun'.phase = "finalizing" => Len(results) = Len(plan)
    BY <1>5, <1>6, <1>7, <1>9
  <2>4. QED BY <1>6, <1>9, <1>11, <2>1, <2>2, <2>3 DEF RunInPhase
<1>14. LastIsPast'
  BY <1>1, <1>9 DEF LastIsPast, Canvas!Active
<1>15. Canvas!RunWaitsForATask'
  <2>1. Len(taken') + 1 = Len(taken) + 2
    BY <1>3, <1>11
  <2>2. node[r.agent] = "ready" => Len(tasks) + 1 \in 1 .. Len(tasks')
    BY <1>1, <1>10
  <2>3. QED BY <1>9, <1>10, <2>1, <2>2 DEF Canvas!RunWaitsForATask, Canvas!Active
<1>16. Canvas!ManualTaskIsOut'
  BY <1>1, <1>10, ManualStaysOut
<1>17. QED BY <1>12, <1>13, <1>14, <1>15, <1>16 DEF CanvasInv

LEMMA CanvasTakes ==
  ASSUME CanvasInv, NEW t \in 1 .. Len(tasks), Canvas!ReportResult(t)
  PROVE  CanvasInv'
<1>1. manual' = manual \ {tasks[t].agent} /\ node' = node
  BY DEF Canvas!ReportResult
<1>2. CASE ~Canvas!Awaited(t)
  BY <1>1, <1>2, CanvasForeign DEF Canvas!ReportResult
<1>3. CASE Canvas!Awaited(t) /\ canvasRun.phase = "finalizing"
  BY <1>1, <1>3, CanvasCompletes DEF Canvas!ReportResult
<1>4. CASE Canvas!Awaited(t) /\ canvasRun.phase # "finalizing"
  <2> DEFINE r == Canvas!After(canvasRun, t)
  <2>1. /\ canvasRun' = Canvas!Waiting(r, tasks)
        /\ tasks' = Canvas!Sent(Canvas!Told(t), r.agent, r.id, Len(taken) + 2)
        /\ taken' = Append(taken, t)
    BY <1>4 DEF Canvas!ReportResult
  <2>2. r = Canvas!After(canvasRun, t)
    OBVIOUS
  <2> HIDE DEF r
  <2>3. QED BY <1>1, <1>4, <2>1, <2>2, CanvasAdvances
<1>5. QED BY <1>2, <1>3, <1>4

LEMMA CanvasStep == CanvasInv /\ [Canvas!Next]_canvasVars => CanvasInv'
<1> SUFFICES ASSUME CanvasInv, [Canvas!Next]_canvasVars PROVE CanvasInv'
  OBVIOUS
<1>1. /\ tasks \in Seq(CanvasTask) /\ Len(tasks) <= Len(tasks)
      /\ node \in [Agents -> {"absent", "unset", "ready"}]
  BY DEF CanvasInv, CanvasTypes, CanvasTask
<1>2. ASSUME NEW a \in Agents, Canvas!ReportUnnamed(a) PROVE CanvasInv'
  BY <1>1, <1>2, CanvasMore DEF Canvas!ReportUnnamed
<1>3. ASSUME NEW a \in Agents, NEW to \in {"absent", "unset", "ready"}, Canvas!ChangeNode(a, to)
      PROVE  CanvasInv'
  BY <1>1, <1>3, CanvasMore DEF Canvas!ChangeNode
<1>4. ASSUME NEW left \in {{}, Agents}, Canvas!Reset(left) PROVE CanvasInv'
  <2>1. /\ canvasRun' = None /\ taken' = <<>> /\ manual' \subseteq manual /\ UNCHANGED <<node, tasks>>
    BY <1>4 DEF Canvas!Reset
  <2>2. CanvasTypes'
    BY <1>1, <2>1 DEF CanvasTypes, CanvasTask
  <2>3. RunInPhase' /\ LastIsPast' /\ Canvas!RunWaitsForATask'
    BY <2>1 DEF RunInPhase, LastIsPast, Canvas!RunWaitsForATask, Canvas!Active
  <2>4. Canvas!ManualTaskIsOut'
    BY <2>1 DEF CanvasInv, Canvas!ManualTaskIsOut
  <2>5. QED BY <2>2, <2>3, <2>4 DEF CanvasInv
<1>5. CASE UNCHANGED canvasVars
  BY <1>1, <1>5, CanvasMore DEF canvasVars
<1>6. QED
  BY <1>2, <1>3, <1>4, <1>5, CanvasSends, CanvasStartRun, CanvasFails, CanvasTakes DEF Canvas!Next

\* The results of a run are those of its plan so far.
LEMMA CanvasRuns ==
  CanvasInv => Canvas!RunTakesItsTasks /\ Canvas!RunWaitsForATask /\ Canvas!ManualTaskIsOut
<1> SUFFICES ASSUME CanvasInv PROVE Canvas!RunTakesItsTasks
  BY DEF CanvasInv
<1> SUFFICES ASSUME canvasRun # None PROVE Canvas!RunTakesItsTasks
  BY DEF Canvas!RunTakesItsTasks
<1> DEFINE results == canvasRun.results
           plan == canvasRun.plan
<1>1. /\ results \in Seq(Agents) /\ plan \in Seq(Agents)
      /\ Len(results) \in Nat /\ Len(plan) \in Nat
  BY DEF CanvasInv, CanvasTypes
<1>2. /\ Len(results) <= Len(plan) /\ \A i \in 1 .. Len(results) : results[i] = plan[i]
      /\ canvasRun.phase = "complete" => Len(taken) = Len(results) + 2 /\ Len(results) = Len(plan)
      /\ \A i \in 1 .. Len(taken) : tasks[taken[i]].run = canvasRun.id /\ tasks[taken[i]].step = i
  BY DEF CanvasInv, RunInPhase
<1> HIDE DEF results, plan
<1>3. results = SubSeq(plan, 1, Len(results))
  <2>1. \A i \in 1 .. Len(results) : plan[i] \in Agents
    BY <1>1, <1>2
  <2>2. /\ SubSeq(plan, 1, Len(results)) \in Seq(Agents)
        /\ Len(SubSeq(plan, 1, Len(results))) = IF 1 <= Len(results) THEN Len(results) - 1 + 1 ELSE 0
        /\ \A i \in 1 .. Len(results) - 1 + 1 : SubSeq(plan, 1, Len(results))[i] = plan[1 + i - 1]
    BY <1>1, <2>1, SubSeqProperties
  <2>3. /\ Len(SubSeq(plan, 1, Len(results))) = Len(results)
        /\ \A i \in 1 .. Len(results) : SubSeq(plan, 1, Len(results))[i] = plan[i]
    <3>1. Len(SubSeq(plan, 1, Len(results))) = Len(results)
      BY <1>1, <2>2
    <3>2. ASSUME NEW i \in 1 .. Len(results) PROVE SubSeq(plan, 1, Len(results))[i] = plan[i]
      <4>1. i \in 1 .. Len(results) - 1 + 1 /\ 1 + i - 1 = i
        BY <1>1
      <4>2. QED BY <2>2, <4>1
    <3>3. QED BY <3>1, <3>2
  <2>4. QED BY <1>1, <1>2, <2>2, <2>3, SeqEqual
<1>4. Len(results) = Len(plan) => results = plan
  BY <1>1, <1>2, SeqEqual
<1>5. QED BY <1>2, <1>3, <1>4 DEF Canvas!RunTakesItsTasks, results, plan

\* For any agents, plans, tasks and reports, late, repeated or foreign: a run moves on by the
\* results of its own tasks in the order of its plan, and waits for one that is out.
THEOREM CanvasSafe == Spec => [](part = "canvas" => CanvasInv)
<1>1. Init => (part = "canvas" => CanvasInv)
  BY CanvasInitially DEF Init
<1>2. (part = "canvas" => CanvasInv) /\ [Next]_partVars => (part = "canvas" => CanvasInv)'
  BY CanvasMoves, CanvasStep, PartStays
<1>3. QED BY <1>1, <1>2, PTL DEF Spec

-----------------------------------------------------------------------------
(* The properties of Parts *)

\* For any calls, turns, logins, polls and launches: no process outlives what it
\* was started for unless somebody was told to end it.
THEOREM NoProcessIsLeft == Spec => []NoProcessLeft
<1>1. /\ part = "runner" => RunnerInv
      /\ part = "memory" => MemoryInv
      /\ part = "headless" => HeadlessInv
      /\ part = "login" => LoginInv
      /\ part = "turns" => TurnsInv
      => NoProcessLeft
  BY DEF NoProcessLeft, HeadlessInv, RunnerInv, MemoryInv, LoginInv, TurnsInv
<1>2. QED BY <1>1, RunnerSafe, MemorySafe, HeadlessSafe, LoginSafe, TurnsSafe, PTL

\* For any headless turns: those that were active when the quit began are over,
\* finalized and written before the memory server is stopped, unless a drain ran out
\* of time.  Turns that are spawned later are not waited for.
THEOREM QuitDrainsTurns == Spec => []QuitDrains
<1>1. (part = "headless" => HeadlessInv) => QuitDrains
  BY HeadlessDrains DEF QuitDrains
<1>2. QED BY <1>1, HeadlessSafe, PTL

\* For any launches, waiters, logins and turns: a reservation of a terminal is that of
\* a launch still reserved, and its session that of the running PTY or of a
\* finalization; a launch is connected by its own handshake; the window is told one
\* outcome of a login at most; and a turn drops the session of a start only if it
\* belongs to that start, or was sent before it ran.
THEOREM LaunchesEnd == Spec => []LaunchesEndCleanly
<1>1. /\ part = "sessions" => SessionsInv
      /\ part = "health" => HealthInv
      /\ part = "login" => LoginInv
      /\ part = "turns" => TurnsInv
      => LaunchesEndCleanly
  BY SessionsFree DEF LaunchesEndCleanly, HealthInv, LoginInv, TurnsInv
<1>2. QED BY <1>1, SessionsSafe, HealthSafe, LoginSafe, TurnsSafe, PTL

\* For any tasks and mounts: a task is sent once at most, and its result is told by
\* name unless a newer task was queued or the canvas was told before.  For any turns:
\* one takes the answer to its own prompt, if no turn was sent between the request
\* and the run of a start.
THEOREM TasksReachTheirTerminal == Spec => []TasksAreDelivered
<1>1. /\ part = "delivery" => DeliveryInv
      /\ part = "turns" => TurnsInv
      => TasksAreDelivered
  BY DeliveryOnce, TurnsAnswer DEF TasksAreDelivered
<1>2. QED BY <1>1, DeliverySafe, TurnsSafe, PTL

\* For any agents, plans, tasks and reports: a run takes the results of its own
\* tasks, one for each step in the order of its plan; while it goes on, the task it
\* waits for is out and unreported; and so is one that counts as sent by the user.
THEOREM CanvasRunsSoundly == Spec => []CanvasRunIsSound
<1>1. (part = "canvas" => CanvasInv) => CanvasRunIsSound
  BY CanvasRuns DEF CanvasRunIsSound
<1>2. QED BY <1>1, CanvasSafe, PTL
=============================================================================
