----------------------------- MODULE CodexLogin ------------------------------
(***************************************************************************)
(* The device login of src/main/codex-auth.ts: at most one session is       *)
(* active, a newer start or a cancel invalidates the older ones through     *)
(* loginGeneration, and the CLI's process is ended with its session.        *)
(***************************************************************************)
EXTENDS Naturals, Sequences

CONSTANTS
  Starts,                \* calls of startCodexDeviceLogin
  Cancels,               \* calls of cancelCodexLogin by the user
  None

VARIABLES
  loginGeneration,
  active,                \* activeLoginSession, named by the start that made it
  start,                 \* calls of start: their place and their generation
  child,                 \* the CLI's process: none, spawning, running or gone
  killed,                \* starts whose process was told to end
  session,               \* startupSettled, cancelled, finished, timer and verifying, by start
  cancel,                \* calls of cancel: idle, killing or done
  told,                  \* the outcomes that the window was told of each start
  overtaken,             \* starts invalidated while they looked for the browser
  orphans                \* starts whose process an overtaken start took over, or is

vars ==
  <<loginGeneration, active, start, child, killed, session, cancel, told, overtaken, orphans>>

NoSession ==
  [startupSettled |-> FALSE, cancelled |-> FALSE, finished |-> FALSE, timer |-> FALSE,
   verifying |-> FALSE]

Init ==
  /\ loginGeneration = 0
  /\ active = None
  /\ start = [c \in Starts |-> [at |-> "idle", generation |-> 0]]
  /\ child = [c \in Starts |-> "none"]
  /\ killed = {}
  /\ session = [c \in Starts |-> NoSession]
  /\ cancel = [c \in Cancels |-> "idle"]
  /\ told = [c \in Starts |-> <<>>]
  /\ overtaken = {} /\ orphans = {}

\* isCurrentSession
IsCurrent(c) ==
  active = c /\ start[c].generation = loginGeneration /\ ~session[c].cancelled

Tell(c, outcome) == told' = [told EXCEPT ![c] = Append(@, outcome)]

-----------------------------------------------------------------------------
(* Starting and cancelling *)

\* cancelCodexLogin up to its wait for the process to end: the session is over,
\* and a start that still waited for it to come up is answered.
CancelSession ==
  IF active = None
    THEN UNCHANGED <<active, session, killed, told>>
    ELSE /\ active' = None
         /\ session' = [session EXCEPT
              ![active].startupSettled = TRUE, ![active].cancelled = TRUE,
              ![active].finished = TRUE, ![active].timer = FALSE]
         /\ killed' = killed \cup {active}
         /\ IF session[active].finished THEN UNCHANGED told ELSE Tell(active, "cancelled")

\* Places of the calls of start when the active session is cancelled.
Settled == [c \in Starts |->
  IF c = active /\ start[c].at = "starting" THEN [start[c] EXCEPT !.at = "resolved"] ELSE start[c]]

Invalidate ==
  /\ loginGeneration' = loginGeneration + 1
  /\ CancelSession
  /\ overtaken' = overtaken \cup {c \in Starts : start[c].at = "browser"}
  /\ UNCHANGED <<child, orphans>>

Start(c) ==
  /\ start[c].at = "idle"
  /\ Invalidate
  /\ start' = [Settled EXCEPT ![c] = [at |-> "preparing", generation |-> loginGeneration + 1]]
  /\ UNCHANGED cancel

Cancel(x) ==
  /\ cancel[x] = "idle"
  /\ Invalidate
  /\ start' = Settled
  /\ cancel' = [cancel EXCEPT ![x] = IF active = None THEN "done" ELSE "killing"]

\* taskkill returns, or its time is over.
CancelReturns(x) ==
  /\ cancel[x] = "killing"
  /\ cancel' = [cancel EXCEPT ![x] = "done"]
  /\ UNCHANGED <<loginGeneration, active, start, child, killed, session, told, overtaken, orphans>>

shared == <<loginGeneration, cancel, overtaken>>

Goto(c, place) == start' = [start EXCEPT ![c].at = place]

Prepared_Unchecked(c) ==
  /\ start[c].at = "preparing"
  /\ Goto(c, "browser")
  /\ UNCHANGED <<shared, told, active, child, killed, session, orphans>>

\* The session before is ended, the configuration read and the CLI found.
Prepared(c) ==
  /\ start[c].at = "preparing"
  /\ IF start[c].generation = loginGeneration
       THEN Goto(c, "browser") /\ UNCHANGED told
       ELSE Goto(c, "resolved") /\ Tell(c, "cancelled")
  /\ UNCHANGED <<shared, active, child, killed, session, orphans>>

PreparationFails(c) ==
  /\ start[c].at = "preparing"
  /\ Goto(c, "rejected")
  /\ UNCHANGED <<shared, active, child, killed, session, told, orphans>>

\* There is no browser, of which the window is told; or the search for it, the quoting
\* of the command or spawn throws, of which it is not.
BrowserMissing(c) ==
  /\ start[c].at = "browser"
  /\ \/ Goto(c, "resolved") /\ Tell(c, "error")
     \/ Goto(c, "rejected") /\ UNCHANGED told
  /\ UNCHANGED <<shared, active, child, killed, session, orphans>>

\* Nothing is checked after the browser was found: the session becomes the active
\* one in any case, and the one that was active is forgotten.
SpawnLogin(c) ==
  /\ start[c].at = "browser"
  /\ Goto(c, "starting")
  /\ child' = [child EXCEPT ![c] = "spawning"]
  /\ session' = [session EXCEPT ![c].timer = TRUE]
  /\ active' = c
  /\ orphans' = IF c \in overtaken THEN orphans \cup ({c, active} \ {None}) ELSE orphans
  /\ UNCHANGED <<shared, killed, told>>

-----------------------------------------------------------------------------
(* Events of the CLI's process and of the timer *)

\* The call of start is answered, unless it was before.
Answer(c, place) ==
  start' = IF session[c].startupSettled THEN start ELSE [start EXCEPT ![c].at = place]

Spawned(c) ==
  /\ child[c] = "spawning"
  /\ child' = [child EXCEPT ![c] = "running"]
  /\ Answer(c, "resolved")
  /\ session' = [session EXCEPT ![c].startupSettled = TRUE]
  /\ UNCHANGED <<shared, active, killed, told, orphans>>

\* emitError
SpawnFails(c) ==
  /\ child[c] = "spawning"
  /\ child' = [child EXCEPT ![c] = "gone"]
  /\ Answer(c, "rejected")
  /\ IF ~session[c].finished /\ IsCurrent(c)
       THEN /\ session' = [session EXCEPT
                 ![c].startupSettled = TRUE, ![c].finished = TRUE, ![c].timer = FALSE]
            /\ active' = None
            /\ Tell(c, "error")
       ELSE /\ session' = [session EXCEPT ![c].startupSettled = TRUE]
            /\ UNCHANGED <<active, told>>
  /\ UNCHANGED <<shared, killed, orphans>>

\* The process ends; with code 0 the account's authentication file is looked at.
Close(c, code) ==
  /\ child[c] = "running"
  /\ child' = [child EXCEPT ![c] = "gone"]
  /\ IF IsCurrent(c)
       THEN /\ session' = [session EXCEPT
                 ![c].finished = TRUE, ![c].timer = FALSE, ![c].verifying = (code = 0)]
            /\ active' = None
            /\ IF code = 0 THEN UNCHANGED told ELSE Tell(c, "error")
       ELSE UNCHANGED <<session, active, told>>
  /\ UNCHANGED <<shared, start, killed, orphans>>

Verified(c, connected) ==
  /\ session[c].verifying
  /\ session' = [session EXCEPT ![c].verifying = FALSE]
  /\ IF session[c].cancelled \/ start[c].generation # loginGeneration
       THEN UNCHANGED told
       ELSE Tell(c, IF connected THEN "success" ELSE "error")
  /\ UNCHANGED <<shared, active, start, child, killed, orphans>>

\* CODEX_LOGIN_TIMEOUT_MS is over.
Timeout(c) ==
  /\ session[c].timer
  /\ IF ~session[c].finished /\ IsCurrent(c)
       THEN /\ session' = [session EXCEPT
                 ![c] = [@ EXCEPT !.startupSettled = TRUE, !.cancelled = TRUE,
                                  !.finished = TRUE, !.timer = FALSE]]
            /\ active' = None
            /\ killed' = killed \cup {c}
            /\ Answer(c, "rejected")
            /\ Tell(c, "error")
       ELSE /\ session' = [session EXCEPT ![c].timer = FALSE]
            /\ UNCHANGED <<active, killed, start, told>>
  /\ UNCHANGED <<shared, child, orphans>>

Next ==
  \/ \E c \in Starts :
       \/ Start(c) \/ Prepared(c) \/ PreparationFails(c) \/ BrowserMissing(c) \/ SpawnLogin(c)
       \/ Spawned(c) \/ SpawnFails(c) \/ Timeout(c)
       \/ \E code \in 0..1 : Close(c, code)
       \/ \E connected \in BOOLEAN : Verified(c, connected)
  \/ \E x \in Cancels : Cancel(x) \/ CancelReturns(x)

\* Waits of a start end; a process that was told to end does.
Progress(c) ==
  \/ Prepared(c) \/ PreparationFails(c) \/ BrowserMissing(c) \/ SpawnLogin(c)
  \/ Spawned(c) \/ SpawnFails(c)
  \/ c \in killed /\ \E code \in 0..1 : Close(c, code)
  \/ \E connected \in BOOLEAN : Verified(c, connected)

Unfinished(c) == start[c].at \in {"preparing", "browser", "starting"}

-----------------------------------------------------------------------------
(* Properties *)

\* The process of a login runs only for the active session or after it was told
\* to end, so that no CLI writes the account's authentication when the window
\* believes the login over.  Exempt are the two processes that a start leaves
\* which was invalidated while it looked for its browser.
NoLoginLeft ==
  \A c \in Starts :
    child[c] \in {"spawning", "running"} => active = c \/ c \in killed \/ c \in orphans

\* The window is told one outcome of a login at most, when its session is over and
\* the call that asked for it has been answered, whichever of the process, the
\* timer, a cancel and a newer start ended it.
OneOutcome ==
  \A c \in Starts :
    /\ Len(told[c]) <= 1
    /\ told[c] # <<>> => active # c /\ start[c].at \in {"resolved", "rejected"}
=============================================================================
