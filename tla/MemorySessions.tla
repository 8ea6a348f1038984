---------------------------- MODULE MemorySessions ----------------------------
(***************************************************************************)
(* ai-memory-launcher.ts: the sessions of the external memory that belong  *)
(* to terminals of one project.  A launch reserves the project's scope,    *)
(* starts a PTY and registers a session; a PTY that ends finalizes it,     *)
(* with a command that may take seconds.  A terminal id is used again.     *)
(*                                                                         *)
(* The first writer of a scope has the default workstream, each other one  *)
(* its own.  The session key of a terminal's generation is the name of the *)
(* launch that registered it.  Sessions of the agents whose end nobody     *)
(* else reports (Explicit) are finalized by the command.                   *)
(***************************************************************************)
CONSTANTS
  Launches,      \* launches, each tried once
  TerminalOf,    \* the terminal of each
  Explicit,      \* launches of an agent that is finalized by the command
  None

VARIABLES
  launch,        \* per launch: its step
  isDefault,     \* launches that were given the default workstream
  attempt,       \* per terminal: its latest launch
  pty,           \* per terminal: the launch whose PTY runs
  reserved,      \* per terminal: pendingScopeReservations
  active,        \* per terminal: activeSessions
  finished,      \* successfulFinalizations
  lastKey,       \* per terminal: lastFinalizedSessionKeyByTerminal
  inFlight,      \* inFlightFinalizations
  overlapping,   \* terminals whose session overlapped another of its agent
  early,         \* exitedBeforeRegistration
  failed         \* launches whose finalization failed

sessionVars ==
  <<launch, isDefault, attempt, pty, reserved, active, finished, lastKey, inFlight,
    overlapping, early, failed>>

MemoryTerminals == {TerminalOf[l] : l \in Launches}

Init ==
  /\ launch = [l \in Launches |-> "new"]
  /\ isDefault = {} /\ finished = {} /\ inFlight = {} /\ overlapping = {}
  /\ early = {} /\ failed = {}
  /\ attempt = [t \in MemoryTerminals |-> None]
  /\ pty = [t \in MemoryTerminals |-> None]
  /\ reserved = [t \in MemoryTerminals |-> None]
  /\ active = [t \in MemoryTerminals |-> None]
  /\ lastKey = [t \in MemoryTerminals |-> None]

-----------------------------------------------------------------------------

\* isScopeActiveOrPreparing, for a launch of terminal t.
ScopeBusy(t) ==
  \E u \in MemoryTerminals \ {t} : active[u] # None \/ reserved[u] # None

\* Others that run a session of the same explicit agent now.
Parallel(l, act) ==
  {u \in MemoryTerminals \ {TerminalOf[l]} : l \in Explicit /\ act[u] \in Explicit}

-----------------------------------------------------------------------------
(* finalizeAiMemorySession, up to the command: what it changes at once.  A  *)
(* key that is finished, or in flight, is left alone.                       *)

SessionKey(t) == IF active[t] # None THEN active[t] ELSE lastKey[t]

Ignored(t) == SessionKey(t) \in finished \cup inFlight

\* Nothing to finalize, except that a launch that is being prepared is told.
NoSession(t) == ~Ignored(t) /\ active[t] = None

\* The harness reports the end itself, or the latest session of the agent could
\* be another one: the command is not run.
WithoutCommand(t) ==
  /\ ~Ignored(t)
  /\ active[t] # None
  /\ active[t] \in Explicit => t \in overlapping \/ Parallel(active[t], active) # {}

WithCommand(t) == ~Ignored(t) /\ active[t] # None /\ ~WithoutCommand(t)

Current ==
  [reserved |-> reserved, active |-> active, finished |-> finished, lastKey |-> lastKey,
   inFlight |-> inFlight, overlapping |-> overlapping, early |-> early]

\* The state after the synchronous part.
Finalized(t) ==
  [reserved |-> IF Ignored(t) THEN reserved ELSE [reserved EXCEPT ![t] = None],
   active |-> IF WithoutCommand(t) THEN [active EXCEPT ![t] = None] ELSE active,
   finished |-> IF WithoutCommand(t) THEN finished \cup {active[t]} ELSE finished,
   lastKey |-> IF WithoutCommand(t) THEN [lastKey EXCEPT ![t] = active[t]] ELSE lastKey,
   inFlight |-> IF WithCommand(t) THEN inFlight \cup {active[t]} ELSE inFlight,
   overlapping |-> IF WithoutCommand(t) /\ active[t] \in Explicit
                   THEN overlapping \ {t} ELSE overlapping,
   early |-> IF NoSession(t) /\ reserved[t] # None THEN early \cup {t} ELSE early]

\* The command ends.  What it removes is looked up by the terminal's id.
CommandEnds(l) ==
  LET t == TerminalOf[l] IN
  /\ l \in inFlight
  /\ inFlight' = inFlight \ {l}
  /\ \/ /\ active' = [active EXCEPT ![t] = None]
        /\ overlapping' = overlapping \ {t}
        /\ finished' = finished \cup {l}
        /\ lastKey' = [lastKey EXCEPT ![t] = l]
        /\ UNCHANGED failed
     \/ /\ failed' = failed \cup {l}
        /\ UNCHANGED <<active, overlapping, finished, lastKey>>
  /\ UNCHANGED <<launch, isDefault, attempt, pty, reserved, early>>

-----------------------------------------------------------------------------
(* prepareAiMemoryLaunch and its callers *)

Prepare(l) ==
  LET t == TerminalOf[l] IN
  /\ launch[l] = "new"
  /\ launch' = [launch EXCEPT ![l] = "preparing"]
  /\ attempt' = [attempt EXCEPT ![t] = l]
  /\ early' = early \ {t}
  /\ UNCHANGED <<isDefault, pty, reserved, active, finished, lastKey, inFlight, overlapping, failed>>

\* The service is ready, the project opted in and its agent is set up: the scope
\* is reserved.  Otherwise the launch runs the agent directly.
Reserve(l) ==
  LET t == TerminalOf[l] IN
  /\ launch[l] = "preparing"
  /\ \/ /\ reserved' = [reserved EXCEPT ![t] = l]
        /\ isDefault' = IF ScopeBusy(t) THEN isDefault ELSE isDefault \cup {l}
        /\ launch' = [launch EXCEPT ![l] = "reserved"]
     \/ /\ launch' = [launch EXCEPT ![l] = "direct"]
        /\ UNCHANGED <<isDefault, reserved>>
  /\ UNCHANGED <<attempt, pty, active, finished, lastKey, inFlight, overlapping, early, failed>>

Superseded_KeepsScope(l) ==
  /\ launch[l] \in {"reserved", "direct"}
  /\ attempt[TerminalOf[l]] # l
  /\ launch' = [launch EXCEPT ![l] = "over"]
  /\ UNCHANGED <<isDefault, attempt, pty, reserved, active, finished, lastKey, inFlight, overlapping, early, failed>>

\* releaseAiMemoryReservation, for a launch that was superseded or stopped.
Superseded(l) ==
  LET t == TerminalOf[l] IN
  /\ launch[l] \in {"reserved", "direct"}
  /\ attempt[t] # l
  /\ launch' = [launch EXCEPT ![l] = "over"]
  /\ reserved' = IF reserved[t] = l THEN [reserved EXCEPT ![t] = None] ELSE reserved
  /\ UNCHANGED <<isDefault, attempt, pty, active, finished, lastKey, inFlight, overlapping, early, failed>>

\* registerActiveAiMemorySession, after the terminal's old session was finalized.
Register(l, f) ==
  LET t == TerminalOf[l] IN
  /\ reserved' = IF f.reserved[t] = l THEN [f.reserved EXCEPT ![t] = None] ELSE f.reserved
  /\ IF t \in f.early
     THEN /\ early' = f.early \ {t}
          /\ active' = [f.active EXCEPT ![t] = None]
          /\ lastKey' = f.lastKey
          /\ overlapping' = f.overlapping
     ELSE /\ early' = f.early
          /\ active' = [f.active EXCEPT ![t] = l]
          /\ lastKey' = [f.lastKey EXCEPT ![t] = None]
          /\ overlapping' = (f.overlapping \ {t}) \cup
               (IF Parallel(l, f.active) = {} THEN {} ELSE {t} \cup Parallel(l, f.active))

\* rollbackAiMemoryLaunch: while another launch owns the terminal, nothing else.
Rollback(l, f) ==
  LET t == TerminalOf[l]
      owner == IF f.reserved[t] = l THEN [f.reserved EXCEPT ![t] = None] ELSE f.reserved
      session == IF f.active[t] = l THEN [f.active EXCEPT ![t] = None] ELSE f.active
      mine == f.reserved[t] = l \/ f.active[t] = l
      last == mine /\ session[t] = None /\ owner[t] = None
  IN
  /\ reserved' = owner
  /\ active' = session
  /\ overlapping' = IF last THEN f.overlapping \ {t} ELSE f.overlapping
  /\ early' = IF last THEN f.early \cup {t} ELSE f.early
  /\ lastKey' = f.lastKey

\* startTerminal stops the terminal's old PTY first, which finalizes its
\* session, and spawns a new one.  A wrapped launch then registers its session;
\* one that cannot spawn is rolled back and runs the agent directly, if it can.
Start(l) ==
  LET t == TerminalOf[l]
      f == IF pty[t] # None THEN Finalized(t) ELSE Current
  IN
  /\ launch[l] \in {"reserved", "direct"}
  /\ attempt[t] = l
  /\ finished' = f.finished
  /\ inFlight' = f.inFlight
  /\ \/ /\ launch[l] = "reserved"
        /\ launch' = [launch EXCEPT ![l] = "wrapped"]
        /\ pty' = [pty EXCEPT ![t] = l]
        /\ Register(l, f)
     \/ /\ launch[l] = "reserved"
        /\ \E p \in {l, None} : pty' = [pty EXCEPT ![t] = p]
        /\ launch' = [launch EXCEPT ![l] = "over"]
        /\ Rollback(l, f)
     \/ /\ launch[l] = "direct"
        /\ \E p \in {l, None} : pty' = [pty EXCEPT ![t] = p]
        /\ launch' = [launch EXCEPT ![l] = "over"]
        /\ reserved' = f.reserved /\ active' = f.active /\ lastKey' = f.lastKey
        /\ overlapping' = f.overlapping /\ early' = f.early
  /\ UNCHANGED <<isDefault, attempt, failed>>

\* Codex: the MCP of a wrapped launch does not connect.  The session is rolled
\* back, the PTY stopped, and the agent runs directly if it can.
FallBack(l) ==
  /\ launch[l] = "wrapped"
  /\ attempt[TerminalOf[l]] = l
  /\ launch' = [launch EXCEPT ![l] = "over"]
  /\ \E p \in {l, None} : pty' = [pty EXCEPT ![TerminalOf[l]] = p]
  /\ Rollback(l, Current)
  /\ UNCHANGED <<isDefault, attempt, finished, inFlight, failed>>

FinalizeNow(t) ==
  LET f == Finalized(t) IN
  /\ reserved' = f.reserved /\ active' = f.active /\ finished' = f.finished
  /\ lastKey' = f.lastKey /\ inFlight' = f.inFlight
  /\ overlapping' = f.overlapping /\ early' = f.early

\* The PTY exits by itself.
Exit(t) ==
  /\ pty[t] # None
  /\ pty' = [pty EXCEPT ![t] = None]
  /\ FinalizeNow(t)
  /\ UNCHANGED <<launch, isDefault, attempt, failed>>

\* A user stops the terminal: its PTY, and the launch that is being prepared.
Stop(t) ==
  /\ attempt[t] # None
  /\ attempt' = [attempt EXCEPT ![t] = None]
  /\ IF pty[t] = None
     THEN UNCHANGED <<pty, reserved, active, finished, lastKey, inFlight, overlapping, early>>
     ELSE pty' = [pty EXCEPT ![t] = None] /\ FinalizeNow(t)
  /\ UNCHANGED <<launch, isDefault, failed>>

Next ==
  \/ \E l \in Launches :
       Prepare(l) \/ Reserve(l) \/ Superseded(l) \/ Start(l) \/ FallBack(l) \/ CommandEnds(l)
  \/ \E t \in MemoryTerminals : Exit(t) \/ Stop(t)

\* The service answers within its timeouts, and the command has one.
Progress(l) == Reserve(l) \/ Superseded(l) \/ Start(l) \/ CommandEnds(l)

Spec == Init /\ [][Next]_sessionVars /\ \A l \in Launches : WF_sessionVars(Progress(l))

-----------------------------------------------------------------------------

Unfinished(l) == launch[l] \in {"preparing", "reserved", "direct"} \/ l \in inFlight

\* A reservation belongs to a launch that is still being prepared, and a session
\* that is tracked to a PTY that runs, or to one whose finalization is running
\* or failed: nothing else keeps the scope busy.  A session that overlapped
\* another is never finalized as "the latest".
ScopeIsFreed ==
  \A t \in MemoryTerminals :
    /\ reserved[t] # None => launch[reserved[t]] = "reserved"
    /\ active[t] # None => active[t] \in {pty[t]} \cup inFlight \cup failed
    /\ pty[t] # None /\ pty[t] = active[t] => pty[t] \notin finished
==============================================================================
