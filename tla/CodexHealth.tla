----------------------------- MODULE CodexHealth -----------------------------
(***************************************************************************)
(* codex-bridge-health.ts and its callers: the health of the managed Codex *)
(* launches of one terminal, each with its own handshake, its timer, the   *)
(* start of its PTY, and the callers that wait for it.                     *)
(*                                                                         *)
(* Launches are attempts of the terminal, made one after the other; the    *)
(* terminal may also be started for something else, stopped, or exit.      *)
(***************************************************************************)
EXTENDS Naturals

CONSTANTS
  HealthLaunches,  \* launch ids: 1..n, configured in this order
  HealthWaiters,
  OtherStarts      \* starts of the terminal that are not of a launch

VARIABLES
  launch,          \* the terminal's entry: its launch, state, agents, ...
  configured,      \* launches configured so far
  spawned,         \* launches whose PTY was started
  pty,             \* whose PTY runs: a launch, "other" or "none"
  accepted,        \* launches whose handshake was accepted
  others,          \* starts that are not of a launch
  waiter,          \* per waiter: the launch it expects, and its outcome
  earned,          \* waiters whose launch had made its handshake when they resolved
  over             \* launches that failed or were stopped

healthVars == <<launch, configured, spawned, pty, accepted, others, waiter, earned, over>>

NoLaunch == [id |-> 0, state |-> "none", agents |-> FALSE, expects |-> FALSE, timer |-> FALSE]

Init ==
  /\ launch = NoLaunch
  /\ configured = 0 /\ spawned = {} /\ pty = "none" /\ accepted = {} /\ others = 0
  /\ waiter = [w \in HealthWaiters |-> [for |-> 0, state |-> "new"]]
  /\ earned = {} /\ over = {}

Connected(l) == l.state \in {"connected", "agents_available"}
Over(l) == l.state \in {"failed", "stopped"}

\* What a waiter makes of an entry it is shown.
Inspected(w, l) ==
  IF w.state # "waiting" THEN w
  ELSE IF w.for # l.id \/ Over(l) THEN [w EXCEPT !.state = "rejected"]
  ELSE IF Connected(l) THEN [w EXCEPT !.state = "resolved"]
  ELSE w

\* emit: the entry is shown to every waiter, one entry after the other.
Show(ws, l) == [w \in HealthWaiters |-> Inspected(ws[w], l)]
Emit(l, ws, hello) ==
  /\ launch' = l
  /\ waiter' = Show(ws, l)
  /\ earned' = earned \cup {w \in HealthWaiters :
                  waiter'[w].state = "resolved" /\ waiter'[w].for \in hello}
  /\ over' = over \cup {x.id : x \in {y \in {l} : Over(y)}}

Quiet == UNCHANGED <<launch, waiter, earned, over>>

Stopped(l) ==
  IF l.id = 0 THEN l
  ELSE [l EXCEPT !.state = "stopped", !.agents = FALSE, !.expects = FALSE, !.timer = FALSE]

Failed(l) ==
  IF l.id = 0 \/ l.state = "stopped" THEN l
  ELSE [l EXCEPT !.state = "failed", !.expects = FALSE, !.timer = FALSE]

-----------------------------------------------------------------------------

Configure ==
  /\ configured + 1 \in HealthLaunches
  /\ configured' = configured + 1
  /\ UNCHANGED <<spawned, pty, accepted, others>>
  /\ Emit([id |-> configured + 1, state |-> "configuring", agents |-> FALSE,
           expects |-> TRUE, timer |-> FALSE],
          Show(waiter, Stopped(launch)), accepted)

\* onTerminalStart: only a start that is expected leaves the entry as it is.
OnTerminalStart ==
  IF launch.expects
  THEN /\ launch' = [launch EXCEPT !.expects = FALSE]
       /\ UNCHANGED <<waiter, earned, over>>
  ELSE Emit(Stopped(launch), waiter, accepted)

\* The launch that is the terminal's latest starts its PTY.
Spawn ==
  /\ configured > 0 /\ configured \notin spawned
  /\ spawned' = spawned \cup {configured}
  /\ pty' = "launch"
  /\ OnTerminalStart
  /\ UNCHANGED <<configured, accepted, others>>

\* The terminal is started for another provider, which stops the PTY it has.
StartOther ==
  /\ others < OtherStarts
  /\ others' = others + 1
  /\ pty' = "other"
  /\ OnTerminalStart
  /\ UNCHANGED <<configured, spawned, accepted>>

\* The launch could not be prepared or spawned.
StartFailure ==
  /\ configured > 0 /\ launch.id = configured /\ configured \notin spawned
  /\ Emit(Failed(launch), waiter, accepted)
  /\ UNCHANGED <<configured, spawned, pty, accepted, others>>

\* After the spawn.  A launch that is connected or over stays as it is.
Connecting(id) ==
  /\ id \in spawned
  /\ launch.id = id
  /\ ~Over(launch) /\ id \notin accepted
  /\ Emit([launch EXCEPT !.state = "connecting", !.expects = TRUE, !.timer = TRUE], waiter, accepted)
  /\ UNCHANGED <<configured, spawned, pty, accepted, others>>

Handshake_OfAnyLaunch(id) ==
  /\ id \in spawned
  /\ ~Over(launch) /\ id \notin accepted
  /\ accepted' = accepted \cup {id}
  /\ Emit([launch EXCEPT !.state = "connected", !.timer = FALSE], waiter, accepted \cup {id})
  /\ UNCHANGED <<configured, spawned, pty, others>>

\* The MCP server of a launch says hello, perhaps late; agents may be there.
Handshake(id) ==
  /\ id \in spawned
  /\ launch.id = id /\ ~Over(launch) /\ id \notin accepted
  /\ accepted' = accepted \cup {id}
  /\ \E agents \in BOOLEAN :
       Emit([launch EXCEPT !.state = IF agents THEN "agents_available" ELSE "connected",
                           !.agents = agents, !.timer = FALSE], waiter, accepted \cup {id})
  /\ UNCHANGED <<configured, spawned, pty, others>>

RegistryChanged(agents) ==
  /\ Connected(launch)
  /\ launch.agents # agents
  /\ Emit([launch EXCEPT !.agents = agents,
                         !.state = IF agents THEN "agents_available" ELSE "connected"], waiter, accepted)
  /\ UNCHANGED <<configured, spawned, pty, accepted, others>>

\* The startup timer of a launch.
StartupTimeout ==
  /\ launch.timer
  /\ Emit(Failed(launch), waiter, accepted)
  /\ UNCHANGED <<configured, spawned, pty, accepted, others>>

\* The output of a launch that connects names an error code.
ErrorCode ==
  /\ launch.state = "connecting"
  /\ Emit(Failed(launch), waiter, accepted)
  /\ UNCHANGED <<configured, spawned, pty, accepted, others>>

\* An exit, or an error, of the terminal's PTY.
TerminalEnds ==
  /\ pty # "none"
  /\ pty' = "none"
  /\ IF launch.state \in {"configuring", "connecting"} THEN Emit(Failed(launch), waiter, accepted)
     ELSE IF Connected(launch) THEN Emit(Stopped(launch), waiter, accepted)
     ELSE Quiet
  /\ UNCHANGED <<configured, spawned, accepted, others>>

\* The user stops the terminal.
StopTerminal ==
  /\ pty' = "none"
  /\ IF launch.id = 0 THEN Quiet ELSE Emit(Stopped(launch), waiter, accepted)
  /\ UNCHANGED <<configured, spawned, accepted, others>>

\* waitConnected: it expects the entry it finds, and looks at it at once.
Wait(w) ==
  /\ waiter[w].state = "new"
  /\ waiter' = [waiter EXCEPT ![w] =
       IF launch.id = 0 THEN [@ EXCEPT !.state = "rejected"]
       ELSE Inspected([for |-> launch.id, state |-> "waiting"], launch)]
  /\ earned' = IF waiter'[w].state = "resolved" /\ launch.id \in accepted THEN earned \cup {w} ELSE earned
  /\ UNCHANGED <<launch, configured, spawned, pty, accepted, others, over>>

WaitTimeout(w) ==
  /\ waiter[w].state = "waiting"
  /\ waiter' = [waiter EXCEPT ![w].state = "rejected"]
  /\ UNCHANGED <<launch, configured, spawned, pty, accepted, others, earned, over>>

Next ==
  \/ Configure \/ Spawn \/ StartOther \/ StartFailure \/ StartupTimeout \/ ErrorCode \/ TerminalEnds \/ StopTerminal
  \/ \E id \in HealthLaunches : Connecting(id) \/ Handshake(id)
  \/ \E agents \in BOOLEAN : RegistryChanged(agents)
  \/ \E w \in HealthWaiters : Wait(w) \/ WaitTimeout(w)

Progress(w) == WaitTimeout(w)

Spec == Init /\ [][Next]_healthVars /\ \A w \in HealthWaiters : WF_healthVars(Progress(w))

-----------------------------------------------------------------------------

Unfinished(w) == waiter[w].state = "waiting"

\* An entry is connected only by the handshake of its own launch and, once that
\* failed or was stopped, never again; and a caller that waited goes on only when the launch it found was; not because the
\* terminal, launched again, is.
ConnectedIsEarned ==
  /\ Connected(launch) => launch.id \in accepted
  /\ Connected(launch) => launch.id \notin over
  /\ \A w \in HealthWaiters : waiter[w].state = "resolved" => w \in earned
=============================================================================
