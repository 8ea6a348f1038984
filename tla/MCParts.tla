------------------------------- MODULE MCParts -------------------------------
(***************************************************************************)
(* An instance of Parts for TLC: the constants of every part, the callers  *)
(* that are alike in one order only, and what the parts assume of those    *)
(* they wait for.                                                          *)
(***************************************************************************)
EXTENDS Parts, TLC

CONSTANTS c1, c2, c3, c4 \* callers, of whatever a part has callers of

Callers == {c1, c2, c3, c4}
Pairs == {c1, c2}
Triples == {c1, c2, c3}
Third == {c3}
Fourth == {c4}
Others == {c3, c4}
OneTwo == 1..2

MCEntries == <<"e1", "e2", "e3", "e4", "e5", "e6">>

MCOpOf ==
  c1 :> [kind |-> "reportQuota", seat |-> "s1", spent |-> TRUE] @@
  c2 :> [kind |-> "turnFailed", role |-> "lead", seat |-> "s2"] @@
  c3 :> [kind |-> "removeSeat", seat |-> "s2"]
MCProjectOf == [c \in Triples |-> "p"]
MCSaved ==
  [p \in {"p"} |->
    [enabled |-> TRUE, roles |-> ("lead" :> "s1" @@ "test" :> None),
     seats |-> [s \in {"s1", "s2", "s3"} |->
                  [role |-> "lead", spent |-> FALSE, failures |-> IF s = "s2" THEN 1 ELSE 0,
                   openUntil |-> 0]],
     cooldown |-> [r \in {"lead", "test"} |-> 0], logged |-> 0,
     handoffs |-> [r \in {"lead", "test"} |-> <<>>]]]

MCTerminalOf == c1 :> "t1" @@ c2 :> "t1" @@ c3 :> "t2"
MCExplicit == {c1, c3}

MCPlans == {<<>>, <<"build", "test">>}
TaskOf == c1 :> 1 @@ c2 :> 2

MCUpdates ==
  {u \in [{"openai", "gemini"} -> {"new", "clear", "keep"}] : "keep" \in {u["openai"], u["gemini"]}}

-----------------------------------------------------------------------------

\* Where an installation has a key, as a number: the two keys are alike, so that
\* installations which differ by their names alone need one look.
KeyPlaces(k) == (IF plain[k] = None THEN 0 ELSE 2) + (IF vault.data[k] = None THEN 0 ELSE 1)

MCInit == Init /\ (part = "config" => KeyPlaces("openai") >= KeyPlaces("gemini"))

\* Callers that are alike start in the order of their names: a behaviour in which
\* they start in another order is one of these with the names exchanged.
Started(c) ==
  CASE part = "memory" -> recon[c].at # "new"
    [] part = "config" -> configCall[c] # "idle"
    [] part = "turns"  -> agentCall[c].at # "idle"
    [] part = "usage"  -> refresh[c].at # "idle"

InOrder ==
  /\ part \in {"memory", "config", "turns", "usage"} => (Started(c2)' => Started(c1)')
  /\ part = "usage" => (Started(c3)' => Started(c2)')

MCNext == Next /\ InOrder

\* What the parts assume of their callers, timers and files; work that belongs
\* to no caller in particular is done in the name of c4.
Progress(c) ==
  \/ part = "runner" /\ c \in Pairs /\ Runner!Progress(c) /\ Frame("runner")
  \/ /\ part = "headless"
     /\ (c \in Pairs /\ Headless!Progress(c)) \/ (c = c4 /\ Headless!QuitProgress)
     /\ Frame("headless")
  \/ part = "bridge" /\ c \in Pairs /\ Bridge!Progress(c) /\ Frame("bridge")
  \/ part = "tools" /\ c # c4 /\ Tools!Progress(c) /\ Frame("tools")
  \/ part = "ledger" /\ c = c4 /\ Ledger!Progress /\ Frame("ledger")
  \/ part = "updater" /\ Update!Progress(c) /\ Frame("updater")
  \/ /\ part = "orchestration"
     /\ (c # c4 /\ Orchestra!Progress(c)) \/ (c = c4 /\ Orchestra!QueueProgress)
     /\ Frame("orchestration")
  \/ /\ part = "memory"
     /\ (c # c4 /\ Memory!Progress(c)) \/ (c = c4 /\ Memory!StartStep)
     /\ Frame("memory")
  \/ part = "sessions" /\ c # c4 /\ Sessions!Progress(c) /\ Frame("sessions")
  \/ part = "health" /\ c \in Pairs /\ Health!Progress(c) /\ Frame("health")
  \/ part = "delivery" /\ c \in Pairs /\ Delivery!Progress(TaskOf[c]) /\ Frame("delivery")
  \/ part = "config" /\ c # c4 /\ Secrets!Progress(c) /\ Frame("config")
  \/ part = "login" /\ c \in Pairs /\ Login!Progress(c) /\ Frame("login")
  \/ part = "turns" /\ c # c4 /\ AgentTurn!Progress(c) /\ Frame("turns")
  \/ /\ part = "usage"
     /\ (c # c4 /\ Usage!Progress(c)) \/ (c = c4 /\ Usage!LoadProgress)
     /\ Frame("usage")

MCSpec == MCInit /\ [][MCNext]_partVars /\ \A c \in Callers : WF_partVars(Progress(c))

-----------------------------------------------------------------------------
(* Properties *)

\* Work that a caller waits for.
Unfinished(c) ==
  CASE part = "runner"        -> c \in Pairs /\ Runner!Unfinished(c)
    [] part = "headless"      -> c \in Pairs /\ Headless!Unfinished(c)
    [] part = "bridge"        -> c \in Pairs /\ Bridge!Unfinished(c)
    [] part = "tools"         -> c # c4 /\ Tools!Unfinished(c)
    [] part = "ledger"        -> c = c4 /\ Ledger!Unfinished
    [] part = "updater"       -> Update!Unfinished(c)
    [] part = "orchestration" -> c # c4 /\ Orchestra!Unfinished(c)
    [] part = "memory"        -> IF c = c4 THEN Memory!StartUnfinished ELSE Memory!Unfinished(c)
    [] part = "sessions"      -> c # c4 /\ Sessions!Unfinished(c)
    [] part = "health"        -> c \in Pairs /\ Health!Unfinished(c)
    [] part = "delivery"      -> c \in Pairs /\ Delivery!Unfinished(TaskOf[c])
    [] part = "config"        -> c # c4 /\ Secrets!Unfinished(c)
    [] part = "login"         -> c \in Pairs /\ Login!Unfinished(c)
    [] part = "turns"         -> c # c4 /\ AgentTurn!Unfinished(c)
    [] part = "usage"         -> IF c = c4 THEN Usage!LoadUnfinished ELSE Usage!Unfinished(c)
    [] OTHER                  -> FALSE

\* Every call comes to its end, past failures, aborts, timeouts and calls that
\* were queued before it: runs of a command, headless turns with their
\* finalizers, requests of a socket, tool calls and approvals, appends to the
\* ledger, installations, the calls of the orchestration and of the memory
\* service, launches and finalizations, waits for a connection, deliveries of a
\* task to a terminal, loads and saves of the configuration, logins, turns and
\* starts of an agent's terminal, and loads and refreshes of the usage.  A behaviour
\* has finitely many of them, but for loads of the usage that fail, which all else
\* there waits for: a time after which none is unfinished recurs only if each of them
\* ends.
EveryCallEnds == []<>(\A c \in Callers : ~Unfinished(c))
==============================================================================
