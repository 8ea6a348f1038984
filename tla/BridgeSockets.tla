---------------------------- MODULE BridgeSockets ----------------------------
(***************************************************************************)
(* The server of the bridge (handleSocket and dispatchRequest of           *)
(* agent-bridge.ts) with the events that agent-bridge-runtime.ts emits     *)
(* around each handler: the requests of a socket are served one at a time, *)
(* in the order of their lines; the handlers are those of BridgeService,   *)
(* here any result after any delay.                                        *)
(***************************************************************************)
EXTENDS Naturals, SequencesExt

CONSTANTS
  Sockets,       \* connections
  Requests,      \* lines, each sent once
  None

VARIABLES
  closed,        \* per socket: closed or ended, which also aborts its signal
  received,      \* per socket: the requests it parsed, in order
  begun,         \* per socket: how many of them have had their turn
  serving,       \* per socket: the request its handler has, or None
  sent,          \* per socket: what was written, in order
  event,         \* per request: the status its last event shows
  stopped        \* the server accepts no more sockets

socketVars == <<closed, received, begun, serving, sent, event, stopped>>

Init ==
  /\ closed = [s \in Sockets |-> TRUE]
  /\ received = [s \in Sockets |-> <<>>]
  /\ begun = [s \in Sockets |-> 0]
  /\ serving = [s \in Sockets |-> None]
  /\ sent = [s \in Sockets |-> <<>>]
  /\ event = [q \in Requests |-> None]
  /\ stopped = FALSE

Seen == UNION {ToSet(received[s]) : s \in Sockets}

-----------------------------------------------------------------------------

\* A connection, each used once.
Accept(s) ==
  /\ ~stopped
  /\ closed[s] /\ received[s] = <<>> /\ sent[s] = <<>>
  /\ closed' = [closed EXCEPT ![s] = FALSE]
  /\ UNCHANGED <<received, begun, serving, sent, event, stopped>>

\* A line that parses and has the credentials of the session.
Line(s, q) ==
  /\ ~closed[s]
  /\ q \notin Seen
  /\ received' = [received EXCEPT ![s] = Append(@, q)]
  /\ UNCHANGED <<closed, begun, serving, sent, event, stopped>>

\* The error that closes a socket answers no request.
Invalidity == <<None, "invalid">>

\* closeInvalid: a line that does not parse, has other credentials or is too
\* long ends the socket with an error.
Invalid(s) ==
  /\ ~closed[s]
  /\ closed' = [closed EXCEPT ![s] = TRUE]
  /\ sent' = [sent EXCEPT ![s] = Append(@, Invalidity)]
  /\ UNCHANGED <<received, begun, serving, event, stopped>>

\* The client leaves, or the connection breaks.
Disconnect(s) ==
  /\ ~closed[s]
  /\ closed' = [closed EXCEPT ![s] = TRUE]
  /\ UNCHANGED <<received, begun, serving, sent, event, stopped>>

Serve_Concurrent(s) ==
  /\ begun[s] < Len(received[s])
  /\ begun' = [begun EXCEPT ![s] = @ + 1]
  /\ serving' = [serving EXCEPT ![s] = received[s][begun'[s]]]
  /\ event' = [event EXCEPT ![received[s][begun'[s]]] = "pending"]
  /\ UNCHANGED <<closed, received, sent, stopped>>

\* A request of a socket that is closed by its turn is dropped.
Serve(s) ==
  /\ serving[s] = None
  /\ begun[s] < Len(received[s])
  /\ begun' = [begun EXCEPT ![s] = @ + 1]
  /\ IF closed[s] THEN UNCHANGED <<serving, event>>
     ELSE /\ serving' = [serving EXCEPT ![s] = received[s][begun'[s]]]
          /\ event' = [event EXCEPT ![received[s][begun'[s]]] = "pending"]
  /\ UNCHANGED <<closed, received, sent, stopped>>

\* The handler returned or threw: the terminal event, then the response.  An
\* event earlier than the first one (the clock was set back) is refused, and
\* so is the one that would report that: the request fails and stays pending.
Answer(s) ==
  LET q == serving[s] IN
  /\ q # None
  /\ serving' = [serving EXCEPT ![s] = None]
  /\ \E result \in {"completed", "failed"}, clockBack \in BOOLEAN :
       /\ event' = IF clockBack THEN event ELSE [event EXCEPT ![q] = result]
       /\ sent' = IF closed[s] THEN sent
                  ELSE [sent EXCEPT ![s] = Append(@,
                         <<q, IF clockBack THEN "failed" ELSE result>>)]
  /\ UNCHANGED <<closed, received, begun, stopped>>

\* stop() of the runtime; the sockets it has go on.
StopServer ==
  /\ ~stopped
  /\ stopped' = TRUE
  /\ UNCHANGED <<closed, received, begun, serving, sent, event>>

Next ==
  \/ StopServer
  \/ \E s \in Sockets :
       \/ Accept(s) \/ Invalid(s) \/ Disconnect(s) \/ Serve(s) \/ Answer(s)
       \/ \E q \in Requests : Line(s, q)

\* Handlers end (EveryRequestIsAnswered of BridgeService).
Progress(s) == Serve(s) \/ Answer(s)

Spec == Init /\ [][Next]_socketVars /\ \A s \in Sockets : WF_socketVars(Progress(s))

-----------------------------------------------------------------------------

Unfinished(s) == begun[s] < Len(received[s]) \/ serving[s] # None

\* A socket answers the requests it received in their order, each once and none
\* left out, nothing follows the error that ends it, and an answer agrees with
\* the last event of its request (which stays pending if the clock was set back).
OneAnswerPerRequest ==
  \A s \in Sockets : \A i \in DOMAIN sent[s] :
    IF sent[s][i] = Invalidity THEN i = Len(sent[s])
    ELSE /\ sent[s][i][1] = received[s][i]
         /\ event[received[s][i]] \in {sent[s][i][2], "pending"}
=============================================================================
