--------------------------- MODULE PartsDataProofs --------------------------
(***************************************************************************)
(* The parts that keep data, answer requests, and let something happen     *)
(* only when it was checked, for any sets of calls.  Each part has an      *)
(* inductive invariant of its own (see PartsProcessProofs).                *)
(***************************************************************************)
EXTENDS Parts, FiniteSetTheorems, FunctionTheorems, SequenceTheorems, TLAPS

-----------------------------------------------------------------------------
(* What the parts have in common *)

LEMMA PartStays == [Next]_partVars => part' = part
  BY DEF Next, Frame, partVars

-----------------------------------------------------------------------------
(* handleSocket of agent-bridge.ts *)

BridgeTypeOK ==
  /\ closed \in [Sockets -> BOOLEAN]
  /\ received \in [Sockets -> Seq(Requests)]
  /\ begun \in [Sockets -> Nat]
  /\ serving \in [Sockets -> Requests \cup {None}]
  /\ sent \in [Sockets -> Seq((Requests \cup {None}) \X {"invalid", "completed", "failed"})]
  /\ event \in [Requests -> {None, "pending", "completed", "failed"}]

\* A line is received once, on one socket.
ReceivedOnce ==
  \A s, t \in Sockets : \A i \in DOMAIN received[s], j \in DOMAIN received[t] :
    received[s][i] = received[t][j] => s = t /\ i = j

\* The request that is served is the last that had its turn, and pending.
ServesInOrder(s) ==
  /\ begun[s] <= Len(received[s])
  /\ serving[s] # None =>
       /\ begun[s] > 0 /\ serving[s] = received[s][begun[s]]
       /\ event[serving[s]] = "pending"

\* What has been sent is behind what is served, and an open socket is neither
\* behind nor closed by an error.
SentInOrder(s) ==
  /\ \A i \in DOMAIN sent[s] :
       IF sent[s][i] = Bridge!Invalidity THEN i = Len(sent[s]) /\ closed[s]
       ELSE /\ i <= begun[s] /\ (serving[s] # None => i < begun[s])
            /\ sent[s][i][1] = received[s][i]
            /\ event[received[s][i]] \in {sent[s][i][2], "pending"}
  /\ ~closed[s] => Len(sent[s]) = IF serving[s] = None THEN begun[s] ELSE begun[s] - 1

BridgeInv ==
  BridgeTypeOK /\ ReceivedOnce /\ \A s \in Sockets : ServesInOrder(s) /\ SentInOrder(s)

LEMMA BridgeMoves ==
  ASSUME [Next]_partVars, part = "bridge"
  PROVE  [Bridge!Next]_bridgeVars
  BY DEF Next, partVars, bridgeVars

LEMMA BridgeInitially == Bridge!Init => BridgeInv
  BY DEF BridgeInv, BridgeTypeOK, ReceivedOnce, ServesInOrder, SentInOrder, Bridge!Init

LEMMA LineStep ==
  ASSUME BridgeInv, NEW s \in Sockets, NEW q \in Requests, Bridge!Line(s, q)
  PROVE  BridgeInv'
<1> DEFINE n == Len(received[s])
<1>1. /\ received[s] \in Seq(Requests) /\ n \in Nat
      /\ received' = [received EXCEPT ![s] = Append(received[s], q)]
      /\ UNCHANGED <<closed, begun, serving, sent, event>>
  BY DEF BridgeInv, BridgeTypeOK, Bridge!Line
<1>2. \A t \in Sockets : \A i \in DOMAIN received[t] : received[t][i] # q
  BY DEF Bridge!Line, Bridge!Seen, Bridge!ToSet
<1>3. /\ \A t \in Sockets \ {s} : received'[t] = received[t]
      /\ received'[s] \in Seq(Requests) /\ Len(received'[s]) = n + 1
      /\ \A i \in 1 .. n : received'[s][i] = received[s][i]
      /\ received'[s][n + 1] = q
      /\ DOMAIN received[s] = 1 .. n /\ DOMAIN received'[s] = 1 .. n + 1
  BY <1>1 DEF BridgeInv, BridgeTypeOK
<1>4. BridgeTypeOK' BY <1>1 DEF BridgeInv, BridgeTypeOK
<1>5. ReceivedOnce'
  <2> SUFFICES ASSUME NEW t \in Sockets, NEW u \in Sockets,
                      NEW i \in DOMAIN received'[t], NEW j \in DOMAIN received'[u],
                      received'[t][i] = received'[u][j]
               PROVE  t = u /\ i = j
    BY DEF ReceivedOnce
  <2>1. \A v \in Sockets : \A k \in DOMAIN received'[v] :
          \/ k \in DOMAIN received[v] /\ received'[v][k] = received[v][k]
          \/ v = s /\ k = n + 1 /\ received'[v][k] = q
    BY <1>3
  <2>2. QED BY <1>2, <2>1 DEF BridgeInv, ReceivedOnce
<1>6. ASSUME NEW t \in Sockets PROVE (ServesInOrder(t) /\ SentInOrder(t))'
  <2>1. ServesInOrder(t)'
    BY <1>1, <1>3 DEF BridgeInv, BridgeTypeOK, ServesInOrder
  <2>2. SentInOrder(t)'
    <3>1. begun[t] <= Len(received[t]) /\ begun[t] \in Nat /\ DOMAIN received[t] = 1 .. Len(received[t])
      BY DEF BridgeInv, BridgeTypeOK, ServesInOrder
    <3>2. \A i \in 1 .. begun[t] : received'[t][i] = received[t][i]
      BY <1>3, <3>1
    <3>3. DOMAIN sent[t] = 1 .. Len(sent[t])
      BY DEF BridgeInv, BridgeTypeOK
    <3>4. QED BY <1>1, <3>1, <3>2, <3>3 DEF BridgeInv, SentInOrder, Bridge!Invalidity
  <2>3. QED BY <2>1, <2>2
<1>7. QED BY <1>4, <1>5, <1>6 DEF BridgeInv

LEMMA ServeStep ==
  ASSUME BridgeInv, NEW s \in Sockets, Bridge!Serve(s)
  PROVE  BridgeInv'
<1> DEFINE n == begun[s] + 1
<1>1. /\ n \in 1 .. Len(received[s]) /\ received[s][n] \in Requests
      /\ begun' = [begun EXCEPT ![s] = n] /\ serving[s] = None
      /\ UNCHANGED <<closed, received, sent>>
  BY DEF BridgeInv, BridgeTypeOK, Bridge!Serve
<1>2. \/ closed[s] /\ UNCHANGED <<serving, event>>
      \/ /\ ~closed[s]
         /\ serving' = [serving EXCEPT ![s] = received[s][n]]
         /\ event' = [event EXCEPT ![received[s][n]] = "pending"]
  BY <1>1 DEF BridgeInv, BridgeTypeOK, Bridge!Serve
<1>3. BridgeTypeOK'
  <2>1. begun' \in [Sockets -> Nat] BY <1>1 DEF BridgeInv, BridgeTypeOK
  <2>2. serving' \in [Sockets -> Requests \cup {None}] /\ event' \in [Requests -> {None, "pending", "completed", "failed"}]
    BY <1>1, <1>2 DEF BridgeInv, BridgeTypeOK
  <2>3. QED BY <1>1, <2>1, <2>2 DEF BridgeInv, BridgeTypeOK
<1>4. ReceivedOnce' BY <1>1 DEF BridgeInv, ReceivedOnce
<1>5. ASSUME NEW t \in Sockets PROVE ServesInOrder(t)'
  BY <1>1, <1>2 DEF BridgeInv, BridgeTypeOK, ServesInOrder
<1>6. ASSUME NEW t \in Sockets PROVE SentInOrder(t)'
  <2>1. \A o \in Requests : event'[o] \in {event[o], "pending"}
    BY <1>1, <1>2 DEF BridgeInv, BridgeTypeOK
  <2>2. ASSUME NEW i \in DOMAIN sent[t], sent[t][i] # Bridge!Invalidity
        PROVE  received[t][i] \in Requests /\ i <= begun[t]
    BY <2>2 DEF BridgeInv, BridgeTypeOK, ServesInOrder, SentInOrder
  <2>3. begun'[t] \in Nat /\ begun[t] \in Nat /\ begun[t] <= begun'[t] /\ (t = s \/ begun'[t] = begun[t])
    BY <1>1 DEF BridgeInv, BridgeTypeOK
  <2>4. t # s => serving'[t] = serving[t]
    BY <1>1, <1>2 DEF BridgeInv, BridgeTypeOK
  <2>5. ASSUME NEW i \in DOMAIN sent[t], sent[t][i] # Bridge!Invalidity
        PROVE  /\ i <= begun'[t] /\ (serving'[t] # None => i < begun'[t])
               /\ event'[received[t][i]] \in {sent[t][i][2], "pending"}
    <3>1. i \in Int BY DEF BridgeInv, BridgeTypeOK
    <3>2. /\ i <= begun[t] /\ (serving[t] # None => i < begun[t])
          /\ event[received[t][i]] \in {sent[t][i][2], "pending"}
      BY <2>5 DEF BridgeInv, SentInOrder
    <3>3. event'[received[t][i]] \in {sent[t][i][2], "pending"}
      BY <2>1, <2>2, <2>5, <3>2
    <3>4. t = s => begun'[t] = begun[t] + 1
      BY <1>1 DEF BridgeInv, BridgeTypeOK
    <3>5. QED BY <2>3, <2>4, <3>1, <3>2, <3>3, <3>4
  <2>6. ~closed[t] => Len(sent[t]) = IF serving'[t] = None THEN begun'[t] ELSE begun'[t] - 1
    <3>1. ~closed[t] => Len(sent[t]) = IF serving[t] = None THEN begun[t] ELSE begun[t] - 1
      BY DEF BridgeInv, SentInOrder
    <3>2. ~closed[s] => serving'[s] = received[s][n]
      BY <1>2 DEF BridgeInv, BridgeTypeOK
    <3>3. begun'[s] = n /\ begun[s] \in Nat
      BY <1>1 DEF BridgeInv, BridgeTypeOK
    <3>4. t = s /\ ~closed[t] => serving'[t] # None /\ begun'[t] - 1 = begun[t]
      BY <1>1, <3>2, <3>3, BridgeAssumption
    <3>5. QED BY <1>1, <2>3, <2>4, <3>1, <3>4
  <2>7. QED BY <1>1, <2>5, <2>6 DEF BridgeInv, SentInOrder, Bridge!Invalidity
<1>7. QED BY <1>3, <1>4, <1>5, <1>6 DEF BridgeInv

\* The handler's answer is appended to those before it, or dropped.
LEMMA AnswerStep ==
  ASSUME BridgeInv, NEW s \in Sockets, Bridge!Answer(s)
  PROVE  BridgeInv'
<1> DEFINE n == begun[s]
           q == serving[s]
<1>1. /\ n \in 1 .. Len(received[s]) /\ q = received[s][n] /\ q \in Requests
      /\ serving' = [serving EXCEPT ![s] = None]
      /\ UNCHANGED <<closed, received, begun>>
  BY DEF BridgeInv, BridgeTypeOK, ServesInOrder, Bridge!Answer
<1>2. PICK result \in {"completed", "failed"}, clockBack \in BOOLEAN :
        /\ event' = IF clockBack THEN event ELSE [event EXCEPT ![q] = result]
        /\ sent' = IF closed[s] THEN sent
                   ELSE [sent EXCEPT ![s] = Append(@, <<q, IF clockBack THEN "failed" ELSE result>>)]
  BY DEF Bridge!Answer
<1>3. BridgeTypeOK' BY <1>1, <1>2 DEF BridgeInv, BridgeTypeOK
<1>4. ReceivedOnce' BY <1>1 DEF BridgeInv, ReceivedOnce
<1>5. \A o \in Requests \ {q} : event'[o] = event[o]
  BY <1>1, <1>2 DEF BridgeInv, BridgeTypeOK
<1>6. ASSUME NEW t \in Sockets PROVE ServesInOrder(t)'
  <2>1. ASSUME t # s, serving[t] # None PROVE serving[t] \in Requests \ {q}
    <3>1. begun[t] \in DOMAIN received[t] /\ n \in DOMAIN received[s]
      BY <1>1, <2>1 DEF BridgeInv, BridgeTypeOK, ServesInOrder
    <3>2. serving[t] = received[t][begun[t]] /\ serving[t] \in Requests
      BY <2>1 DEF BridgeInv, BridgeTypeOK, ServesInOrder
    <3>3. QED BY <1>1, <2>1, <3>1, <3>2 DEF BridgeInv, ReceivedOnce
  <2>2. QED BY <1>1, <1>5, <2>1 DEF BridgeInv, BridgeTypeOK, ServesInOrder
<1>7. ASSUME NEW t \in Sockets, NEW i \in DOMAIN sent[t], sent[t][i] # Bridge!Invalidity
      PROVE  event'[received[t][i]] = event[received[t][i]]
  <2>1. i <= begun[t] /\ (t = s => i < n) /\ begun[t] <= Len(received[t]) /\ i \in 1 .. Len(sent[t])
    BY <1>1, <1>7, BridgeAssumption DEF BridgeInv, BridgeTypeOK, ServesInOrder, SentInOrder
  <2>2. i \in DOMAIN received[t] /\ n \in DOMAIN received[s] /\ received[t][i] \in Requests
    BY <1>1, <2>1 DEF BridgeInv, BridgeTypeOK
  <2>3. received[t][i] # q
    BY <1>1, <2>1, <2>2 DEF BridgeInv, ReceivedOnce
  <2>4. QED BY <1>5, <2>2, <2>3
<1>8. ASSUME NEW t \in Sockets PROVE SentInOrder(t)'
  <2>1. CASE closed[s]
    <3>1. sent' = sent BY <1>2, <2>1
    <3>2. QED BY <1>1, <1>7, <2>1, <3>1 DEF BridgeInv, BridgeTypeOK, SentInOrder, Bridge!Invalidity
  <2>2. CASE ~closed[s] /\ t # s
    <3>1. sent'[t] = sent[t] BY <1>2, <2>2 DEF BridgeInv, BridgeTypeOK
    <3>2. QED BY <1>1, <1>7, <2>2, <3>1 DEF BridgeInv, BridgeTypeOK, SentInOrder, Bridge!Invalidity
  <2>3. CASE ~closed[s] /\ t = s
    <3> DEFINE e == <<q, IF clockBack THEN "failed" ELSE result>>
    <3>1. sent'[s] = Append(sent[s], e) /\ Len(sent[s]) = n - 1 /\ sent[s] \in Seq((Requests \cup {None}) \X {"invalid", "completed", "failed"})
      BY <1>1, <1>2, <2>3, BridgeAssumption DEF BridgeInv, BridgeTypeOK, SentInOrder
    <3>2. e # Bridge!Invalidity /\ e[1] = q /\ event'[q] \in {e[2], "pending"}
      BY <1>1, <1>2, BridgeAssumption DEF Bridge!Invalidity, BridgeInv, BridgeTypeOK, ServesInOrder
    <3>3. Len(sent[s]) \in Nat /\ DOMAIN sent[s] = 1 .. n - 1 /\ DOMAIN sent'[s] = 1 .. n /\ Len(sent'[s]) = n
      <4>1. n \in Nat BY <1>1
      <4>2. Len(Append(sent[s], e)) = n /\ DOMAIN Append(sent[s], e) = 1 .. n
        BY <3>1, <4>1
      <4>3. QED BY <3>1, <4>1, <4>2
    <3>4. \A i \in 1 .. n - 1 : sent'[s][i] = sent[s][i] /\ sent[s][i] # Bridge!Invalidity
      BY <3>1, <3>3, <2>3 DEF BridgeInv, SentInOrder
    <3>5. sent'[s][n] = e
      BY <3>1, <3>3
    <3>6. serving'[s] = None /\ begun'[s] = n /\ n \in Nat /\ ~closed'[s]
      BY <1>1, <2>3 DEF BridgeInv, BridgeTypeOK
    <3>7. ASSUME NEW i \in 1 .. n - 1
          PROVE  /\ sent'[s][i] # Bridge!Invalidity /\ i <= n
                 /\ sent'[s][i][1] = received'[s][i]
                 /\ event'[received'[s][i]] \in {sent'[s][i][2], "pending"}
      <4>1. i \in DOMAIN sent[s] /\ sent[s][i] # Bridge!Invalidity /\ sent'[s][i] = sent[s][i]
        BY <3>3, <3>4
      <4>2. sent[s][i][1] = received[s][i] /\ event[received[s][i]] \in {sent[s][i][2], "pending"}
        BY <4>1 DEF BridgeInv, SentInOrder
      <4>3. event'[received[s][i]] = event[received[s][i]]
        BY <1>7, <4>1
      <4>4. received' = received /\ i <= n
        BY <1>1, <3>6
      <4>5. QED BY <4>1, <4>2, <4>3, <4>4
    <3>8. /\ sent'[s][n] # Bridge!Invalidity /\ sent'[s][n][1] = received'[s][n]
          /\ event'[received'[s][n]] \in {sent'[s][n][2], "pending"}
      BY <1>1, <3>2, <3>5
    <3>9. \A i \in 1 .. n : i \in 1 .. n - 1 \/ i = n
      BY <3>6
    <3>10. Bridge!Invalidity' = Bridge!Invalidity
      BY DEF Bridge!Invalidity
    <3>11. QED BY <2>3, <3>3, <3>6, <3>7, <3>8, <3>9, <3>10 DEF SentInOrder
  <2>4. QED BY <2>1, <2>2, <2>3
<1>9. QED BY <1>3, <1>4, <1>6, <1>8 DEF BridgeInv

LEMMA BridgeStep == BridgeInv /\ [Bridge!Next]_bridgeVars => BridgeInv'
<1> SUFFICES ASSUME BridgeInv, [Bridge!Next]_bridgeVars PROVE BridgeInv'
  OBVIOUS
<1>1. ASSUME NEW s \in Sockets, Bridge!Accept(s) \/ Bridge!Invalid(s) \/ Bridge!Disconnect(s)
      PROVE  BridgeInv'
  <2> USE DEF BridgeInv, BridgeTypeOK, ReceivedOnce, ServesInOrder, SentInOrder, Bridge!Invalidity
  <2>1. CASE Bridge!Accept(s)
    <3>1. /\ received[s] = <<>> /\ sent[s] = <<>>
          /\ closed' = [closed EXCEPT ![s] = FALSE]
          /\ UNCHANGED <<received, begun, serving, sent, event>>
      BY <2>1 DEF Bridge!Accept
    <3>2. begun[s] = 0 /\ serving[s] = None
      BY <3>1
    <3>3. Len(sent[s]) = 0 /\ \A i \in DOMAIN sent[s] : FALSE
      BY <3>1
    <3>4. \A t \in Sockets \ {s} : closed'[t] = closed[t]
      BY <3>1
    <3>5. QED BY <3>1, <3>2, <3>3, <3>4
  <2>2. CASE Bridge!Invalid(s) BY <2>2, BridgeAssumption DEF Bridge!Invalid
  <2>3. CASE Bridge!Disconnect(s) BY <2>3 DEF Bridge!Disconnect
  <2>4. QED BY <1>1, <2>1, <2>2, <2>3
<1>2. CASE Bridge!StopServer \/ UNCHANGED bridgeVars
  BY <1>2 DEF Bridge!StopServer, BridgeInv, BridgeTypeOK, ReceivedOnce, ServesInOrder,
              SentInOrder, bridgeVars
<1>3. QED BY <1>1, <1>2, LineStep, ServeStep, AnswerStep DEF Bridge!Next

LEMMA BridgeAnswers == BridgeInv => Bridge!OneAnswerPerRequest
  BY DEF BridgeInv, SentInOrder, Bridge!OneAnswerPerRequest

\* The answers of a socket are those to its requests, in their order, one each.
THEOREM BridgeSafe == Spec => [](part = "bridge" => BridgeInv)
<1>1. Init => (part = "bridge" => BridgeInv)
  BY BridgeInitially DEF Init
<1>2. (part = "bridge" => BridgeInv) /\ [Next]_partVars => (part = "bridge" => BridgeInv)'
  BY BridgeMoves, BridgeStep, PartStays
<1>3. QED BY <1>1, <1>2, PTL DEF Spec

-----------------------------------------------------------------------------
(* hitl.ts and the MCP server *)

ToolSteps == {"new", "recorded", "waiting", "queued", "running", "answered", "failed", "refused"}

ToolTypeOK ==
  /\ use \in [ToolUses -> ToolSteps]
  /\ request \in [ToolUses -> {"none", "pending"} \cup Tools!Final]
  /\ decided \in [ToolUses -> {"none", "approved", "rejected", "refused"}]
  /\ due \subseteq ToolUses /\ waiters \subseteq ToolUses /\ gone \subseteq ToolUses

\* Past the approval, with it.
Approved(c) ==
  c \in NeedsApproval /\ use[c] \in {"queued", "running", "answered"} => decided[c] = "approved"

\* A decision that was accepted is the request's state; the time was not up.
DecidedStands(c) ==
  decided[c] \in {"approved", "rejected"} => request[c] = decided[c] /\ c \notin due

\* Nobody waits for a request that has been settled.
NobodyLeft(c) == request[c] \in Tools!Final => c \notin waiters

\* A request is made once, after its call was recorded.
RequestAsked(c) ==
  /\ use[c] \in {"new", "recorded"} => request[c] = "none"
  /\ request[c] = "none" => c \notin due /\ c \notin waiters /\ decided[c] = "none"

ToolsInv ==
  ToolTypeOK /\ \A c \in ToolUses : Approved(c) /\ DecidedStands(c) /\ NobodyLeft(c) /\ RequestAsked(c)

LEMMA ToolsInitially == Tools!Init => ToolsInv
  BY DEF Tools!Init, ToolsInv, ToolTypeOK, Approved, DecidedStands, NobodyLeft, RequestAsked, ToolSteps, Tools!Final

\* A request that is settled as `decision' takes the call that waits for it along.
LEMMA ResolveToolLemma ==
  ASSUME ToolTypeOK, NEW c \in ToolUses, NEW decision \in Tools!Final, Tools!Resolve(c, decision)
  PROVE  /\ use' \in [ToolUses -> ToolSteps]
         /\ request' \in [ToolUses -> {"none", "pending"} \cup Tools!Final]
         /\ waiters' \subseteq ToolUses
  BY DEF ToolTypeOK, Tools!Resolve, ToolSteps

LEMMA TimeIsUpToolLemma ==
  ASSUME ToolsInv, NEW c \in ToolUses, Tools!TimeIsUp(c)
  PROVE  ToolsInv'
  BY DEF ToolsInv, ToolTypeOK, Approved, DecidedStands, NobodyLeft, RequestAsked, Tools!TimeIsUp

LEMMA ExpireToolLemma ==
  ASSUME ToolsInv, NEW c \in ToolUses, Tools!Expire(c)
  PROVE  ToolsInv'
<1>1. ToolTypeOK' BY ResolveToolLemma DEF ToolsInv, ToolTypeOK, Tools!Expire, Tools!Final
<1>2. ASSUME NEW d \in ToolUses
      PROVE  (Approved(d) /\ DecidedStands(d) /\ NobodyLeft(d) /\ RequestAsked(d))'
  BY <1>2 DEF ToolsInv, ToolTypeOK, Approved, DecidedStands, NobodyLeft, RequestAsked, Tools!Expire, Tools!Resolve, Tools!Final, ToolSteps
<1>3. QED BY <1>1, <1>2 DEF ToolsInv

LEMMA DecideToolLemma ==
  ASSUME ToolsInv, NEW c \in ToolUses, NEW decision \in {"approved", "rejected"}, Tools!Decide(c, decision)
  PROVE  ToolsInv'
<1>1. ToolTypeOK' BY ResolveToolLemma DEF ToolsInv, ToolTypeOK, Tools!Decide, Tools!Final
<1>2. ASSUME NEW d \in ToolUses
      PROVE  (Approved(d) /\ DecidedStands(d) /\ NobodyLeft(d) /\ RequestAsked(d))'
  <2>1. CASE request[c] # "pending"
    BY <2>1, <1>2 DEF ToolsInv, ToolTypeOK, Approved, DecidedStands, NobodyLeft, RequestAsked, Tools!Decide, Tools!Final, ToolSteps
  <2>2. CASE request[c] = "pending" /\ c \in due
    BY <2>2, <1>2 DEF ToolsInv, ToolTypeOK, Approved, DecidedStands, NobodyLeft, RequestAsked, Tools!Decide, Tools!Resolve, Tools!Final, ToolSteps
  <2>3. CASE request[c] = "pending" /\ c \notin due
    BY <2>3, <1>2 DEF ToolsInv, ToolTypeOK, Approved, DecidedStands, NobodyLeft, RequestAsked, Tools!Decide, Tools!Resolve, Tools!Final, ToolSteps
  <2>4. QED BY <2>1, <2>2, <2>3
<1>3. QED BY <1>1, <1>2 DEF ToolsInv

LEMMA CallToolLemma ==
  ASSUME ToolsInv, NEW c \in ToolUses, Tools!Call(c) \/ Tools!Ask(c) \/ Tools!Abort(c) \/ Tools!Execute(c) \/ Tools!Return(c)
  PROVE  ToolsInv'
<1>1. CASE Tools!Call(c)
  BY <1>1 DEF ToolsInv, ToolTypeOK, Approved, DecidedStands, NobodyLeft, RequestAsked, Tools!Call, ToolSteps
<1>2. CASE Tools!Ask(c)
  BY <1>2 DEF ToolsInv, ToolTypeOK, Approved, DecidedStands, NobodyLeft, RequestAsked, Tools!Ask, Tools!Final, ToolSteps
<1>3. CASE Tools!Abort(c)
  BY <1>3 DEF ToolsInv, ToolTypeOK, Approved, DecidedStands, NobodyLeft, RequestAsked, Tools!Abort, ToolSteps
<1>4. CASE Tools!Execute(c)
  BY <1>4 DEF ToolsInv, ToolTypeOK, Approved, DecidedStands, NobodyLeft, RequestAsked, Tools!Execute, ToolSteps
<1>5. CASE Tools!Return(c)
  BY <1>5 DEF ToolsInv, ToolTypeOK, Approved, DecidedStands, NobodyLeft, RequestAsked, Tools!Return, ToolSteps
<1>6. QED BY <1>1, <1>2, <1>3, <1>4, <1>5

LEMMA ToolsMoves ==
  ASSUME [Next]_partVars, part = "tools"
  PROVE  [Tools!Next]_toolVars
  BY DEF Next, partVars, toolVars

LEMMA ToolsStep == ToolsInv /\ [Tools!Next]_toolVars => ToolsInv'
<1> SUFFICES ASSUME ToolsInv, [Tools!Next]_toolVars PROVE ToolsInv'
  OBVIOUS
<1>1. CASE UNCHANGED toolVars
  BY <1>1 DEF ToolsInv, ToolTypeOK, Approved, DecidedStands, NobodyLeft, RequestAsked, toolVars
<1>2. CASE Tools!Next
  <2>1. PICK c \in ToolUses :
          \/ Tools!TimeIsUp(c) \/ Tools!Expire(c)
          \/ \E decision \in {"approved", "rejected"} : Tools!Decide(c, decision)
          \/ Tools!Call(c) \/ Tools!Ask(c) \/ Tools!Abort(c) \/ Tools!Execute(c) \/ Tools!Return(c)
    BY <1>2 DEF Tools!Next
  <2>2. QED
    BY <2>1, TimeIsUpToolLemma, ExpireToolLemma, DecideToolLemma, CallToolLemma
<1>3. QED BY <1>1, <1>2

\* A tool that needs approval runs with its own approval, given while it was due.
THEOREM ToolsSafe == Spec => [](part = "tools" => ToolsInv)
<1>1. Init => (part = "tools" => ToolsInv)
  BY ToolsInitially DEF Init
<1>2. (part = "tools" => ToolsInv) /\ [Next]_partVars => (part = "tools" => ToolsInv)'
  BY ToolsMoves, ToolsStep, PartStays
<1>3. QED BY <1>1, <1>2, PTL DEF Spec

LEMMA ToolsApprove == ToolsInv => Tools!OnlyApprovedToolsRun
  BY DEF ToolsInv, Approved, DecidedStands, NobodyLeft, Tools!OnlyApprovedToolsRun

-----------------------------------------------------------------------------
(* updater.ts *)

\* Neither a check, nor its timer, nor a download is under way: nothing replaces
\* the binary any more.
NoMoreDownloads == ~check /\ ~retryTimer /\ download = "none"

\* One of the three at a time.
OneAtATime ==
  /\ check => ~retryTimer /\ download = "none"
  /\ retryTimer => download = "none"

\* Once a binary has been offered it stays the one that was verified.
OfferedStays ==
  /\ status = "downloaded" => NoMoreDownloads
  /\ \A c \in Update!Callers :
       /\ installer[c] \in {"verifying", "launching", "launched"} => NoMoreDownloads
       /\ installer[c] \in {"launching", "launched"} => genuine

UpdaterTypeOK ==
  /\ check \in BOOLEAN /\ retryTimer \in BOOLEAN /\ genuine \in BOOLEAN /\ path \in BOOLEAN
  /\ autoInstallOnAppQuit \in BOOLEAN /\ portableInstallTriggered \in BOOLEAN
  /\ installer \in [Update!Callers ->
       {"new", "refused", "verifying", "launching", "launched", "done"}]
  /\ Update!Portable => ~autoInstallOnAppQuit

UpdaterInv == UpdaterTypeOK /\ OneAtATime /\ OfferedStays /\ Update!OnlyVerifiedInstalls

LEMMA UpdaterMoves ==
  ASSUME [Next]_partVars, part = "updater"
  PROVE  [Update!Next]_updaterVars
  BY DEF Next, partVars, updaterVars

LEMMA UpdaterInitially == Update!Init => UpdaterInv
  BY DEF UpdaterInv, UpdaterTypeOK, OneAtATime, OfferedStays, NoMoreDownloads,
         Update!OnlyVerifiedInstalls, Update!Init, Update!Portable

LEMMA UpdaterStep == UpdaterInv /\ [Update!Next]_updaterVars => UpdaterInv'
<1> SUFFICES ASSUME UpdaterInv, [Update!Next]_updaterVars PROVE UpdaterInv'
  OBVIOUS
<1> USE DEF UpdaterInv, UpdaterTypeOK, OneAtATime, OfferedStays, NoMoreDownloads,
            Update!OnlyVerifiedInstalls, Update!Portable, Update!Installing, Update!Downloading
<1>1. CASE Update!CheckEnds \/ Update!CheckFinds \/ Update!TimerFires
  <2>1. CASE Update!CheckEnds BY <2>1 DEF Update!CheckEnds
  <2>2. CASE Update!CheckFinds BY <2>2 DEF Update!CheckFinds
  <2>3. CASE Update!TimerFires BY <2>3 DEF Update!TimerFires
  <2>4. QED BY <1>1, <2>1, <2>2, <2>3
<1>2. CASE Update!DownloadFails \/ Update!Downloaded
  <2>1. CASE Update!DownloadFails BY <2>1 DEF Update!DownloadFails
  <2>2. CASE Update!Downloaded BY <2>2 DEF Update!Downloaded
  <2>3. QED BY <1>2, <2>1, <2>2
<1>3. CASE Update!Verified \/ Update!RejectInstalled
  <2>1. CASE Update!Verified BY <2>1 DEF Update!Verified
  <2>2. CASE Update!RejectInstalled BY <2>2 DEF Update!RejectInstalled
  <2>3. QED BY <1>3, <2>1, <2>2
<1>4. ASSUME NEW c \in Update!Callers, Update!Install(c) \/ Update!Quit(c) PROVE UpdaterInv'
  <2>1. CASE Update!Install(c) BY <2>1 DEF Update!Install, Update!Step, Update!Ready
  <2>2. CASE Update!Quit(c) BY <2>2 DEF Update!Quit, Update!Step, Update!Ready
  <2>3. QED BY <1>4, <2>1, <2>2
<1>5. ASSUME NEW c \in Update!Callers, Update!InstallVerified(c) PROVE UpdaterInv'
  BY <1>5 DEF Update!InstallVerified, Update!Step
<1>6. ASSUME NEW c \in Update!Callers, Update!InstallRejected(c) PROVE UpdaterInv'
  <2>1. CASE status' = "error" /\ autoInstallOnAppQuit' = FALSE
    BY <1>6, <2>1 DEF Update!InstallRejected, Update!Step
  <2>2. CASE UNCHANGED <<status, autoInstallOnAppQuit>>
    BY <1>6, <2>2 DEF Update!InstallRejected, Update!Step
  <2>3. QED BY <1>6, <2>1, <2>2 DEF Update!InstallRejected
<1>7. ASSUME NEW c \in Update!Callers, Update!Launch(c) PROVE UpdaterInv'
  BY <1>7 DEF Update!Launch, Update!Step
<1>8. CASE Update!End
  BY <1>8 DEF Update!End
<1>9. CASE UNCHANGED updaterVars
  BY <1>9 DEF updaterVars
<1>10. QED
  BY <1>1, <1>2, <1>3, <1>4, <1>5, <1>6, <1>7, <1>8, <1>9 DEF Update!Next, Update!Callers

\* The order of checks, downloads, installs and quits does not matter to what is installed.
THEOREM UpdaterSafe == Spec => [](part = "updater" => UpdaterInv)
<1>1. Init => (part = "updater" => UpdaterInv)
  BY UpdaterInitially DEF Init
<1>2. (part = "updater" => UpdaterInv) /\ [Next]_partVars => (part = "updater" => UpdaterInv)'
  BY UpdaterMoves, UpdaterStep, PartStays
<1>3. QED BY <1>1, <1>2, PTL DEF Spec

-----------------------------------------------------------------------------
(* ai-memory-migration.ts *)

MigrationTypeOK ==
  /\ receipt \in {"none", "torn", "receipt"} /\ receiptBak \in {"none", "torn", "receipt"}
  /\ migration \in [Migrations ->
       {"new", "backup", "restore", "restoring", "pages", "failed", "done"} \cup
       Migration!RewriteSteps]
  /\ writer \in [LegacyWriters ->
       {"new", "again", "backup", "copy", "copying", "closed", "open", "wrote"}]
  /\ published \in BOOLEAN /\ overlapped \in BOOLEAN
  /\ closedBefore \subseteq LegacyWriters /\ crossed \subseteq LegacyWriters

\* Until two of them overlap, one migration at a time rewrites the receipt; the
\* backup goes when the new one is in its place.
RewritesAlone ==
  /\ \A m, x \in Migrations :
       migration[m] \in Migration!RewriteSteps /\ migration[x] \in Migration!RewriteSteps => m = x
  /\ \A m \in Migrations : migration[m] = "cleanup" => receipt # "none"

\* A check that nobody crossed found no file, and it still is not there.
FoundNothing ==
  \A w \in closedBefore \ crossed : writer[w] \in {"again", "backup"} => receipt = "none"

MigrationInv ==
  /\ MigrationTypeOK
  /\ closedBefore # {} \/ receipt = "receipt" => published
  /\ ~overlapped => RewritesAlone /\ FoundNothing
  /\ Migration!ReceiptSurvives /\ Migration!LegacyStaysClosed

LEMMA MigrationMoves ==
  ASSUME [Next]_partVars, part = "migration"
  PROVE  [Migration!Next]_migrationVars
  BY DEF Next, partVars, migrationVars

LEMMA MigrationInitially == Migration!Init => MigrationInv
  BY DEF MigrationInv, MigrationTypeOK, RewritesAlone, FoundNothing, Migration!ReceiptSurvives,
         Migration!LegacyStaysClosed, Migration!Init, Migration!RewriteSteps

\* A step of a migration: what it makes of the files, and the step it goes on to.
LEMMA MigrationStepLemma ==
  ASSUME MigrationInv, NEW m \in Migrations, NEW f, NEW b, NEW to, Migration!GoOn(m, to),
         to \in {"backup", "restore", "restoring", "pages", "failed", "done"} \cup
                Migration!RewriteSteps,
         f \in {"none", "torn", "receipt"}, b \in {"none", "torn", "receipt"},
         Migration!Files(m, f, b), UNCHANGED <<writer, closedBefore>>,
         f = "none" => f = receipt \/ to = "replace",
         to = "cleanup" => f # "none",
         f = "none" /\ b = "none" => (f = receipt /\ b = receiptBak) \/ receipt = "none",
         migration[m] \in Migration!RewriteSteps \/ b = receiptBak,
         b = "none" => b = receiptBak \/ migration[m] = "cleanup",
         f = "none" /\ f # receipt => migration[m] = "fallback"
  PROVE  MigrationInv'
<1> USE DEF MigrationInv, MigrationTypeOK, Migration!Files, Migration!GoOn
<1>1. MigrationTypeOK'
  BY DEF Migration!Checking
<1>2. (closedBefore # {} \/ receipt = "receipt" => published)'
  OBVIOUS
<1>3. ASSUME ~overlapped' PROVE RewritesAlone'
  BY <1>3 DEF RewritesAlone, Migration!RewriteSteps
<1>4. ASSUME ~overlapped' PROVE FoundNothing'
  BY <1>4, MigrationAssumption DEF FoundNothing, Migration!Checking
<1>5. Migration!ReceiptSurvives'
  BY DEF Migration!ReceiptSurvives, RewritesAlone, Migration!RewriteSteps
<1>6. Migration!LegacyStaysClosed'
  BY DEF Migration!LegacyStaysClosed
<1>7. QED BY <1>1, <1>2, <1>3, <1>4, <1>5, <1>6

\* A step of a writer leaves the migrations alone, and no file less than it was.
LEMMA WriterStepLemma ==
  ASSUME MigrationInv, NEW w \in LegacyWriters, Migration!WriterStep(w)
  PROVE  MigrationInv'
<1> USE DEF MigrationInv, MigrationTypeOK, Migration!To
<1>1. CASE Migration!Check(w)
  BY <1>1 DEF Migration!Check, RewritesAlone, FoundNothing, Migration!ReceiptSurvives,
              Migration!LegacyStaysClosed
<1>2. CASE Migration!CheckAgain(w)
  BY <1>2 DEF Migration!CheckAgain, RewritesAlone, FoundNothing, Migration!ReceiptSurvives,
              Migration!LegacyStaysClosed
<1>3. CASE Migration!CheckBackup(w)
  BY <1>3 DEF Migration!CheckBackup, RewritesAlone, FoundNothing, Migration!ReceiptSurvives,
              Migration!LegacyStaysClosed
<1>4. CASE Migration!Copy(w)
  BY <1>4 DEF Migration!Copy, Migration!Files, Migration!Checking, RewritesAlone, FoundNothing,
              Migration!ReceiptSurvives, Migration!LegacyStaysClosed
<1>5. CASE Migration!Copied(w)
  BY <1>5 DEF Migration!Copied, Migration!Files, Migration!Checking, RewritesAlone, FoundNothing,
              Migration!ReceiptSurvives, Migration!LegacyStaysClosed
<1>6. CASE Migration!Write(w)
  BY <1>6 DEF Migration!Write, RewritesAlone, FoundNothing, Migration!ReceiptSurvives,
              Migration!LegacyStaysClosed
<1>7. QED BY <1>1, <1>2, <1>3, <1>4, <1>5, <1>6 DEF Migration!WriterStep

LEMMA MigrationStep == MigrationInv /\ [Migration!Next]_migrationVars => MigrationInv'
<1> SUFFICES ASSUME MigrationInv, [Migration!Next]_migrationVars PROVE MigrationInv'
  OBVIOUS
<1>1. ASSUME NEW m \in Migrations, Migration!MigrationStep(m) PROVE MigrationInv'
  <2> USE DEF Migration!RewriteSteps
  <2>1. CASE Migration!Lookup(m) \/ Migration!LookupBackup(m) \/ Migration!WriteAndConfirm(m)
    <3>1. PICK to \in {"backup", "restore", "pages", "publish", "failed", "done"} : Migration!GoOn(m, to)
      BY <2>1 DEF Migration!Lookup, Migration!LookupBackup, Migration!WriteAndConfirm
    <3>2. UNCHANGED <<receipt, receiptBak, writer, published, closedBefore, crossed>>
      BY <2>1 DEF Migration!Lookup, Migration!LookupBackup, Migration!WriteAndConfirm
    <3>3. Migration!Files(m, receipt, receiptBak)
      BY <3>2 DEF Migration!Files, MigrationInv, MigrationTypeOK
    <3>4. QED BY <3>1, <3>2, <3>3, MigrationStepLemma DEF MigrationInv, MigrationTypeOK
  <2>2. CASE Migration!Restore(m)
    BY <2>2, MigrationStepLemma DEF Migration!Restore, MigrationInv, MigrationTypeOK
  <2>3. CASE Migration!Restored(m)
    BY <2>3, MigrationStepLemma DEF Migration!Restored, MigrationInv, MigrationTypeOK
  <2>4. CASE Migration!Publish(m)
    BY <2>4, MigrationStepLemma DEF Migration!Publish, MigrationInv, MigrationTypeOK
  <2>5. CASE Migration!MoveAside(m)
    BY <2>5, MigrationStepLemma DEF Migration!MoveAside, MigrationInv, MigrationTypeOK
  <2>6. CASE Migration!Replace(m)
    BY <2>6, MigrationStepLemma DEF Migration!Replace, MigrationInv, MigrationTypeOK
  <2>7. CASE Migration!RemoveBackup(m)
    BY <2>7, MigrationStepLemma DEF Migration!RemoveBackup, MigrationInv, MigrationTypeOK
  <2>8. QED BY <1>1, <2>1, <2>2, <2>3, <2>4, <2>5, <2>6, <2>7 DEF Migration!MigrationStep
<1>2. CASE Migration!Crash
  BY <1>2 DEF Migration!Crash, MigrationInv, MigrationTypeOK, RewritesAlone, FoundNothing,
              Migration!ReceiptSurvives, Migration!LegacyStaysClosed, Migration!RewriteSteps
<1>3. CASE UNCHANGED migrationVars
  BY <1>3 DEF migrationVars, MigrationInv, MigrationTypeOK, RewritesAlone, FoundNothing,
              Migration!ReceiptSurvives, Migration!LegacyStaysClosed
<1>4. QED BY <1>1, <1>2, <1>3, WriterStepLemma DEF Migration!Next

\* A published receipt is there whatever rewrite fails, unless two overlap, and keeps
\* the writers out that look for it.
THEOREM MigrationSafe == Spec => [](part = "migration" => MigrationInv)
<1>1. Init => (part = "migration" => MigrationInv)
  BY MigrationInitially DEF Init
<1>2. (part = "migration" => MigrationInv) /\ [Next]_partVars => (part = "migration" => MigrationInv)'
  BY MigrationMoves, MigrationStep, PartStays
<1>3. QED BY <1>1, <1>2, PTL DEF Spec

-----------------------------------------------------------------------------
(* atomic-file.ts under EvolutionStore and HybridMemory *)

StoreSteps == {"idle", "temporary", "unlink", "backup", "rename", "restore"}

\* Where a write is, and which of the two files holds the records then.
FilesInStep ==
  /\ storeStep \in StoreSteps /\ rollsBack \in BOOLEAN /\ backedUp \in BOOLEAN /\ forgotten \in BOOLEAN
  /\ storeStep # "idle" => memory # <<>>
  /\ storeStep \in {"unlink", "backup"} => main # <<>> /\ ~backedUp
  /\ storeStep = "temporary" => ~backedUp
  /\ storeStep \in {"rename", "restore"} /\ backedUp => main = <<>> /\ storeBak # <<>>
  /\ storeStep = "restore" => backedUp

\* The files hold what the last successful call left, until the step that replaces it;
\* and a store that takes changes back remembers just that.
StoreInv ==
  /\ FilesInStep
  /\ Records!Recoverable = saved
  /\ rollsBack /\ storeStep # "idle" /\ ~forgotten => before = saved
  /\ Records!MemoryIsSaved

LEMMA RecordsMoves ==
  ASSUME [Next]_partVars, part = "records"
  PROVE  [Records!Next]_storeVars
  BY DEF Next, partVars, storeVars

LEMMA RecordsInitially == Records!Init => StoreInv
  BY RollsBackAssumption DEF Records!Init, StoreInv, FilesInStep, StoreSteps,
    Records!Recoverable, Records!Contents, Records!MemoryIsSaved

LEMMA RecordsStep == StoreInv /\ [Records!Next]_storeVars => StoreInv'
<1> SUFFICES ASSUME StoreInv, [Records!Next]_storeVars PROVE StoreInv'
  OBVIOUS
<1> USE DEF StoreInv, FilesInStep, StoreSteps, Records!Recoverable, Records!Contents,
  Records!MemoryIsSaved
<1>1. CASE Records!EnsureLoaded
  <2>1. storeStep' = "idle" /\ memory' # <<>> /\ UNCHANGED <<rollsBack, backedUp, saved>>
    BY <1>1 DEF Records!EnsureLoaded
  <2>2. CASE main = <<>> /\ storeBak # <<>> /\ memory' = <<<<>>>> /\ forgotten' = TRUE
             /\ UNCHANGED <<main, storeBak>>
    BY <2>1, <2>2
  <2>3. CASE /\ memory' = <<Records!Recoverable>> /\ forgotten' = FALSE
             /\ main' = IF main = <<>> THEN storeBak ELSE main
             /\ storeBak' = IF main = <<>> THEN <<>> ELSE storeBak
    <3>1. memory'[1] = saved
      BY <2>3
    <3>2. (Records!Recoverable)' = saved
      BY <2>1, <2>3
    <3>3. QED
      BY <2>1, <2>3, <3>1, <3>2
  <2>4. QED
    BY <1>1, <2>2, <2>3 DEF Records!EnsureLoaded
<1>2. ASSUME NEW records, Records!Change(records) PROVE StoreInv'
  BY <1>2 DEF Records!Change
<1>3. CASE Records!WriteTemporary
  BY <1>3 DEF Records!WriteTemporary, Records!Reject
<1>4. CASE Records!RemoveBackup
  BY <1>4 DEF Records!RemoveBackup
<1>5. CASE Records!Backup
  <2>1. CASE storeBak' = main /\ main' = <<>> /\ backedUp' = TRUE /\ storeStep' = "rename" /\ UNCHANGED <<memory, saved, forgotten>>
    BY <1>5, <2>1 DEF Records!Backup
  <2>2. CASE storeStep' = "rename" /\ UNCHANGED <<main, storeBak, backedUp, memory, saved, forgotten>>
    BY <1>5, <2>2 DEF Records!Backup
  <2>3. CASE Records!Reject /\ UNCHANGED <<main, storeBak, backedUp>>
    BY <1>5, <2>3 DEF Records!Backup, Records!Reject
  <2>4. QED BY <1>5, <2>1, <2>2, <2>3 DEF Records!Backup
<1>6. CASE Records!Rename
  <2>1. CASE main' = memory /\ Records!Succeed
    BY <1>6, <2>1 DEF Records!Rename, Records!Succeed
  <2>2. CASE UNCHANGED main /\ backedUp /\ storeStep' = "restore" /\ UNCHANGED <<memory, saved, forgotten>>
    BY <1>6, <2>2 DEF Records!Rename
  <2>3. CASE UNCHANGED main /\ ~backedUp /\ Records!Reject
    BY <1>6, <2>3 DEF Records!Rename, Records!Reject
  <2>4. QED
    BY <1>6, <2>1, <2>2, <2>3 DEF Records!Rename
<1>7. CASE Records!Restore
  BY <1>7 DEF Records!Restore, Records!Reject
<1>8. CASE Records!Crash
  BY <1>8 DEF Records!Crash
<1>9. CASE UNCHANGED storeVars
  BY <1>9 DEF storeVars
<1>10. CASE Records!Add \/ Records!Remove
  BY <1>2, <1>10 DEF Records!Add, Records!Remove
<1>11. QED
  BY <1>1, <1>3, <1>4, <1>5, <1>6, <1>7, <1>8, <1>9, <1>10 DEF Records!Next

\* Whatever step of a write fails, or is the last before a crash: the file, or else its
\* backup, holds what the last successful call left.
THEOREM RecordsSafe == Spec => [](part = "records" => StoreInv)
<1>1. Init => (part = "records" => StoreInv)
  BY RecordsInitially DEF Init
<1>2. (part = "records" => StoreInv) /\ [Next]_partVars => (part = "records" => StoreInv)'
  BY RecordsMoves, RecordsStep, PartStays
<1>3. QED BY <1>1, <1>2, PTL DEF Spec

-----------------------------------------------------------------------------
(* audit-ledger.ts *)

EntryIndexes == 1 .. Len(Entries)

LedgerTypeOK ==
  /\ log \in Seq(Ledger!ToSet(Entries) \cup {"torn"})
  /\ openLine \in BOOLEAN /\ tears \in Nat
  /\ size \in Nat
  /\ step \in {"idle", "cutting", "renaming", "writing"}
  /\ next \in 0 .. Len(Entries) /\ (step # "idle" => next > 0)
  /\ acked \subseteq Ledger!ToSet(Entries)

\* The appends whose line may have been written.
Written == IF step = "idle" THEN next ELSE next - 1

\* Lines are in the order of their appends, and no line is there for no append: as
\* many lines follow an entry as appends at most.
LinesInOrder ==
  \A p \in 1 .. Len(log) : \A i \in EntryIndexes :
    log[p] = Entries[i] =>
      /\ Len(log) - p <= Written - i
      /\ \A q \in 1 .. Len(log) : \A j \in EntryIndexes : p < q /\ log[q] = Entries[j] => i < j

\* What was acknowledged and not lost to an open line can be read, or was cut: then
\* it is older than everything that can be read, and old enough.
KeptOrCut(i) ==
  \/ \E p \in 1 .. Len(log) : log[p] = Entries[i]
  \/ /\ i + TailLines <= next + 1
     /\ \A p \in 1 .. Len(log) : \A j \in EntryIndexes : log[p] = Entries[j] => i < j

LedgerInv ==
  /\ LedgerTypeOK /\ LinesInOrder
  /\ openLine => log # <<>> /\ log[Len(log)] = "torn"
  /\ step = "renaming" =>
       Len(log) > LedgerLines /\ tail = SubSeq(log, Len(log) - TailLines + 2, Len(log))
  /\ \A i \in EntryIndexes : Entries[i] \in acked => i <= Written
  /\ \E lost \in SUBSET Ledger!ToSet(Entries) :
       /\ IsFiniteSet(lost) /\ Cardinality(lost) + (IF openLine THEN 1 ELSE 0) <= tears
       /\ \A i \in EntryIndexes : Entries[i] \in acked \ lost => KeptOrCut(i)

LEMMA LedgerMoves ==
  ASSUME [Next]_partVars, part = "ledger"
  PROVE  [Ledger!Next]_ledgerVars
  BY DEF Next, partVars, ledgerVars

LEMMA EntryFacts ==
  /\ Len(Entries) \in Nat /\ DOMAIN Entries = EntryIndexes
  /\ \A i \in EntryIndexes : Entries[i] \in Ledger!ToSet(Entries) /\ Entries[i] # "torn"
  /\ \A i, j \in EntryIndexes : Entries[i] = Entries[j] => i = j
  /\ \A e \in Ledger!ToSet(Entries) : \E i \in EntryIndexes : Entries[i] = e
  /\ Ledger!Unknown \in Nat
<1>1. Len(Entries) \in Nat /\ DOMAIN Entries = 1 .. Len(Entries)
  BY LedgerAssumption, LenProperties
<1>2. QED BY <1>1, LedgerAssumption DEF EntryIndexes, Ledger!ToSet, Ledger!Unknown

LEMMA LedgerInitially == Ledger!Init => LedgerInv
<1> SUFFICES ASSUME Ledger!Init PROVE LedgerInv
  OBVIOUS
<1>1. LedgerTypeOK
  <2>1. log \in Seq(Ledger!ToSet(Entries) \cup {"torn"})
    BY EmptySeq DEF Ledger!Init
  <2>2. /\ openLine \in BOOLEAN /\ tears \in Nat /\ size \in Nat /\ step = "idle"
        /\ next \in 0 .. Len(Entries) /\ acked \subseteq Ledger!ToSet(Entries)
    <3>1. size \in Nat
      BY EntryFacts DEF Ledger!Init
    <3>2. next = 0 /\ 0 \in 0 .. Len(Entries)
      BY EntryFacts DEF Ledger!Init
    <3>3. QED BY <3>1, <3>2 DEF Ledger!Init
  <2>3. QED BY <2>1, <2>2 DEF LedgerTypeOK
<1>2. Len(log) = 0
  BY EmptySeq DEF Ledger!Init
<1>3. IsFiniteSet({}) /\ Cardinality({}) + (IF openLine THEN 1 ELSE 0) <= tears
  BY FS_EmptySet DEF Ledger!Init
<1>4. QED BY <1>1, <1>2, <1>3 DEF Ledger!Init, LedgerInv, LinesInOrder

\* What a line that is written leaves: the lines before it, where they were.
LEMMA JoinedLemma ==
  ASSUME LedgerInv, NEW line \in Ledger!ToSet(Entries) \cup {"torn"}
  PROVE  /\ Ledger!Joined(line) \in Seq(Ledger!ToSet(Entries) \cup {"torn"})
         /\ Len(Ledger!Joined(line)) = Len(log) + (IF openLine THEN 0 ELSE 1)
         /\ Ledger!Joined(line) # <<>>
         /\ \A p \in 1 .. Len(log) : Ledger!Joined(line)[p] = log[p]
         /\ ~openLine => Ledger!Joined(line)[Len(log) + 1] = line
<1> DEFINE S == Ledger!ToSet(Entries) \cup {"torn"}
<1>1. log \in Seq(S) /\ Len(log) \in Nat
  BY LenProperties DEF LedgerInv, LedgerTypeOK
<1>2. CASE ~openLine
  <2>1. Ledger!Joined(line) = Append(log, line)
    BY <1>2 DEF Ledger!Joined
  <2>2. QED BY <1>1, <1>2, <2>1, AppendProperties
<1>3. CASE openLine
  <2>1. log # <<>> /\ log[Len(log)] = "torn"
    BY <1>3 DEF LedgerInv
  <2>2. Len(log) \in Nat \ {0}
    BY <1>1, <2>1, EmptySeq
  <2> DEFINE f == SubSeq(log, 1, Len(log) - 1)
  <2>3. f \in Seq(S) /\ Len(f) = Len(log) - 1 /\ \A p \in 1 .. Len(log) - 1 : f[p] = log[p]
    <3>1. \A p \in 1 .. Len(log) - 1 : log[p] \in S
      BY <1>1, <2>2, ElementOfSeq
    <3>2. f \in Seq(S) /\ Len(f) = (IF 1 <= Len(log) - 1 THEN (Len(log) - 1) - 1 + 1 ELSE 0)
          /\ \A p \in 1 .. (Len(log) - 1) - 1 + 1 : f[p] = log[1 + p - 1]
      BY <2>2, <3>1, SubSeqProperties
    <3> HIDE DEF f
    <3>3. Len(f) = Len(log) - 1
      <4> DEFINE k == Len(log)
      <4>1. k \in Nat /\ k >= 1 /\ Len(f) = (IF 1 <= k - 1 THEN (k - 1) - 1 + 1 ELSE 0)
        BY <2>2, <3>2
      <4> HIDE DEF k
      <4>2. Len(f) = k - 1
        BY <4>1
      <4>3. QED BY <4>2 DEF k
    <3>4. \A p \in 1 .. Len(log) - 1 : f[p] = log[p]
      <4>1. ASSUME NEW p \in 1 .. Len(log) - 1 PROVE f[p] = log[p]
        <5>1. p \in 1 .. (Len(log) - 1) - 1 + 1 /\ 1 + p - 1 = p
          BY <2>2
        <5>2. QED BY <3>2, <5>1
      <4>2. QED BY <4>1
    <3>5. QED BY <3>2, <3>3, <3>4
  <2>4. Ledger!Joined(line) = Append(f, "torn")
    BY <1>3 DEF Ledger!Joined, Ledger!Front
  <2> HIDE DEF f
  <2>5. /\ Ledger!Joined(line) \in Seq(S) /\ Ledger!Joined(line) # <<>>
        /\ Len(Ledger!Joined(line)) = Len(f) + 1
        /\ \A p \in 1 .. Len(f) : Ledger!Joined(line)[p] = f[p]
        /\ Ledger!Joined(line)[Len(f) + 1] = "torn"
    BY <2>3, <2>4, AppendProperties
  <2>6. QED BY <1>3, <2>1, <2>2, <2>3, <2>5
<1>4. QED BY <1>2, <1>3

\* A line of the current append, or a torn one, comes after those of earlier appends.
LEMMA LineLemma ==
  ASSUME LedgerInv, step = "writing", step' = "idle", next' = next,
         NEW line \in {Entries[next], "torn"}, log' = Ledger!Joined(line)
  PROVE  /\ log' \in Seq(Ledger!ToSet(Entries) \cup {"torn"}) /\ log' # <<>>
         /\ LinesInOrder'
         /\ \A i \in EntryIndexes : i <= Written /\ KeptOrCut(i) => KeptOrCut(i)'
         /\ Written' = next /\ Written = next - 1 /\ next \in EntryIndexes
         /\ ~openLine => \E p \in 1 .. Len(log') : log'[p] = line
<1>1. /\ Len(log) \in Nat /\ next \in EntryIndexes
      /\ Written' = next /\ Written = next - 1
  BY LenProperties, EntryFacts DEF LedgerInv, LedgerTypeOK, Written, EntryIndexes
<1>2. /\ log' \in Seq(Ledger!ToSet(Entries) \cup {"torn"}) /\ log' # <<>>
      /\ Len(log') = Len(log) + (IF openLine THEN 0 ELSE 1)
      /\ \A p \in 1 .. Len(log) : log'[p] = log[p]
      /\ ~openLine => log'[Len(log) + 1] = line
  BY <1>1, EntryFacts, JoinedLemma
<1>3. ASSUME NEW p \in 1 .. Len(log'), NEW i \in EntryIndexes, log'[p] = Entries[i]
      PROVE  \/ p \in 1 .. Len(log) /\ log[p] = Entries[i] /\ i < next /\ Len(log) - p <= Written - i
             \/ p = Len(log) + 1 /\ i = next /\ ~openLine
  <2>1. CASE p \in 1 .. Len(log)
    <3>1. log[p] = Entries[i]
      BY <1>2, <1>3, <2>1
    <3>2. Len(log) - p <= Written - i
      BY <2>1, <3>1 DEF LedgerInv, LinesInOrder
    <3>3. QED BY <1>1, <2>1, <3>1, <3>2 DEF EntryIndexes
  <2>2. CASE p \notin 1 .. Len(log)
    <3>1. p = Len(log) + 1 /\ ~openLine
      BY <1>1, <1>2, <2>2
    <3>2. line = Entries[i]
      BY <1>2, <1>3, <3>1
    <3>3. i = next
      BY <1>1, <3>2, EntryFacts
    <3>4. QED BY <3>1, <3>3
  <2>3. QED BY <2>1, <2>2
<1>4. LinesInOrder'
  <2>1. SUFFICES ASSUME NEW p \in 1 .. Len(log'), NEW i \in EntryIndexes, log'[p] = Entries[i]
                 PROVE  /\ Len(log') - p <= next - i
                        /\ \A q \in 1 .. Len(log') : \A j \in EntryIndexes :
                             p < q /\ log'[q] = Entries[j] => i < j
    BY <1>1 DEF LinesInOrder, EntryIndexes
  <2>2. Len(log') - p <= next - i
    BY <1>1, <1>2, <1>3, <2>1 DEF EntryIndexes
  <2>3. ASSUME NEW q \in 1 .. Len(log'), NEW j \in EntryIndexes, p < q, log'[q] = Entries[j]
        PROVE  i < j
    <3>1. p \in 1 .. Len(log) /\ log[p] = Entries[i] /\ i < next
      BY <1>1, <1>2, <1>3, <2>1, <2>3
    <3>2. CASE q \in 1 .. Len(log) /\ log[q] = Entries[j]
      BY <2>3, <3>1, <3>2 DEF LedgerInv, LinesInOrder
    <3>3. CASE j = next
      BY <3>1, <3>3
    <3>4. QED BY <1>3, <2>3, <3>2, <3>3
  <2>4. QED BY <2>2, <2>3
<1>5. ASSUME NEW i \in EntryIndexes, i <= Written, KeptOrCut(i) PROVE KeptOrCut(i)'
  <2>1. CASE \E p \in 1 .. Len(log) : log[p] = Entries[i]
    BY <1>1, <1>2, <2>1 DEF KeptOrCut
  <2>2. CASE /\ i + TailLines <= next + 1
             /\ \A p \in 1 .. Len(log) : \A j \in EntryIndexes : log[p] = Entries[j] => i < j
    <3>1. ASSUME NEW p \in 1 .. Len(log'), NEW j \in EntryIndexes, log'[p] = Entries[j] PROVE i < j
      BY <1>1, <1>3, <1>5, <2>2, <3>1 DEF EntryIndexes
    <3>2. QED BY <2>2, <3>1 DEF KeptOrCut
  <2>3. QED BY <1>5, <2>1, <2>2 DEF KeptOrCut
<1>6. QED BY <1>1, <1>2, <1>4, <1>5

LEMMA WriteLemma == ASSUME LedgerInv, Ledger!Write PROVE LedgerInv'
<1>1. /\ step = "writing" /\ step' = "idle" /\ log' = Ledger!Joined(Entries[next])
      /\ openLine' = FALSE /\ size' = size + 1 /\ acked' = acked \cup {Entries[next]}
      /\ UNCHANGED <<tail, next, tears>>
  BY DEF Ledger!Write, Ledger!Current
<1>2. /\ log' \in Seq(Ledger!ToSet(Entries) \cup {"torn"}) /\ LinesInOrder'
      /\ \A i \in EntryIndexes : i <= Written /\ KeptOrCut(i) => KeptOrCut(i)'
      /\ Written' = next /\ Written = next - 1 /\ next \in EntryIndexes
      /\ ~openLine => \E p \in 1 .. Len(log') : log'[p] = Entries[next]
  BY <1>1, LineLemma
<1>3. LedgerTypeOK'
  <2>1. size' \in Nat /\ acked' \subseteq Ledger!ToSet(Entries) /\ tears' \in Nat
    BY <1>1, <1>2, EntryFacts DEF LedgerInv, LedgerTypeOK
  <2>2. next' \in 0 .. Len(Entries)
    BY <1>1 DEF LedgerInv, LedgerTypeOK
  <2>3. QED BY <1>1, <1>2, <2>1, <2>2 DEF LedgerTypeOK
<1>4. ASSUME NEW i \in EntryIndexes, Entries[i] \in acked' PROVE i <= Written'
  <2>1. CASE Entries[i] \in acked
    BY <1>2, <2>1 DEF LedgerInv, EntryIndexes
  <2>2. CASE Entries[i] = Entries[next]
    BY <1>2, <2>2, EntryFacts DEF EntryIndexes
  <2>3. QED BY <1>1, <1>4, <2>1, <2>2
<1>5. PICK lost \in SUBSET Ledger!ToSet(Entries) :
        /\ IsFiniteSet(lost) /\ Cardinality(lost) + (IF openLine THEN 1 ELSE 0) <= tears
        /\ \A i \in EntryIndexes : Entries[i] \in acked \ lost => KeptOrCut(i)
  BY DEF LedgerInv
<1> DEFINE more == IF openLine THEN lost \cup {Entries[next]} ELSE lost
<1>6. more \in SUBSET Ledger!ToSet(Entries) /\ IsFiniteSet(more) /\ Cardinality(more) + 0 <= tears'
  <2>1. Cardinality(lost) \in Nat /\ openLine \in BOOLEAN /\ tears \in Nat
    BY <1>5, FS_CardinalityType DEF LedgerInv, LedgerTypeOK
  <2>2. CASE openLine
    <3>1. IsFiniteSet(more) /\ Cardinality(more) <= Cardinality(lost) + 1
      <4>1. /\ IsFiniteSet(lost \cup {Entries[next]})
            /\ Cardinality(lost \cup {Entries[next]}) =
                 IF Entries[next] \in lost THEN Cardinality(lost) ELSE Cardinality(lost) + 1
        BY <1>5, FS_AddElement
      <4>2. QED BY <2>1, <2>2, <4>1
    <3>2. Cardinality(more) \in Nat
      BY <3>1, FS_CardinalityType
    <3>3. more \in SUBSET Ledger!ToSet(Entries)
      BY <1>2, EntryFacts
    <3>4. QED BY <1>1, <1>5, <2>1, <2>2, <3>1, <3>2, <3>3
  <2>3. CASE ~openLine
    BY <1>1, <1>5, <2>1, <2>3
  <2>4. QED BY <2>2, <2>3
<1>7. ASSUME NEW i \in EntryIndexes, Entries[i] \in acked' \ more PROVE KeptOrCut(i)'
  <2>1. CASE Entries[i] \in acked
    <3>1. KeptOrCut(i) /\ i <= Written
      BY <1>5, <1>7, <2>1 DEF LedgerInv
    <3>2. QED BY <1>2, <3>1
  <2>2. CASE Entries[i] \notin acked
    <3>1. Entries[i] = Entries[next] /\ ~openLine
      BY <1>1, <1>7, <2>2
    <3>2. QED BY <1>2, <3>1 DEF KeptOrCut
  <2>3. QED BY <2>1, <2>2
<1> HIDE DEF more
<1>8. \E l \in SUBSET Ledger!ToSet(Entries) :
        /\ IsFiniteSet(l) /\ Cardinality(l) + (IF openLine' THEN 1 ELSE 0) <= tears'
        /\ \A i \in EntryIndexes : Entries[i] \in acked' \ l => KeptOrCut(i)'
  <2>1. Cardinality(more) + (IF openLine' THEN 1 ELSE 0) <= tears'
    BY <1>1, <1>6
  <2>2. QED BY <1>6, <1>7, <2>1
<1>9. QED BY <1>1, <1>2, <1>3, <1>4, <1>8 DEF LedgerInv

\* A write of part of a line, or a crash in it.
LEMMA TornLemma ==
  ASSUME LedgerInv, step = "writing", step' = "idle", next' = next, tears' = tears + 1,
         log' = Ledger!Joined("torn"), openLine' = TRUE, acked' = acked, size' \in Nat
  PROVE  LedgerInv'
<1>1. /\ log' \in Seq(Ledger!ToSet(Entries) \cup {"torn"}) /\ LinesInOrder' /\ log' # <<>>
      /\ \A i \in EntryIndexes : i <= Written /\ KeptOrCut(i) => KeptOrCut(i)'
      /\ Written' = next /\ Written = next - 1 /\ next \in EntryIndexes
  BY LineLemma
<1>2. log'[Len(log')] = "torn"
  <2>1. /\ Len(log') = Len(log) + (IF openLine THEN 0 ELSE 1)
        /\ \A p \in 1 .. Len(log) : log'[p] = log[p]
        /\ ~openLine => log'[Len(log) + 1] = "torn"
    BY JoinedLemma
  <2>2. log \in Seq(Ledger!ToSet(Entries) \cup {"torn"}) /\ Len(log) \in Nat
    BY LenProperties DEF LedgerInv, LedgerTypeOK
  <2>3. CASE openLine
    <3>1. log # <<>> /\ log[Len(log)] = "torn"
      BY <2>3 DEF LedgerInv
    <3>2. Len(log) \in 1 .. Len(log)
      BY <2>2, <3>1, EmptySeq
    <3>3. QED BY <2>1, <2>2, <2>3, <3>1, <3>2
  <2>4. CASE ~openLine
    BY <2>1, <2>4
  <2>5. QED BY <2>3, <2>4
<1>3. LedgerTypeOK'
  BY <1>1 DEF LedgerInv, LedgerTypeOK
<1>4. \A i \in EntryIndexes : Entries[i] \in acked' => i <= Written'
  BY <1>1 DEF LedgerInv, EntryIndexes
<1>5. PICK lost \in SUBSET Ledger!ToSet(Entries) :
        /\ IsFiniteSet(lost) /\ Cardinality(lost) + (IF openLine THEN 1 ELSE 0) <= tears
        /\ \A i \in EntryIndexes : Entries[i] \in acked \ lost => KeptOrCut(i)
  BY DEF LedgerInv
<1>6. Cardinality(lost) + (IF openLine' THEN 1 ELSE 0) <= tears'
  <2>1. Cardinality(lost) \in Nat /\ tears \in Nat /\ openLine \in BOOLEAN
    BY <1>5, FS_CardinalityType DEF LedgerInv, LedgerTypeOK
  <2>2. QED BY <1>5, <2>1
<1>7. \A i \in EntryIndexes : Entries[i] \in acked' \ lost => KeptOrCut(i)'
  BY <1>1, <1>5 DEF LedgerInv
<1>8. QED BY <1>1, <1>2, <1>3, <1>4, <1>5, <1>6, <1>7 DEF LedgerInv

\* The file stays, and the appends go on.
LEMMA FileStays ==
  ASSUME LedgerInv, UNCHANGED <<log, openLine, acked>>, LedgerTypeOK', next' >= next,
         Written' >= Written, tears' >= tears,
         step' = "renaming" =>
           Len(log) > LedgerLines /\ tail' = SubSeq(log, Len(log) - TailLines + 2, Len(log))
  PROVE  LedgerInv'
<1>1. /\ Len(log) \in Nat /\ next \in Nat /\ next' \in Nat /\ Written \in Int /\ Written' \in Int
      /\ TailLines \in Nat /\ tears \in Nat /\ tears' \in Nat
  BY LenProperties, LedgerAssumption DEF LedgerInv, LedgerTypeOK, Written
<1>2. LinesInOrder'
  BY <1>1 DEF LedgerInv, LinesInOrder, EntryIndexes
<1>3. ASSUME NEW i \in EntryIndexes, KeptOrCut(i) PROVE KeptOrCut(i)'
  <2>1. CASE \E p \in 1 .. Len(log) : log[p] = Entries[i]
    BY <2>1 DEF KeptOrCut
  <2>2. CASE /\ i + TailLines <= next + 1
             /\ \A p \in 1 .. Len(log) : \A j \in EntryIndexes : log[p] = Entries[j] => i < j
    <3>1. i + TailLines <= next' + 1
      BY <1>1, <2>2 DEF EntryIndexes
    <3>2. QED BY <2>2, <3>1 DEF KeptOrCut
  <2>3. QED BY <1>3, <2>1, <2>2 DEF KeptOrCut
<1>4. \A i \in EntryIndexes : Entries[i] \in acked' => i <= Written'
  BY <1>1 DEF LedgerInv, EntryIndexes
<1>5. PICK lost \in SUBSET Ledger!ToSet(Entries) :
        /\ IsFiniteSet(lost) /\ Cardinality(lost) + (IF openLine THEN 1 ELSE 0) <= tears
        /\ \A i \in EntryIndexes : Entries[i] \in acked \ lost => KeptOrCut(i)
  BY DEF LedgerInv
<1>6. Cardinality(lost) + (IF openLine' THEN 1 ELSE 0) <= tears'
  <2>1. Cardinality(lost) \in Nat /\ openLine \in BOOLEAN
    BY <1>5, FS_CardinalityType DEF LedgerInv, LedgerTypeOK
  <2>2. QED BY <1>1, <1>5, <2>1
<1>7. \A i \in EntryIndexes : Entries[i] \in acked' \ lost => KeptOrCut(i)'
  BY <1>3, <1>5
<1>8. QED BY <1>2, <1>4, <1>5, <1>6, <1>7 DEF LedgerInv

\* The tail takes the place of the file: what was in front of it was not recent.
LEMMA CutLemma ==
  ASSUME LedgerInv, step = "renaming", step' = "writing", log' = tail, size' = Len(tail),
         UNCHANGED <<openLine, next, acked, tears>>
  PROVE  LedgerInv'
<1> DEFINE S == Ledger!ToSet(Entries) \cup {"torn"}
           d == Len(log) - TailLines + 1
<1>1. /\ log \in Seq(S) /\ Len(log) \in Nat /\ Len(log) > LedgerLines
      /\ TailLines \in Nat /\ TailLines >= 2 /\ TailLines <= LedgerLines /\ LedgerLines \in Nat
      /\ next \in EntryIndexes /\ Written = next - 1 /\ Written' = next - 1
  BY LenProperties, LedgerAssumption DEF LedgerInv, LedgerTypeOK, Written, EntryIndexes
<1>2. d \in Nat /\ Len(log) = d + TailLines - 1
  BY <1>1
<1>3. /\ log' \in Seq(S) /\ Len(log') = TailLines - 1
      /\ \A p \in 1 .. TailLines - 1 : log'[p] = log[d + p] /\ d + p \in 1 .. Len(log)
  <2>1. log' = SubSeq(log, d + 1, Len(log))
    BY <1>1 DEF LedgerInv
  <2>2. \A p \in d + 1 .. Len(log) : log[p] \in S
    BY <1>1, <1>2, ElementOfSeq
  <2> HIDE DEF d, S
  <2>3. /\ log' \in Seq(S)
        /\ Len(log') = (IF d + 1 <= Len(log) THEN Len(log) - (d + 1) + 1 ELSE 0)
        /\ \A p \in 1 .. Len(log) - (d + 1) + 1 : log'[p] = log[d + 1 + p - 1]
    BY <1>1, <1>2, <2>1, <2>2, SubSeqProperties
  <2>4. QED BY <1>1, <1>2, <2>3
<1> HIDE DEF d, S
<1>4. ASSUME NEW p \in 1 .. Len(log'), NEW i \in EntryIndexes, log'[p] = Entries[i]
      PROVE  /\ d + p \in 1 .. Len(log) /\ log[d + p] = Entries[i]
             /\ Len(log') - p = Len(log) - (d + p)
  BY <1>1, <1>2, <1>3, <1>4
<1>5. LinesInOrder'
  <2>1. SUFFICES ASSUME NEW p \in 1 .. Len(log'), NEW i \in EntryIndexes, log'[p] = Entries[i]
                 PROVE  /\ Len(log') - p <= Written - i
                        /\ \A q \in 1 .. Len(log') : \A j \in EntryIndexes :
                             p < q /\ log'[q] = Entries[j] => i < j
    BY <1>1 DEF LinesInOrder, EntryIndexes
  <2>2. Len(log') - p <= Written - i
    BY <1>4, <2>1 DEF LedgerInv, LinesInOrder
  <2>3. ASSUME NEW q \in 1 .. Len(log'), NEW j \in EntryIndexes, p < q, log'[q] = Entries[j]
        PROVE  i < j
    <3>1. /\ d + p \in 1 .. Len(log) /\ log[d + p] = Entries[i]
          /\ d + q \in 1 .. Len(log) /\ log[d + q] = Entries[j] /\ d + p < d + q
      BY <1>2, <1>3, <1>4, <2>1, <2>3
    <3>2. QED BY <3>1 DEF LedgerInv, LinesInOrder
  <2>4. QED BY <2>2, <2>3
<1>6. ASSUME NEW i \in EntryIndexes, KeptOrCut(i) PROVE KeptOrCut(i)'
  <2>1. ASSUME NEW p \in 1 .. Len(log), log[p] = Entries[i] PROVE KeptOrCut(i)'
    <3>1. CASE p > d
      <4>1. p - d \in 1 .. Len(log') /\ log'[p - d] = log[p]
        BY <1>1, <1>2, <1>3, <3>1
      <4>2. QED BY <2>1, <4>1 DEF KeptOrCut
    <3>2. CASE p <= d
      <4>1. Len(log) - p <= Written - i
        BY <2>1 DEF LedgerInv, LinesInOrder
      <4>2. i + TailLines <= next' + 1
        BY <1>1, <1>2, <3>2, <4>1 DEF EntryIndexes
      <4>3. ASSUME NEW q \in 1 .. Len(log'), NEW j \in EntryIndexes, log'[q] = Entries[j] PROVE i < j
        <5>1. d + q \in 1 .. Len(log) /\ log[d + q] = Entries[j] /\ p < d + q
          BY <1>2, <1>3, <1>4, <3>2, <4>3
        <5>2. QED BY <2>1, <5>1 DEF LedgerInv, LinesInOrder
      <4>4. QED BY <4>2, <4>3 DEF KeptOrCut
    <3>3. QED BY <1>2, <3>1, <3>2
  <2>2. CASE /\ i + TailLines <= next + 1
             /\ \A p \in 1 .. Len(log) : \A j \in EntryIndexes : log[p] = Entries[j] => i < j
    <3>1. ASSUME NEW p \in 1 .. Len(log'), NEW j \in EntryIndexes, log'[p] = Entries[j] PROVE i < j
      BY <1>4, <2>2, <3>1
    <3>2. QED BY <2>2, <3>1 DEF KeptOrCut
  <2>3. QED BY <1>6, <2>1, <2>2 DEF KeptOrCut
<1>7. openLine' => log' # <<>> /\ log'[Len(log')] = "torn"
  <2>1. openLine => log[Len(log)] = "torn"
    BY DEF LedgerInv
  <2>2. log'[Len(log')] = log[Len(log)]
    BY <1>1, <1>2, <1>3
  <2>3. log' # <<>>
    BY <1>1, <1>3, EmptySeq
  <2>4. QED BY <2>1, <2>2, <2>3
<1>8. LedgerTypeOK'
  BY <1>1, <1>3 DEF LedgerInv, LedgerTypeOK, S
<1>9. \A i \in EntryIndexes : Entries[i] \in acked' => i <= Written'
  BY <1>1 DEF LedgerInv
<1>10. QED BY <1>5, <1>6, <1>7, <1>8, <1>9 DEF LedgerInv

LEMMA LedgerStep == LedgerInv /\ [Ledger!Next]_ledgerVars => LedgerInv'
<1> SUFFICES ASSUME LedgerInv, [Ledger!Next]_ledgerVars PROVE LedgerInv'
  OBVIOUS
<1>1. /\ Len(log) \in Nat /\ Len(Entries) \in Nat /\ next \in Nat /\ Ledger!Unknown \in Nat
      /\ tears \in Nat
  BY LenProperties, EntryFacts DEF LedgerInv, LedgerTypeOK
<1>2. CASE Ledger!Begin
  <2>1. /\ step = "idle" /\ next < Len(Entries) /\ next' = next + 1 /\ size' \in Nat
        /\ step' \in {"cutting", "writing"} /\ UNCHANGED <<log, openLine, tail, acked, tears>>
    BY <1>1, <1>2 DEF Ledger!Begin, LedgerInv, LedgerTypeOK
  <2>2. LedgerTypeOK' /\ next' >= next /\ Written' >= Written /\ tears' >= tears
    BY <1>1, <2>1 DEF LedgerInv, LedgerTypeOK, Written
  <2>3. QED BY <2>1, <2>2, FileStays
<1>3. CASE Ledger!NoDirectory
  <2>1. /\ step = "idle" /\ step' = "idle" /\ next < Len(Entries) /\ next' = next + 1
        /\ UNCHANGED <<log, openLine, tail, size, acked, tears>>
    BY <1>3 DEF Ledger!NoDirectory
  <2>2. LedgerTypeOK' /\ next' >= next /\ Written' >= Written /\ tears' >= tears
    BY <1>1, <2>1 DEF LedgerInv, LedgerTypeOK, Written
  <2>3. QED BY <2>1, <2>2, FileStays
<1>4. CASE Ledger!Cut
  <2>1. /\ step = "cutting" /\ step' \in {"renaming", "writing"} /\ size' \in Nat
        /\ step' = "renaming" =>
             Len(log) > LedgerLines /\ tail' = SubSeq(log, Len(log) - TailLines + 2, Len(log))
        /\ UNCHANGED <<log, openLine, next, acked, tears>>
    BY <1>1, <1>4 DEF Ledger!Cut, LedgerInv, LedgerTypeOK
  <2>2. LedgerTypeOK' /\ next' >= next /\ Written' >= Written /\ tears' >= tears
    BY <1>1, <2>1 DEF LedgerInv, LedgerTypeOK, Written
  <2>3. QED BY <2>1, <2>2, FileStays
<1>5. CASE Ledger!Rename
  <2>1. /\ step = "renaming" /\ step' = "writing" /\ UNCHANGED <<openLine, next, acked, tears>>
        /\ \/ log' = tail /\ size' = Len(tail)
           \/ log' = log /\ size' = Len(log)
    BY <1>5 DEF Ledger!Rename
  <2>2. CASE log' = tail /\ size' = Len(tail)
    BY <2>1, <2>2, CutLemma
  <2>3. CASE log' = log /\ size' = Len(log)
    <3>1. LedgerTypeOK' /\ next' >= next /\ Written' >= Written /\ tears' >= tears
      BY <1>1, <2>1, <2>3 DEF LedgerInv, LedgerTypeOK, Written
    <3>2. QED BY <2>1, <2>3, <3>1, FileStays
  <2>4. QED BY <2>1, <2>2, <2>3
<1>6. CASE Ledger!Write
  BY <1>6, WriteLemma
<1>7. CASE Ledger!WriteFails
  <2>1. /\ step = "writing" /\ step' = "idle" /\ UNCHANGED <<tail, size, next, acked>>
        /\ \/ UNCHANGED <<log, openLine, tears>>
           \/ tears' = tears + 1 /\ log' = Ledger!Joined("torn") /\ openLine' = TRUE
    BY <1>7 DEF Ledger!WriteFails
  <2>2. CASE UNCHANGED <<log, openLine, tears>>
    <3>1. LedgerTypeOK' /\ next' >= next /\ Written' >= Written /\ tears' >= tears
      BY <1>1, <2>1, <2>2 DEF LedgerInv, LedgerTypeOK, Written
    <3>2. QED BY <2>1, <2>2, <3>1, FileStays
  <2>3. CASE tears' = tears + 1 /\ log' = Ledger!Joined("torn") /\ openLine' = TRUE
    <3>1. size' \in Nat
      BY <2>1 DEF LedgerInv, LedgerTypeOK
    <3>2. QED BY <2>1, <2>3, <3>1, TornLemma
  <2>4. QED BY <2>1, <2>2, <2>3
<1>8. CASE Ledger!CrashLedger
  <2>1. /\ step' = "idle" /\ tears' = tears + 1 /\ size' = Ledger!Unknown
        /\ UNCHANGED <<tail, next, acked>>
        /\ \/ UNCHANGED <<log, openLine>>
           \/ step = "writing" /\ log' = Ledger!Joined("torn") /\ openLine' = TRUE
    BY <1>8 DEF Ledger!CrashLedger
  <2>2. CASE UNCHANGED <<log, openLine>>
    <3>1. LedgerTypeOK' /\ next' >= next /\ Written' >= Written /\ tears' >= tears
      BY <1>1, <2>1, <2>2 DEF LedgerInv, LedgerTypeOK, Written
    <3>2. QED BY <2>1, <2>2, <3>1, FileStays
  <2>3. CASE step = "writing" /\ log' = Ledger!Joined("torn") /\ openLine' = TRUE
    BY <1>1, <2>1, <2>3, TornLemma
  <2>4. QED BY <2>1, <2>2, <2>3
<1>9. CASE UNCHANGED ledgerVars
  BY <1>9 DEF ledgerVars, LedgerInv, LedgerTypeOK, LinesInOrder, KeptOrCut, Written
<1>10. QED
  BY <1>2, <1>3, <1>4, <1>5, <1>6, <1>7, <1>8, <1>9 DEF Ledger!Next

\* The property: what is missing was lost to an open line.
LEMMA LedgerKeeps == LedgerInv => Ledger!LedgerKeepsEntries
<1> SUFFICES ASSUME LedgerInv PROVE Ledger!LedgerKeepsEntries
  OBVIOUS
<1>1. log \in Seq(Ledger!ToSet(Entries) \cup {"torn"}) /\ Len(log) \in Nat /\ DOMAIN log = 1 .. Len(log)
  BY LenProperties DEF LedgerInv, LedgerTypeOK
<1>2. \A i, j \in DOMAIN log : \A m, n \in DOMAIN Entries :
        i < j /\ log[i] = Entries[m] /\ log[j] = Entries[n] => m < n
  BY <1>1, EntryFacts DEF LedgerInv, LinesInOrder
<1>3. PICK lost \in SUBSET Ledger!ToSet(Entries) :
        /\ IsFiniteSet(lost) /\ Cardinality(lost) + (IF openLine THEN 1 ELSE 0) <= tears
        /\ \A i \in EntryIndexes : Entries[i] \in acked \ lost => KeptOrCut(i)
  BY DEF LedgerInv
<1>4. Cardinality(lost) <= tears /\ Cardinality(lost) \in Nat /\ tears \in Nat
  BY <1>3, FS_CardinalityType DEF LedgerInv, LedgerTypeOK
<1>5. \A r \in Ledger!Readable : \E p \in 1 .. Len(log) : \E j \in EntryIndexes :
        log[p] = r /\ Entries[j] = r
  <2>1. SUFFICES ASSUME NEW r \in Ledger!Readable
                 PROVE  \E p \in 1 .. Len(log) : \E j \in EntryIndexes : log[p] = r /\ Entries[j] = r
    OBVIOUS
  <2>2. PICK p \in 1 .. Len(log) : log[p] = r
    BY <1>1 DEF Ledger!Readable, Ledger!ToSet
  <2>3. r \in Ledger!ToSet(Entries)
    BY <1>1, <2>2, ElementOfSeq DEF Ledger!Readable
  <2>4. QED BY <2>2, <2>3, EntryFacts
<1>6. acked \ (Ledger!Readable \cup Ledger!Old) \subseteq lost
  <2>1. SUFFICES ASSUME NEW e \in acked, e \notin lost, e \notin Ledger!Readable PROVE e \in Ledger!Old
    OBVIOUS
  <2>2. e \in Ledger!ToSet(Entries)
    BY DEF LedgerInv, LedgerTypeOK
  <2>3. PICK i \in EntryIndexes : Entries[i] = e
    BY <2>2, EntryFacts
  <2>4. KeptOrCut(i)
    BY <1>3, <2>1, <2>3
  <2>5. ASSUME NEW p \in 1 .. Len(log) PROVE log[p] # Entries[i]
    BY <1>1, <2>1, <2>3, EntryFacts DEF Ledger!Readable, Ledger!ToSet
  <2>6. \A p \in 1 .. Len(log) : \A j \in EntryIndexes : log[p] = Entries[j] => i < j
    BY <2>4, <2>5 DEF KeptOrCut
  <2>7. ASSUME NEW r \in Ledger!Readable
        PROVE  \E k, j \in DOMAIN Entries : k < j /\ Entries[k] = e /\ Entries[j] = r
    BY <1>5, <2>3, <2>6, EntryFacts
  <2>8. QED BY <2>2, <2>7 DEF Ledger!Old
<1>7. (acked \cap Ledger!Recent) \ Ledger!Readable \subseteq lost
  <2>1. SUFFICES ASSUME NEW e \in acked, e \in Ledger!Recent, e \notin lost PROVE e \in Ledger!Readable
    OBVIOUS
  <2>2. PICK i \in EntryIndexes : Entries[i] = e /\ i <= next /\ i > next - TailLines + 1
    BY <2>1, EntryFacts DEF Ledger!Recent
  <2>3. KeptOrCut(i) /\ ~(i + TailLines <= next + 1)
    BY <1>3, <2>1, <2>2, LedgerAssumption DEF LedgerInv, LedgerTypeOK, EntryIndexes
  <2>4. QED BY <1>1, <2>2, <2>3, EntryFacts DEF KeptOrCut, Ledger!Readable, Ledger!ToSet
<1>8. /\ Cardinality(acked \ (Ledger!Readable \cup Ledger!Old)) <= Cardinality(lost)
      /\ Cardinality((acked \cap Ledger!Recent) \ Ledger!Readable) <= Cardinality(lost)
  BY <1>3, <1>6, <1>7, FS_Subset
<1>9. /\ IsFiniteSet(acked \ (Ledger!Readable \cup Ledger!Old))
      /\ IsFiniteSet((acked \cap Ledger!Recent) \ Ledger!Readable)
  BY <1>3, <1>6, <1>7, FS_Subset
<1>10. /\ Cardinality(acked \ (Ledger!Readable \cup Ledger!Old)) <= tears
       /\ Cardinality((acked \cap Ledger!Recent) \ Ledger!Readable) <= tears
  BY <1>4, <1>8, <1>9, FS_CardinalityType
<1>11. QED BY <1>2, <1>10 DEF Ledger!LedgerKeepsEntries, Ledger!Cardinality, Cardinality

\* Entries are read in the order of their appends, and a torn write or a crash costs at
\* most one acknowledged entry that was not cut.
THEOREM LedgerSafe == Spec => [](part = "ledger" => LedgerInv)
<1>1. Init => (part = "ledger" => LedgerInv)
  BY LedgerInitially DEF Init
<1>2. (part = "ledger" => LedgerInv) /\ [Next]_partVars => (part = "ledger" => LedgerInv)'
  BY LedgerMoves, LedgerStep, PartStays
<1>3. QED BY <1>1, <1>2, PTL DEF Spec

-----------------------------------------------------------------------------
(* config.ts: the keys *)

\* What an operation leaves a key with, of those that its update names.
NewValue(k) == IF op.update[k] = Clear THEN None ELSE op.update[k]

ConfigTypes ==
  /\ plain \in Secrets!Secrets /\ overlay \in Secrets!Secrets /\ available \in BOOLEAN
  /\ vault \in [form : {"absent", "plain", "encrypted"}, data : Secrets!Secrets]
  /\ acceptable \in [Keys -> SUBSET (Vals \cup {None})]
  /\ op # None =>
       op \in [by : Saves \cup Loads, update : [Keys -> Vals \cup {Clear, Keep}],
               secrets : Secrets!Secrets, legacy : Secrets!Secrets,
               step : {"vault", "config", "end"}, durable : BOOLEAN]

\* Between any two steps, and after any failure: the files alone hold what each key may
\* be, but for those acknowledged in memory.
KeysOnDisk ==
  /\ \A k \in Keys \ (loose \cup undone) : Secrets!OnDisk[k] \in acceptable[k]
  /\ \A k \in Keys : plain[k] # None => plain[k] \in acceptable[k]

\* What an operation has read is what it writes over.
OpHasRead ==
  /\ \A k \in Secrets!Touched(op.update) :
       op.secrets[k] = NewValue(k) /\ op.secrets[k] \in acceptable[k]
  /\ ~Secrets!Locked => \A k \in Keys \ undone : op.secrets[k] \in acceptable[k]
  /\ op.step \in {"vault", "config"} => plain = op.legacy
  /\ op.step = "vault" =>
       /\ ~Secrets!Locked /\ op.durable
       /\ \A k \in Keys \ Secrets!Touched(op.update) : op.secrets[k] = Secrets!Effective[k]
  /\ Secrets!Locked => Secrets!Touched(op.update) = {} /\ op.durable

\* Past the step of the vault, the keys are in the vault, or in the overlay and loose.
OpHasWritten ==
  /\ op.step # "vault" /\ ~Secrets!Locked /\ op.durable =>
       \A k \in Keys :
         /\ overlay[k] = None
         /\ vault.data[k] = op.secrets[k] \/ (op.secrets[k] = None /\ vault.data[k] # None /\ k \in undone)
  /\ ~op.durable =>
       /\ op.step # "vault" /\ ~available
       /\ overlay = op.secrets /\ Secrets!Touched(op.update) \subseteq loose
       /\ \A k \in Secrets!Touched(op.update) :
            op.secrets[k] = None /\ vault.data[k] # None => k \in undone
  /\ op.step = "end" => \A k \in Secrets!Touched(op.update) : plain[k] = None

ConfigInv ==
  /\ ConfigTypes
  /\ available => \A k \in Keys : overlay[k] = None
  /\ Secrets!SecretsSurvive
  /\ KeysOnDisk
  /\ Secrets!NoNewPlaintext
  /\ op # None => OpHasRead /\ OpHasWritten

LEMMA ConfigMoves ==
  ASSUME [Next]_partVars, part = "config"
  PROVE  [Secrets!Next]_configVars
  BY DEF Next, partVars, configVars

LEMMA ConfigInitially == Secrets!Init => ConfigInv
<1> SUFFICES ASSUME Secrets!Init PROVE ConfigInv
  OBVIOUS
<1>1. /\ plain \in Secrets!Secrets /\ overlay \in Secrets!Secrets /\ available \in BOOLEAN
      /\ op = None /\ loose = {} /\ undone = {} /\ \A k \in Keys : overlay[k] = None
  BY ConfigAssumption DEF Secrets!Init, Secrets!Secrets, Secrets!NoSecrets
<1>2. /\ vault \in [form : {"absent", "plain", "encrypted"}, data : Secrets!Secrets]
      /\ \A k \in Keys : vault.data[k] \in {OldVault, None}
  <2>1. CASE vault = Secrets!Absent
    BY <2>1 DEF Secrets!Absent, Secrets!Secrets, Secrets!NoSecrets
  <2>2. CASE vault \in [form : {"plain", "encrypted"}, data : [Keys -> {OldVault, None}] \ {Secrets!NoSecrets}]
    BY <2>2, ConfigAssumption DEF Secrets!Secrets
  <2>3. QED BY <2>1, <2>2 DEF Secrets!Init
<1>3. \A k \in Keys : Secrets!OnDisk[k] \in Vals \cup {None}
  BY <1>1, <1>2 DEF Secrets!OnDisk, Secrets!Over, Secrets!Secrets
<1>4. /\ acceptable \in [Keys -> SUBSET (Vals \cup {None})]
      /\ \A k \in Keys : acceptable[k] = {Secrets!OnDisk[k]}
  BY <1>3 DEF Secrets!Init
<1>5. \A k \in Keys : Secrets!Effective[k] = Secrets!OnDisk[k]
  BY <1>1 DEF Secrets!Effective, Secrets!Over
<1>6. \A k \in Keys : plain[k] # None => plain[k] = Secrets!OnDisk[k]
  BY DEF Secrets!OnDisk, Secrets!Over
<1>7. \A k \in Keys : plain[k] \in {OldPlain, None}
  BY DEF Secrets!Init
<1>8. QED
  BY <1>1, <1>2, <1>4, <1>5, <1>6, <1>7 DEF ConfigInv, ConfigTypes, KeysOnDisk,
    Secrets!SecretsSurvive, Secrets!NoNewPlaintext

\* What the two ways to put keys together give, key by key.
LEMMA KeyByKey ==
  /\ \A k \in Keys : Secrets!OnDisk[k] = IF plain[k] = None THEN vault.data[k] ELSE plain[k]
  /\ \A k \in Keys : Secrets!Effective[k] = IF overlay[k] = None THEN Secrets!OnDisk[k] ELSE overlay[k]
  /\ \A k \in Keys : Secrets!OnDisk'[k] = IF plain'[k] = None THEN vault'.data[k] ELSE plain'[k]
  /\ \A k \in Keys : Secrets!Effective'[k] = IF overlay'[k] = None THEN Secrets!OnDisk'[k] ELSE overlay'[k]
<1>1. /\ \A k \in Keys : Secrets!OnDisk[k] = IF plain[k] = None THEN vault.data[k] ELSE plain[k]
      /\ \A k \in Keys : Secrets!OnDisk'[k] = IF plain'[k] = None THEN vault'.data[k] ELSE plain'[k]
  BY DEF Secrets!OnDisk, Secrets!Over
<1>2. /\ \A k \in Keys : Secrets!Effective[k] = IF overlay[k] = None THEN Secrets!OnDisk[k] ELSE overlay[k]
      /\ \A k \in Keys : Secrets!Effective'[k] = IF overlay'[k] = None THEN Secrets!OnDisk'[k] ELSE overlay'[k]
  BY DEF Secrets!Effective, Secrets!Over
<1>3. QED BY <1>1, <1>2

LEMMA KeysHaveTypes ==
  ASSUME ConfigTypes
  PROVE  Secrets!OnDisk \in Secrets!Secrets /\ Secrets!Effective \in Secrets!Secrets
<1>1. Secrets!OnDisk \in Secrets!Secrets
  BY DEF Secrets!OnDisk, Secrets!Over, ConfigTypes, Secrets!Secrets
<1>2. QED BY <1>1 DEF Secrets!Effective, Secrets!Over, ConfigTypes, Secrets!Secrets

\* An operation starts from what the three places have of each key.
LEMMA ConfigBegins ==
  ASSUME ConfigInv, NEW u \in [Keys -> Vals \cup {Clear, Keep}], NEW c \in Saves \cup Loads,
         Secrets!Locked => Secrets!Touched(u) = {},
         NEW s, s \in {"vault", "config"}, s = "vault" <=> ~Secrets!Locked, NEW secrets,
         \A k \in Keys : secrets[k] = IF u[k] = Keep THEN Secrets!Effective[k]
                                      ELSE IF u[k] = Clear THEN None ELSE u[k],
         secrets = [k \in Keys |-> secrets[k]],
         op' = [by |-> c, update |-> u, secrets |-> secrets, legacy |-> plain, step |-> s,
                durable |-> TRUE],
         \A k \in Keys : acceptable'[k] =
            IF u[k] = Keep THEN acceptable[k]
            ELSE acceptable[k] \cup {IF u[k] = Clear THEN None ELSE u[k]},
         acceptable' = [k \in Keys |-> acceptable'[k]],
         UNCHANGED <<plain, vault, overlay, available, loose, undone>>
  PROVE  ConfigInv'
<1> USE DEF ConfigInv
<1>1. \A k \in Keys : /\ Secrets!Effective'[k] = Secrets!Effective[k]
                      /\ Secrets!OnDisk'[k] = Secrets!OnDisk[k]
  BY KeyByKey
<1>2. Secrets!Locked' <=> Secrets!Locked
  BY DEF Secrets!Locked
<1>3. \A k \in Keys : acceptable[k] \subseteq acceptable'[k]
  OBVIOUS
<1>4. ConfigTypes'
  <2>1. secrets \in Secrets!Secrets
    BY KeysHaveTypes, ConfigAssumption DEF Secrets!Secrets
  <2>2. \A k \in Keys : acceptable'[k] \in SUBSET (Vals \cup {None})
    BY ConfigAssumption DEF ConfigTypes
  <2>3. QED BY <2>1, <2>2 DEF ConfigTypes
<1>5. Secrets!SecretsSurvive' /\ Secrets!NoNewPlaintext'
  BY <1>1, <1>2, <1>3 DEF Secrets!SecretsSurvive, Secrets!NoNewPlaintext
<1>6. KeysOnDisk'
  BY <1>1, <1>3 DEF KeysOnDisk
<1>7. OpHasRead'
  <2>1. Secrets!Touched(op.update)' = Secrets!Touched(u)
    BY DEF Secrets!Touched
  <2>2. \A k \in Secrets!Touched(u) : secrets[k] = NewValue(k)' /\ secrets[k] \in acceptable'[k]
    BY DEF Secrets!Touched, NewValue
  <2>3. ~Secrets!Locked => \A k \in Keys \ undone : secrets[k] \in acceptable'[k]
    BY DEF Secrets!SecretsSurvive
  <2>4. \A k \in Keys \ Secrets!Touched(u) : secrets[k] = Secrets!Effective[k]
    BY DEF Secrets!Touched
  <2>5. op'.secrets = secrets /\ op'.legacy = plain /\ op'.step = s /\ op'.durable
    OBVIOUS
  <2>6. QED BY <1>1, <1>2, <2>1, <2>2, <2>3, <2>4, <2>5 DEF OpHasRead
<1>8. OpHasWritten'
  BY <1>2 DEF OpHasWritten
<1>9. QED BY <1>4, <1>5, <1>6, <1>7, <1>8

LEMMA ConfigBeginSave ==
  ASSUME ConfigInv, NEW c \in Secrets!ConfigCalls, NEW u \in Updates, Secrets!BeginSave(c, u)
  PROVE  ConfigInv'
<1> DEFINE secrets == Secrets!Applied(u, Secrets!Effective)
           s == IF Secrets!Locked THEN "config" ELSE "vault"
<1>1. u \in [Keys -> Vals \cup {Clear, Keep}] /\ c \in Saves \cup Loads
  BY ConfigAssumption DEF Secrets!BeginSave
<1>2. /\ \A k \in Keys : secrets[k] = IF u[k] = Keep THEN Secrets!Effective[k]
                                      ELSE IF u[k] = Clear THEN None ELSE u[k]
      /\ secrets = [k \in Keys |-> secrets[k]]
  BY ConfigAssumption DEF Secrets!Applied
<1>3. \A k \in Keys : Secrets!Applied(u, Secrets!NoSecrets)[k] =
        IF u[k] = Keep THEN None ELSE IF u[k] = Clear THEN None ELSE u[k]
  BY ConfigAssumption DEF Secrets!Applied, Secrets!NoSecrets
<1>4. /\ \A k \in Keys : acceptable'[k] =
            IF u[k] = Keep THEN acceptable[k]
            ELSE acceptable[k] \cup {IF u[k] = Clear THEN None ELSE u[k]}
      /\ acceptable' = [k \in Keys |-> acceptable'[k]]
  BY <1>3 DEF Secrets!BeginSave
<1>5. /\ op' = [by |-> c, update |-> u, secrets |-> secrets, legacy |-> plain, step |-> s, durable |-> TRUE]
      /\ UNCHANGED <<plain, vault, overlay, available, loose, undone>>
      /\ Secrets!Locked => Secrets!Touched(u) = {}
      /\ s \in {"vault", "config"} /\ (s = "vault" <=> ~Secrets!Locked)
  BY DEF Secrets!BeginSave, Secrets!files
<1> HIDE DEF secrets, s
<1>6. QED BY <1>1, <1>2, <1>4, <1>5, ConfigBegins

LEMMA ConfigBeginMigration ==
  ASSUME ConfigInv, NEW c \in Secrets!ConfigCalls, Secrets!BeginMigration(c), op' # None
  PROVE  ConfigInv'
<1> DEFINE u == [k \in Keys |-> Keep]
           secrets == Secrets!Effective
           s == "vault"
<1>1. u \in [Keys -> Vals \cup {Clear, Keep}] /\ c \in Saves \cup Loads /\ \A k \in Keys : u[k] = Keep
  BY DEF Secrets!BeginMigration
<1>2. secrets = [k \in Keys |-> secrets[k]]
  BY DEF Secrets!Effective, Secrets!Over
<1>3. /\ op' = [by |-> c, update |-> u, secrets |-> secrets, legacy |-> plain, step |-> s, durable |-> TRUE]
      /\ UNCHANGED <<plain, vault, overlay, available, loose, undone, acceptable>>
      /\ ~Secrets!Locked
  BY DEF Secrets!BeginMigration, Secrets!files, Secrets!told
<1>4. acceptable' = [k \in Keys |-> acceptable'[k]]
  BY <1>3 DEF ConfigInv, ConfigTypes
<1>5. Secrets!Touched(u) = {}
  BY DEF Secrets!Touched
<1>6. s \in {"vault", "config"} /\ (s = "vault" <=> ~Secrets!Locked)
  BY <1>3
<1> HIDE DEF u, secrets, s
<1>7. \A k \in Keys : secrets[k] = IF u[k] = Keep THEN Secrets!Effective[k]
                                   ELSE IF u[k] = Clear THEN None ELSE u[k]
  BY <1>1 DEF secrets
<1>8. \A k \in Keys : acceptable'[k] =
            IF u[k] = Keep THEN acceptable[k]
            ELSE acceptable[k] \cup {IF u[k] = Clear THEN None ELSE u[k]}
  BY <1>1, <1>3
<1>9. QED BY <1>1, <1>2, <1>3, <1>4, <1>5, <1>6, <1>7, <1>8, ConfigBegins

\* Steps that leave the files, the overlay and what was told alone, and no operation.
LEMMA ConfigKeeps ==
  ASSUME ConfigInv, op' = None \/ op' = op,
         UNCHANGED <<plain, vault, overlay, available, acceptable, loose, undone>>
  PROVE  ConfigInv'
<1>1. /\ \A k \in Keys : Secrets!Effective'[k] = Secrets!Effective[k]
      /\ \A k \in Keys : Secrets!OnDisk'[k] = Secrets!OnDisk[k]
      /\ Secrets!Locked' <=> Secrets!Locked
  BY KeyByKey DEF Secrets!Locked
<1>2. ConfigTypes'
  BY DEF ConfigInv, ConfigTypes
<1>3. /\ (available => \A k \in Keys : overlay[k] = None)'
      /\ Secrets!SecretsSurvive' /\ KeysOnDisk' /\ Secrets!NoNewPlaintext'
  BY <1>1 DEF ConfigInv, Secrets!SecretsSurvive, KeysOnDisk, Secrets!NoNewPlaintext
<1>4. ASSUME op' # None PROVE OpHasRead' /\ OpHasWritten'
  <2>1. op' = op /\ op # None
    BY <1>4
  <2>2. OpHasRead'
    BY <1>1, <2>1 DEF ConfigInv, OpHasRead, Secrets!Touched, NewValue
  <2>3. OpHasWritten'
    BY <1>1, <2>1 DEF ConfigInv, OpHasWritten, Secrets!Touched
  <2>4. QED BY <2>2, <2>3
<1>5. QED BY <1>2, <1>3, <1>4 DEF ConfigInv

\* The vault was written, or removed, or could not be either, and of a removal that
\* fails the keys are undone.
LEMMA ConfigVaultKept ==
  ASSUME ConfigInv, op # None, op.step = "vault",
         NEW durable \in BOOLEAN,
         op'.secrets = op.secrets, op'.update = op.update, op'.legacy = op.legacy,
         op'.step \in {"config", "end"}, op'.step = "end" => \A k \in Keys : plain[k] = None,
         op'.durable = durable,
         UNCHANGED <<plain, available, acceptable>>, ConfigTypes',
         undone \subseteq undone', loose \subseteq loose',
         ~Secrets!Locked', available => \A k \in Keys : overlay'[k] = None,
         Secrets!NoNewPlaintext',
         durable => \A k \in Keys :
           /\ overlay'[k] = None
           /\ \/ vault'.data[k] = op.secrets[k]
              \/ op.secrets[k] = None /\ vault'.data[k] # None /\ k \in undone',
         ~durable =>
           /\ ~available /\ vault' = vault /\ overlay' = op.secrets
           /\ Secrets!Touched(op.update) \subseteq loose'
           /\ \A k \in Secrets!Touched(op.update) :
                op.secrets[k] = None /\ vault.data[k] # None => k \in undone'
  PROVE  ConfigInv'
<1> USE DEF ConfigInv
<1>1. /\ \A k \in Keys : Secrets!OnDisk[k] = IF plain[k] = None THEN vault.data[k] ELSE plain[k]
      /\ \A k \in Keys : Secrets!Effective[k] = IF overlay[k] = None THEN Secrets!OnDisk[k] ELSE overlay[k]
      /\ \A k \in Keys : Secrets!OnDisk'[k] = IF plain[k] = None THEN vault'.data[k] ELSE plain[k]
      /\ \A k \in Keys : Secrets!Effective'[k] = IF overlay'[k] = None THEN Secrets!OnDisk'[k] ELSE overlay'[k]
  BY KeyByKey
<1>2. /\ ~Secrets!Locked
      /\ \A k \in Keys \ undone : op.secrets[k] \in acceptable[k]
      /\ \A k \in Keys \ Secrets!Touched(op.update) : op.secrets[k] = Secrets!Effective[k]
      /\ \A k \in Keys : plain[k] # None => plain[k] \in acceptable[k]
      /\ \A k \in Keys \ (loose \cup undone) : Secrets!OnDisk[k] \in acceptable[k]
  BY DEF OpHasRead, KeysOnDisk
<1>3. Secrets!Touched(op.update)' = Secrets!Touched(op.update) /\ Secrets!Touched(op.update) \subseteq Keys
  BY DEF Secrets!Touched
<1>4. Secrets!SecretsSurvive'
  <2>1. SUFFICES ASSUME NEW k \in Keys \ undone' PROVE Secrets!Effective'[k] \in acceptable[k]
    BY DEF Secrets!SecretsSurvive
  <2>2. CASE durable
    BY <1>1, <1>2, <2>2
  <2>3. CASE ~durable /\ k \in Secrets!Touched(op.update)
    BY <1>1, <1>2, <2>3
  <2>4. CASE ~durable /\ k \notin Secrets!Touched(op.update)
    BY <1>1, <1>2, <2>4
  <2>5. QED BY <2>2, <2>3, <2>4
<1>5. KeysOnDisk'
  <2>1. SUFFICES ASSUME NEW k \in Keys \ (loose' \cup undone') PROVE Secrets!OnDisk'[k] \in acceptable[k]
    BY <1>2 DEF KeysOnDisk
  <2>2. QED BY <1>1, <1>2
<1>6. OpHasRead'
  <2>1. \A k \in Secrets!Touched(op.update) :
          op'.secrets[k] = NewValue(k)' /\ op'.secrets[k] \in acceptable[k]
    BY DEF OpHasRead, NewValue
  <2>2. QED BY <1>2, <1>3, <2>1 DEF OpHasRead
<1>7. OpHasWritten'
  BY <1>2, <1>3 DEF OpHasWritten
<1>8. QED BY <1>4, <1>5, <1>6, <1>7

LEMMA AfterVaultIs ==
  ASSUME ConfigInv, op # None, op.step = "vault", NEW durable \in BOOLEAN,
         op' = Secrets!AfterVault(durable)
  PROVE  /\ op'.secrets = op.secrets /\ op'.update = op.update /\ op'.legacy = op.legacy
         /\ op'.step \in {"config", "end"} /\ op'.durable = durable
         /\ op'.step = "end" => \A k \in Keys : plain[k] = None
         /\ op' \in [by : Saves \cup Loads, update : [Keys -> Vals \cup {Clear, Keep}],
               secrets : Secrets!Secrets, legacy : Secrets!Secrets,
               step : {"vault", "config", "end"}, durable : BOOLEAN]
<1>1. op \in [by : Saves \cup Loads, update : [Keys -> Vals \cup {Clear, Keep}],
               secrets : Secrets!Secrets, legacy : Secrets!Secrets,
               step : {"vault", "config", "end"}, durable : BOOLEAN]
  BY DEF ConfigInv, ConfigTypes
<1>2. plain = op.legacy
  BY DEF ConfigInv, OpHasRead
<1>3. CASE op.by \in Loads /\ op.legacy = Secrets!NoSecrets
  BY <1>1, <1>2, <1>3 DEF Secrets!AfterVault, Secrets!NoSecrets
<1>4. CASE ~(op.by \in Loads /\ op.legacy = Secrets!NoSecrets)
  BY <1>1, <1>4 DEF Secrets!AfterVault
<1>5. QED BY <1>3, <1>4

LEMMA ConfigWriteVault ==
  ASSUME ConfigInv, Secrets!WriteVault
  PROVE  ConfigInv'
<1>1. /\ op # None /\ op.step = "vault" /\ available \in BOOLEAN
      /\ op' = Secrets!AfterVault(available) /\ UNCHANGED <<plain, available, acceptable>>
  BY DEF Secrets!WriteVault, ConfigInv, ConfigTypes
<1>2. /\ op'.secrets = op.secrets /\ op'.update = op.update /\ op'.legacy = op.legacy
      /\ op'.step \in {"config", "end"} /\ op'.durable = available
      /\ op'.step = "end" => \A k \in Keys : plain[k] = None
  BY <1>1, AfterVaultIs
<1>3. op' \in [by : Saves \cup Loads, update : [Keys -> Vals \cup {Clear, Keep}],
               secrets : Secrets!Secrets, legacy : Secrets!Secrets,
               step : {"vault", "config", "end"}, durable : BOOLEAN]
  BY <1>1, AfterVaultIs
<1>4. op.secrets \in Secrets!Secrets
  BY <1>1 DEF ConfigInv, ConfigTypes
<1>5. CASE available
  <2>1. /\ vault' = [form |-> "encrypted", data |-> op.secrets]
        /\ overlay' = Secrets!NoSecrets /\ UNCHANGED <<loose, undone>>
    BY <1>5 DEF Secrets!WriteVault
  <2>2. ConfigTypes'
    BY <1>1, <1>3, <1>4, <2>1 DEF ConfigInv, ConfigTypes, Secrets!NoSecrets, Secrets!Secrets
  <2>3. ~Secrets!Locked' /\ (\A k \in Keys : overlay'[k] = None) /\ Secrets!NoNewPlaintext'
    BY <1>1, <1>5, <2>1 DEF Secrets!Locked, Secrets!NoSecrets, ConfigInv, Secrets!NoNewPlaintext
  <2>4. QED BY <1>1, <1>2, <1>5, <2>1, <2>2, <2>3, ConfigVaultKept
<1>6. CASE ~available
  <2>1. /\ vault' = vault /\ overlay' = op.secrets
        /\ loose' = loose \cup Secrets!Touched(op.update)
        /\ undone' = undone \cup Secrets!ComesBack
    BY <1>6 DEF Secrets!WriteVault
  <2>2. ConfigTypes'
    BY <1>1, <1>3, <1>4, <2>1 DEF ConfigInv, ConfigTypes
  <2>3. ~Secrets!Locked' /\ Secrets!NoNewPlaintext'
    BY <1>1, <2>1 DEF Secrets!Locked, ConfigInv, OpHasRead, Secrets!NoNewPlaintext
  <2>4. ASSUME NEW k \in Secrets!Touched(op.update), op.secrets[k] = None, vault.data[k] # None
        PROVE  k \in undone'
    <3>1. op.secrets[k] = NewValue(k) /\ k \in Keys
      BY <1>1 DEF ConfigInv, OpHasRead, Secrets!Touched
    <3>2. op.update[k] \in Vals \cup {Clear, Keep}
      BY <1>1, <3>1 DEF ConfigInv, ConfigTypes
    <3>3. op.update[k] = Clear
      BY <2>4, <3>1, <3>2, ConfigAssumption DEF NewValue
    <3>4. QED BY <2>1, <2>4, <3>3 DEF Secrets!ComesBack
  <2>5. QED BY <1>1, <1>2, <1>6, <2>1, <2>2, <2>3, <2>4, ConfigVaultKept
<1>7. QED BY <1>1, <1>5, <1>6

LEMMA ConfigRemoveVault ==
  ASSUME ConfigInv, Secrets!RemoveVault
  PROVE  ConfigInv'
<1>1. /\ op # None /\ op.step = "vault" /\ op.secrets = Secrets!NoSecrets
      /\ op' = Secrets!AfterVault(TRUE) /\ UNCHANGED <<plain, available, acceptable, loose>>
      /\ overlay' = Secrets!NoSecrets
  BY DEF Secrets!RemoveVault
<1>2. /\ op'.secrets = op.secrets /\ op'.update = op.update /\ op'.legacy = op.legacy
      /\ op'.step \in {"config", "end"} /\ op'.durable = TRUE
      /\ op'.step = "end" => \A k \in Keys : plain[k] = None
  BY <1>1, AfterVaultIs
<1>3. op' \in [by : Saves \cup Loads, update : [Keys -> Vals \cup {Clear, Keep}],
               secrets : Secrets!Secrets, legacy : Secrets!Secrets,
               step : {"vault", "config", "end"}, durable : BOOLEAN]
  BY <1>1, AfterVaultIs
<1>4. /\ Secrets!NoSecrets \in Secrets!Secrets /\ \A k \in Keys : op.secrets[k] = None /\ overlay'[k] = None
  BY <1>1 DEF Secrets!NoSecrets, Secrets!Secrets
<1>5. CASE vault' = Secrets!Absent /\ undone' = undone
  <2>1. ConfigTypes'
    BY <1>1, <1>3, <1>4, <1>5 DEF ConfigInv, ConfigTypes, Secrets!Absent
  <2>2. ~Secrets!Locked' /\ Secrets!NoNewPlaintext'
    BY <1>1, <1>5 DEF Secrets!Locked, Secrets!Absent, ConfigInv, Secrets!NoNewPlaintext
  <2>3. \A k \in Keys : vault'.data[k] = op.secrets[k]
    BY <1>4, <1>5 DEF Secrets!Absent, Secrets!NoSecrets
  <2>4. QED BY <1>1, <1>2, <1>4, <1>5, <2>1, <2>2, <2>3, ConfigVaultKept
<1>6. CASE vault' = vault /\ undone' = undone \cup {k \in Keys : vault.data[k] # None}
  <2>1. ConfigTypes'
    BY <1>1, <1>3, <1>4, <1>6 DEF ConfigInv, ConfigTypes
  <2>2. ~Secrets!Locked' /\ Secrets!NoNewPlaintext'
    BY <1>1, <1>6 DEF Secrets!Locked, ConfigInv, OpHasRead, Secrets!NoNewPlaintext
  <2>3. \A k \in Keys : \/ vault'.data[k] = op.secrets[k]
                        \/ op.secrets[k] = None /\ vault'.data[k] # None /\ k \in undone'
    BY <1>4, <1>6
  <2>4. QED BY <1>1, <1>2, <1>4, <1>6, <2>1, <2>2, <2>3, ConfigVaultKept
<1>7. QED BY <1>5, <1>6 DEF Secrets!RemoveVault

LEMMA ConfigWriteConfig ==
  ASSUME ConfigInv, Secrets!WriteConfig
  PROVE  ConfigInv'
<1> USE DEF ConfigInv
<1>1. /\ op # None /\ op.step = "config" /\ plain' = Secrets!Preserved
      /\ op' = [op EXCEPT !.step = "end"]
      /\ UNCHANGED <<vault, overlay, available, acceptable, loose, undone>>
  BY DEF Secrets!WriteConfig, Secrets!told
<1>2. /\ op \in [by : Saves \cup Loads, update : [Keys -> Vals \cup {Clear, Keep}],
                 secrets : Secrets!Secrets, legacy : Secrets!Secrets,
                 step : {"vault", "config", "end"}, durable : BOOLEAN]
      /\ plain = op.legacy /\ plain \in Secrets!Secrets
  BY <1>1 DEF ConfigTypes, OpHasRead
<1>3. /\ op'.secrets = op.secrets /\ op'.update = op.update /\ op'.step = "end"
      /\ op'.durable = op.durable
      /\ op' \in [by : Saves \cup Loads, update : [Keys -> Vals \cup {Clear, Keep}],
                  secrets : Secrets!Secrets, legacy : Secrets!Secrets,
                  step : {"vault", "config", "end"}, durable : BOOLEAN]
  BY <1>1, <1>2
<1>4. /\ Secrets!Locked' <=> Secrets!Locked
      /\ Secrets!Touched(op.update)' = Secrets!Touched(op.update)
      /\ Secrets!Touched(op.update) \subseteq Keys
  BY <1>1, <1>3 DEF Secrets!Locked, Secrets!Touched
<1>5. /\ plain' \in Secrets!Secrets
      /\ \A k \in Keys : plain'[k] =
           IF Secrets!Locked THEN plain[k]
           ELSE IF op.durable \/ k \in Secrets!Touched(op.update) THEN None ELSE plain[k]
  <2>1. CASE Secrets!Locked
    BY <1>1, <1>2, <2>1 DEF Secrets!Preserved
  <2>2. CASE ~Secrets!Locked /\ op.durable
    BY <1>1, <1>2, <2>2 DEF Secrets!Preserved, Secrets!NoSecrets, Secrets!Secrets
  <2>3. CASE ~Secrets!Locked /\ ~op.durable
    <3>1. plain' = [k \in Keys |-> IF k \in Secrets!Touched(op.update) THEN None ELSE op.legacy[k]]
      BY <1>1, <2>3 DEF Secrets!Preserved
    <3>2. QED BY <1>2, <2>3, <3>1 DEF Secrets!Secrets
  <2>4. QED BY <2>1, <2>2, <2>3
<1>6. ConfigTypes'
  BY <1>1, <1>3, <1>5 DEF ConfigTypes
<1>7. Secrets!NoNewPlaintext'
  BY <1>1, <1>5 DEF Secrets!NoNewPlaintext
<1>8. /\ \A k \in Keys : Secrets!OnDisk[k] = IF plain[k] = None THEN vault.data[k] ELSE plain[k]
      /\ \A k \in Keys : Secrets!Effective[k] = IF overlay[k] = None THEN Secrets!OnDisk[k] ELSE overlay[k]
      /\ \A k \in Keys : Secrets!OnDisk'[k] = IF plain'[k] = None THEN vault.data[k] ELSE plain'[k]
      /\ \A k \in Keys : Secrets!Effective'[k] = IF overlay[k] = None THEN Secrets!OnDisk'[k] ELSE overlay[k]
  BY <1>1, KeyByKey
<1>9. OpHasRead'
  <2>1. \A k \in Secrets!Touched(op.update) :
          op'.secrets[k] = NewValue(k)' /\ op'.secrets[k] \in acceptable[k]
    BY <1>1, <1>3 DEF OpHasRead, NewValue
  <2>2. QED BY <1>1, <1>3, <1>4, <2>1 DEF OpHasRead
<1>10. /\ ~Secrets!Locked => \A k \in Keys \ undone : op.secrets[k] \in acceptable[k]
       /\ Secrets!Locked => Secrets!Touched(op.update) = {} /\ op.durable
       /\ ~Secrets!Locked /\ op.durable => \A k \in Keys :
           /\ overlay[k] = None
           /\ vault.data[k] = op.secrets[k] \/ (op.secrets[k] = None /\ vault.data[k] # None /\ k \in undone)
       /\ ~op.durable => /\ overlay = op.secrets /\ Secrets!Touched(op.update) \subseteq loose
                         /\ \A k \in Secrets!Touched(op.update) :
                              op.secrets[k] = None /\ vault.data[k] # None => k \in undone
  BY <1>1 DEF OpHasRead, OpHasWritten
<1>11. Secrets!SecretsSurvive'
  <2>1. SUFFICES ASSUME NEW k \in Keys \ undone, ~Secrets!Locked PROVE Secrets!Effective'[k] \in acceptable[k]
    BY <1>1, <1>4 DEF Secrets!SecretsSurvive
  <2>2. CASE op.durable
    BY <1>5, <1>8, <1>10, <2>1, <2>2
  <2>3. CASE ~op.durable /\ k \in Secrets!Touched(op.update)
    BY <1>5, <1>8, <1>10, <2>1, <2>3
  <2>4. CASE ~op.durable /\ k \notin Secrets!Touched(op.update)
    BY <1>5, <1>8, <2>1, <2>4 DEF Secrets!SecretsSurvive
  <2>5. QED BY <2>2, <2>3, <2>4
<1>12. KeysOnDisk'
  <2>1. \A k \in Keys : plain'[k] # None => plain'[k] \in acceptable'[k]
    BY <1>1, <1>5 DEF KeysOnDisk
  <2>2. ASSUME NEW k \in Keys \ (loose \cup undone) PROVE Secrets!OnDisk'[k] \in acceptable[k]
    <3>1. CASE Secrets!Locked
      BY <1>5, <1>8, <3>1 DEF KeysOnDisk
    <3>2. CASE ~Secrets!Locked /\ op.durable
      BY <1>5, <1>8, <1>10, <3>2
    <3>3. CASE ~op.durable
      BY <1>5, <1>8, <1>10, <3>3 DEF KeysOnDisk
    <3>4. QED BY <3>1, <3>2, <3>3
  <2>3. QED BY <1>1, <2>1, <2>2 DEF KeysOnDisk
<1>13. OpHasWritten'
  <2>1. \A k \in Secrets!Touched(op.update) : plain'[k] = None
    BY <1>4, <1>5, <1>10
  <2>2. /\ op'.durable => op.durable
        /\ ~op.durable => ~available
    BY <1>1, <1>3 DEF OpHasWritten
  <2>3. QED BY <1>1, <1>3, <1>4, <1>10, <2>1, <2>2 DEF OpHasWritten
<1>14. QED BY <1>1, <1>6, <1>7, <1>9, <1>11, <1>12, <1>13

LEMMA ConfigAcknowledge ==
  ASSUME ConfigInv, Secrets!Acknowledge
  PROVE  ConfigInv'
<1> USE DEF ConfigInv
<1>1. /\ op # None /\ op.step = "end" /\ op' = None
      /\ UNCHANGED <<plain, vault, overlay, available>>
      /\ undone' = (undone \ Secrets!Touched(op.update)) \cup Secrets!ComesBack
      /\ loose' = IF op.durable THEN loose \ Secrets!Touched(op.update) ELSE loose
  BY DEF Secrets!Acknowledge, Secrets!files
<1>2. /\ op.update \in [Keys -> Vals \cup {Clear, Keep}] /\ op.secrets \in Secrets!Secrets
      /\ Secrets!Touched(op.update) \subseteq Keys
  BY <1>1 DEF ConfigTypes, Secrets!Touched
<1>3. \A k \in Secrets!Touched(op.update) :
        Secrets!Applied(op.update, Secrets!NoSecrets)[k] = op.secrets[k]
  <2>1. \A k \in Secrets!Touched(op.update) : op.secrets[k] = NewValue(k)
    BY <1>1 DEF OpHasRead
  <2>2. \A k \in Secrets!Touched(op.update) :
          Secrets!Applied(op.update, Secrets!NoSecrets)[k] = NewValue(k)
    BY <1>2, ConfigAssumption DEF Secrets!Applied, Secrets!Touched, NewValue
  <2>3. QED BY <2>1, <2>2
<1>4. /\ acceptable' \in [Keys -> SUBSET (Vals \cup {None})]
      /\ \A k \in Secrets!Touched(op.update) : acceptable'[k] = {op.secrets[k]}
      /\ \A k \in Keys \ Secrets!Touched(op.update) : acceptable'[k] = acceptable[k]
  <2>1. acceptable' = [k \in Keys |->
          IF k \in Secrets!Touched(op.update) THEN {Secrets!Applied(op.update, Secrets!NoSecrets)[k]}
          ELSE acceptable[k]]
    BY DEF Secrets!Acknowledge
  <2>2. QED BY <1>2, <1>3, <2>1 DEF ConfigTypes, Secrets!Secrets
<1>5. ConfigTypes'
  BY <1>1, <1>4 DEF ConfigTypes
<1>6. /\ \A k \in Keys : Secrets!OnDisk[k] = IF plain[k] = None THEN vault.data[k] ELSE plain[k]
      /\ \A k \in Keys : Secrets!Effective[k] = IF overlay[k] = None THEN Secrets!OnDisk[k] ELSE overlay[k]
      /\ \A k \in Keys : Secrets!OnDisk'[k] = Secrets!OnDisk[k]
      /\ \A k \in Keys : Secrets!Effective'[k] = Secrets!Effective[k]
      /\ Secrets!Locked' <=> Secrets!Locked
  BY <1>1, KeyByKey DEF Secrets!Locked
\* A key that was to be removed and is still in the vault comes back.
<1>7. \A k \in Secrets!Touched(op.update) :
        op.secrets[k] = None /\ vault.data[k] # None => k \in undone'
  <2>1. SUFFICES ASSUME NEW k \in Secrets!Touched(op.update), op.secrets[k] = None, vault.data[k] # None
                 PROVE  op.update[k] = Clear
    BY <1>1, <1>2 DEF Secrets!ComesBack
  <2>2. op.update[k] \in Vals \cup {Clear, Keep} /\ op.secrets[k] = NewValue(k)
    BY <1>1, <1>2, <2>1 DEF OpHasRead
  <2>3. QED BY <2>1, <2>2, ConfigAssumption DEF NewValue
<1>8. /\ Secrets!Locked => Secrets!Touched(op.update) = {} /\ op.durable
      /\ \A k \in Secrets!Touched(op.update) : plain[k] = None
      /\ ~Secrets!Locked /\ op.durable => \A k \in Keys :
          /\ overlay[k] = None
          /\ vault.data[k] = op.secrets[k] \/ (op.secrets[k] = None /\ vault.data[k] # None)
      /\ ~op.durable => overlay = op.secrets /\ Secrets!Touched(op.update) \subseteq loose
  BY <1>1 DEF OpHasRead, OpHasWritten
<1>9. Secrets!SecretsSurvive'
  <2>1. SUFFICES ASSUME NEW k \in Keys \ undone', ~Secrets!Locked PROVE Secrets!Effective[k] \in acceptable'[k]
    BY <1>6 DEF Secrets!SecretsSurvive
  <2>2. CASE k \notin Secrets!Touched(op.update)
    BY <1>1, <1>4, <2>1, <2>2 DEF Secrets!SecretsSurvive
  <2>3. CASE k \in Secrets!Touched(op.update) /\ op.durable
    <3>1. Secrets!Effective[k] = vault.data[k] /\ vault.data[k] = op.secrets[k]
      BY <1>6, <1>7, <1>8, <2>1, <2>3
    <3>2. QED BY <1>4, <2>3, <3>1
  <2>4. CASE k \in Secrets!Touched(op.update) /\ ~op.durable
    <3>1. Secrets!Effective[k] = op.secrets[k]
      BY <1>6, <1>7, <1>8, <2>1, <2>4
    <3>2. QED BY <1>4, <2>4, <3>1
  <2>5. QED BY <2>2, <2>3, <2>4
<1>10. KeysOnDisk'
  <2>1. \A k \in Keys : plain[k] # None => plain[k] \in acceptable'[k]
    BY <1>4, <1>8 DEF KeysOnDisk
  <2>2. ASSUME NEW k \in Keys \ (loose' \cup undone') PROVE Secrets!OnDisk[k] \in acceptable'[k]
    <3>1. CASE k \notin Secrets!Touched(op.update)
      <4>1. k \notin loose \cup undone
        BY <1>1, <2>2, <3>1
      <4>2. QED BY <1>4, <3>1, <4>1 DEF KeysOnDisk
    <3>2. CASE k \in Secrets!Touched(op.update)
      <4>1. op.durable /\ ~Secrets!Locked
        BY <1>1, <1>8, <2>2, <3>2
      <4>2. Secrets!OnDisk[k] = vault.data[k] /\ vault.data[k] = op.secrets[k]
        BY <1>6, <1>7, <1>8, <2>2, <3>2, <4>1
      <4>3. QED BY <1>4, <3>2, <4>2
    <3>3. QED BY <3>1, <3>2
  <2>3. QED BY <1>1, <1>6, <2>1, <2>2 DEF KeysOnDisk
<1>11. Secrets!NoNewPlaintext' /\ (available => \A k \in Keys : overlay[k] = None)'
  BY <1>1 DEF Secrets!NoNewPlaintext
<1>12. QED BY <1>1, <1>5, <1>9, <1>10, <1>11

LEMMA ConfigRestart ==
  ASSUME ConfigInv, Secrets!Restart
  PROVE  ConfigInv'
<1> USE DEF ConfigInv
<1>1. /\ available' \in BOOLEAN /\ overlay' = Secrets!NoSecrets /\ op' = None
      /\ loose' = {} /\ undone' = {} /\ UNCHANGED <<plain, vault>>
      /\ acceptable' = [k \in Keys |->
           IF k \in loose \cup undone THEN {Secrets!OnDisk[k]} ELSE acceptable[k]]
  BY DEF Secrets!Restart
<1>2. /\ overlay' \in Secrets!Secrets /\ \A k \in Keys : overlay'[k] = None
  BY <1>1 DEF Secrets!NoSecrets, Secrets!Secrets
<1>3. /\ \A k \in Keys : Secrets!OnDisk[k] = IF plain[k] = None THEN vault.data[k] ELSE plain[k]
      /\ \A k \in Keys : Secrets!OnDisk'[k] = Secrets!OnDisk[k]
      /\ \A k \in Keys : Secrets!Effective'[k] = Secrets!OnDisk[k]
  BY <1>1, <1>2, KeyByKey
<1>4. ConfigTypes'
  <2>1. \A k \in Keys : Secrets!OnDisk[k] \in Vals \cup {None}
    BY KeysHaveTypes DEF Secrets!Secrets
  <2>2. acceptable' \in [Keys -> SUBSET (Vals \cup {None})]
    BY <1>1, <2>1 DEF ConfigTypes
  <2>3. QED BY <1>1, <1>2, <2>2 DEF ConfigTypes
<1>5. \A k \in Keys : Secrets!OnDisk[k] \in acceptable'[k]
  BY <1>1 DEF KeysOnDisk
<1>6. \A k \in Keys : plain[k] # None => plain[k] \in acceptable'[k]
  BY <1>1, <1>3 DEF KeysOnDisk
<1>7. Secrets!NoNewPlaintext'
  BY <1>1 DEF Secrets!NoNewPlaintext
<1>8. QED
  BY <1>1, <1>2, <1>3, <1>4, <1>5, <1>6, <1>7 DEF KeysOnDisk, Secrets!SecretsSurvive

LEMMA ConfigStep == ConfigInv /\ [Secrets!Next]_configVars => ConfigInv'
<1> SUFFICES ASSUME ConfigInv, [Secrets!Next]_configVars PROVE ConfigInv'
  OBVIOUS
<1>1. ASSUME NEW c \in Secrets!ConfigCalls, Secrets!SaveConfig(c) \/ Secrets!LoadConfig(c) PROVE ConfigInv'
  BY <1>1, ConfigKeeps DEF Secrets!SaveConfig, Secrets!LoadConfig, Secrets!files, Secrets!told
<1>2. ASSUME NEW c \in Secrets!ConfigCalls, Secrets!BeginMigration(c) PROVE ConfigInv'
  <2>1. CASE op' = None
    BY <1>2, <2>1, ConfigKeeps DEF Secrets!BeginMigration, Secrets!files, Secrets!told
  <2>2. QED BY <1>2, <2>1, ConfigBeginMigration
<1>3. ASSUME NEW c \in Secrets!ConfigCalls, NEW u \in Updates, Secrets!BeginSave(c, u) PROVE ConfigInv'
  BY <1>3, ConfigBeginSave
<1>4. ASSUME NEW c \in Secrets!ConfigCalls, NEW u \in Updates, Secrets!RefuseSave(c, u) PROVE ConfigInv'
  BY <1>4, ConfigKeeps DEF Secrets!RefuseSave, Secrets!files, Secrets!told
<1>5. CASE Secrets!WriteFails
  BY <1>5, ConfigKeeps DEF Secrets!WriteFails, Secrets!files, Secrets!told
<1>6. CASE UNCHANGED configVars
  BY <1>6, ConfigKeeps DEF configVars
<1>7. QED
  BY <1>1, <1>2, <1>3, <1>4, <1>5, <1>6, ConfigWriteVault, ConfigRemoveVault, ConfigWriteConfig,
    ConfigAcknowledge, ConfigRestart DEF Secrets!Next

\* For any keys, values, saves and loads, past failed writes, removals that fail and ends of
\* the process between two steps: a key that was saved is found and one that was removed is
\* not, but for those exempt, and no key is written in clear text.
THEOREM ConfigSafe == Spec => [](part = "config" => ConfigInv)
<1>1. Init => (part = "config" => ConfigInv)
  BY ConfigInitially DEF Init
<1>2. (part = "config" => ConfigInv) /\ [Next]_partVars => (part = "config" => ConfigInv)'
  BY ConfigMoves, ConfigStep, PartStays
<1>3. QED BY <1>1, <1>2, PTL DEF Spec

-----------------------------------------------------------------------------
(* usage-store.ts: the token events *)

Appending(c) == refresh[c].at = "appending"
InQueue(c) == refresh[c].at \in {"appending", "persisting", "replacing"}

\* The lines that are in the file, were dropped for their age, or are exempt.
Known ==
  Usage!ToSet(usageFile) \cup Usage!ToSet(aside) \cup pruned \cup joinedLines \cup leftBehind

UsageTypes ==
  /\ source \in Nat /\ usageFile \in Seq(Nat) /\ aside \in Seq(Nat) /\ events \in Seq(Nat)
  /\ fileTail \in {"none", "torn", "whole"} /\ rewrite \in {"no", "begun", "moved"}
  /\ loaded \in BOOLEAN /\ keyless \in BOOLEAN /\ apart \in BOOLEAN
  /\ savedOffset \in 0 .. source /\ offset \in 0 .. source
  /\ refresh \in [Refreshes ->
       [at : {"idle", "scanning", "failed", "queued", "appending", "persisting", "replacing", "done"},
        found : Seq(Nat), to : 0 .. source, had : Nat]]

\* One operation of the queue at a time, on a store that was loaded.
UsageQueue ==
  /\ \A c, d \in Refreshes : InQueue(c) /\ InQueue(d) => c = d
  /\ \A c \in Refreshes : refresh[c].at \notin {"idle", "failed", "done"} => loaded

\* A load replaces the file before anything else is done with the store.
RewriteIsFirst ==
  /\ Usage!IsInjective(aside)
  /\ rewrite # "no" => ~loaded /\ events = Usage!Kept(Usage!Content)
  /\ IF rewrite = "moved" THEN usageFile = <<>> ELSE aside = <<>>

\* The keys in memory are those of the file and of the append under way.
KeysAreKnown ==
  /\ Usage!IsInjective(usageFile)
  /\ loaded => Usage!ToSet(usageFile) \subseteq dedupeKeys
  /\ \A n \in dedupeKeys \ Known : \E c \in Refreshes : Appending(c) /\ n \in Usage!ToSet(refresh[c].found)
  /\ \A c \in Refreshes :
       /\ refresh[c].at \in {"queued", "appending"} => Usage!IsInjective(refresh[c].found)
       /\ Appending(c) =>
            /\ refresh[c].found # <<>>
            /\ Usage!ToSet(refresh[c].found) \cap Usage!ToSet(usageFile) = {}
            /\ Usage!ToSet(refresh[c].found) \subseteq dedupeKeys

\* No offset, of the store, of its file or of a scan, is ahead of what is known.
OffsetsAreBehind ==
  /\ 1 .. savedOffset \subseteq Known
  /\ 1 .. offset \subseteq Known
  /\ \A c \in Refreshes :
       /\ refresh[c].at \in {"scanning", "persisting", "replacing"} => 1 .. refresh[c].to \subseteq Known
       /\ refresh[c].at = "replacing" =>
            refresh[c].had \in 0 .. source /\ 1 .. refresh[c].had \subseteq Known
       /\ refresh[c].at \in {"queued", "appending"} =>
            1 .. refresh[c].to \subseteq Known \cup Usage!ToSet(refresh[c].found)

\* Memory, but for the exemptions: what the file has, and what is being appended.
MemoryFollows ==
  ~keyless =>
    /\ Usage!IsInjective(events) /\ (loaded => Usage!ToSet(events) \subseteq dedupeKeys)
    /\ \A c \in Refreshes :
         Appending(c) /\ refresh[c].had + Len(refresh[c].found) <= MaxEvents =>
           /\ Len(events) = refresh[c].had + Len(refresh[c].found)
           /\ \A i \in 1 .. refresh[c].had : events[i] \notin Usage!ToSet(refresh[c].found)
    /\ ~apart /\ loaded =>
         /\ (\A c \in Refreshes : ~Appending(c)) => events = Usage!Kept(usageFile)
         /\ \A c \in Refreshes : Appending(c) =>
              /\ refresh[c].had = Len(Usage!Kept(usageFile))
              /\ events = Usage!Kept(Usage!Kept(usageFile) \o refresh[c].found)

UsageInv ==
  UsageTypes /\ UsageQueue /\ RewriteIsFirst /\ KeysAreKnown /\ OffsetsAreBehind /\ MemoryFollows

\* Induction over the numbers, for a set of them.
LEMMA NatSetInduction ==
  ASSUME NEW T, 0 \in T, \A n \in Nat : n \in T => n + 1 \in T
  PROVE  Nat \subseteq T
<1> SUFFICES ASSUME Nat \ T # {} PROVE FALSE
  OBVIOUS
<1> DEFINE less == OpToRel(<, Nat)
<1>1. IsWellFoundedOn(less, Nat)
  BY NatLessThanWellFounded
<1>2. \A m, n \in Nat : m < n => <<m, n>> \in less
  BY DEF OpToRel
<1> HIDE DEF less
<1>3. PICK n \in Nat \ T : \A m \in Nat \ T : <<m, n>> \notin less
  <2> DEFINE rest == Nat \ T
  <2>1. rest \subseteq Nat /\ rest # {}
    OBVIOUS
  <2> HIDE DEF rest
  <2>2. \E n \in rest : \A m \in rest : ~(<<m, n>> \in less)
    BY <1>1, <2>1, WFMin
  <2>3. QED BY <2>2 DEF rest
<1>4. n # 0 /\ n - 1 \in Nat /\ n - 1 < n /\ (n - 1) + 1 = n
  BY <1>3
<1>5. n - 1 \in T
  BY <1>2, <1>3, <1>4
<1>6. QED BY <1>3, <1>4, <1>5

\* The steps of Unseen, as an equation: each adds an element or leaves it out.
Selects(f, s, keys, n) ==
  f = [i \in 0 .. n |->
        IF i = 0 THEN <<>>
        ELSE IF s[i] \in keys THEN f[i - 1] ELSE Append(f[i - 1], s[i])]

LEMMA SelectsAt ==
  ASSUME NEW f, NEW s, NEW keys, NEW n \in Nat, Selects(f, s, keys, n)
  PROVE  /\ f[0] = <<>>
         /\ \A i \in 1 .. n : f[i] = IF s[i] \in keys THEN f[i - 1] ELSE Append(f[i - 1], s[i])
<1> DEFINE h(g) == [i \in 0 .. n |->
                     IF i = 0 THEN <<>>
                     ELSE IF s[i] \in keys THEN g[i - 1] ELSE Append(g[i - 1], s[i])]
<1>1. \A g : /\ h(g)[0] = <<>>
             /\ \A i \in 1 .. n : h(g)[i] = IF s[i] \in keys THEN g[i - 1] ELSE Append(g[i - 1], s[i])
  OBVIOUS
<1>2. f = h(f)
  BY DEF Selects
<1> HIDE DEF h
<1>3. QED BY <1>1, <1>2

LEMMA SelectionExists ==
  ASSUME NEW s, NEW keys, NEW n \in Nat
  PROVE  \E f : Selects(f, s, keys, n)
<1> DEFINE T == {i \in Nat : \E f : Selects(f, s, keys, i)}
<1>1. 0 \in T
  <2>1. Selects([i \in 0 .. 0 |-> <<>>], s, keys, 0)
    BY DEF Selects
  <2>2. QED BY <2>1
<1>2. ASSUME NEW i \in Nat, i \in T PROVE i + 1 \in T
  <2>1. PICK f : Selects(f, s, keys, i)
    BY <1>2
  <2> DEFINE g == [j \in 0 .. i + 1 |->
                     IF j <= i THEN f[j]
                     ELSE IF s[j] \in keys THEN f[j - 1] ELSE Append(f[j - 1], s[j])]
  <2>2. ASSUME NEW j \in 0 .. i + 1
        PROVE  g[j] = IF j = 0 THEN <<>>
                      ELSE IF s[j] \in keys THEN g[j - 1] ELSE Append(g[j - 1], s[j])
    <3>1. CASE j = 0
      BY <2>1, <3>1, SelectsAt
    <3>2. CASE j \in 1 .. i
      <4>1. f[j] = IF s[j] \in keys THEN f[j - 1] ELSE Append(f[j - 1], s[j])
        BY <2>1, <3>2, SelectsAt
      <4>2. g[j] = f[j] /\ g[j - 1] = f[j - 1]
        BY <3>2
      <4>3. QED BY <3>2, <4>1, <4>2
    <3>3. CASE j = i + 1
      <4>1. g[j - 1] = f[j - 1] /\ j # 0
        BY <3>3
      <4>2. g[j] = IF s[j] \in keys THEN f[j - 1] ELSE Append(f[j - 1], s[j])
        BY <3>3
      <4>3. QED BY <4>1, <4>2
    <3>4. QED BY <2>2, <3>1, <3>2, <3>3
  <2>3. g = [j \in 0 .. i + 1 |-> g[j]]
    OBVIOUS
  <2> HIDE DEF g
  <2>4. Selects(g, s, keys, i + 1)
    BY <2>2, <2>3 DEF Selects
  <2>5. QED BY <2>4
<1> HIDE DEF T
<1>3. Nat \subseteq T
  BY <1>1, <1>2, NatSetInduction
<1>4. QED BY <1>3 DEF T

\* What is unseen of a sequence without repetitions: its other elements, once each.
LEMMA UnseenOf ==
  ASSUME NEW S, NEW s \in Seq(S), NEW keys, Usage!IsInjective(s)
  PROVE  /\ Usage!Unseen(s, keys) \in Seq(S)
         /\ Usage!ToSet(Usage!Unseen(s, keys)) = Usage!ToSet(s) \ keys
         /\ Usage!IsInjective(Usage!Unseen(s, keys))
<1> DEFINE n == Len(s)
           f == CHOOSE g : Selects(g, s, keys, n)
<1>1. n \in Nat
  OBVIOUS
<1>2. Selects(f, s, keys, n)
  BY <1>1, SelectionExists
<1>3. Usage!Unseen(s, keys) = f[n]
  BY DEF Usage!Unseen, Selects
<1> HIDE DEF n, f
<1>4. /\ f[0] = <<>>
      /\ \A i \in 1 .. n : f[i] = IF s[i] \in keys THEN f[i - 1] ELSE Append(f[i - 1], s[i])
  BY <1>1, <1>2, SelectsAt
<1> DEFINE Good(i) == /\ f[i] \in Seq(S)
                      /\ \A x : x \in Usage!ToSet(f[i]) <=> x \notin keys /\ \E j \in 1 .. i : x = s[j]
                      /\ Usage!IsInjective(f[i])
           T == {i \in Nat : i <= n => Good(i)}
<1>5. 0 \in T
  <2>1. f[0] = <<>> /\ <<>> \in Seq(S) /\ DOMAIN <<>> = {}
    BY <1>4
  <2>2. Usage!ToSet(<<>>) = {} /\ Usage!IsInjective(<<>>)
    BY DEF Usage!ToSet, Usage!IsInjective
  <2>3. 1 .. 0 = {}
    OBVIOUS
  <2>4. QED BY <2>1, <2>2, <2>3
<1>6. ASSUME NEW i \in Nat, i \in T PROVE i + 1 \in T
  <2>1. SUFFICES ASSUME i + 1 <= n PROVE Good(i + 1)
    OBVIOUS
  <2>2. Good(i) /\ i + 1 \in 1 .. n /\ (i + 1) - 1 = i
    BY <1>1, <1>6, <2>1
  <2>3. f[i + 1] = IF s[i + 1] \in keys THEN f[i] ELSE Append(f[i], s[i + 1])
    BY <1>4, <2>2
  <2>4. CASE s[i + 1] \in keys
    BY <2>2, <2>3, <2>4
  <2>5. CASE s[i + 1] \notin keys
    <3> DEFINE t == f[i]
               x == s[i + 1]
    <3>1. f[i + 1] = Append(t, x) /\ t \in Seq(S) /\ x \in S
      BY <2>2, <2>3, <2>5 DEF n
    <3>2. x \notin Usage!ToSet(t)
      <4>1. \A j \in 1 .. i : s[j] # s[i + 1]
        BY <2>2 DEF Usage!IsInjective, n
      <4>2. QED BY <2>2, <4>1
    <3>3. \A y : y \in Usage!ToSet(t) <=> y \notin keys /\ \E j \in 1 .. i : y = s[j]
      BY <2>2
    <3>4. Usage!IsInjective(t)
      BY <2>2
    <3> HIDE DEF t
    <3>5. /\ Append(t, x) \in Seq(S) /\ Len(Append(t, x)) = Len(t) + 1
          /\ \A k \in 1 .. Len(t) : Append(t, x)[k] = t[k]
          /\ Append(t, x)[Len(t) + 1] = x
      BY <3>1
    <3>6. \A y : y \in Usage!ToSet(Append(t, x)) <=> y \in Usage!ToSet(t) \/ y = x
      BY <3>1, <3>5 DEF Usage!ToSet
    <3>7. Usage!IsInjective(Append(t, x))
      BY <3>1, <3>2, <3>4, <3>5 DEF Usage!IsInjective, Usage!ToSet
    <3>8. \A y : y \in Usage!ToSet(Append(t, x)) <=> y \notin keys /\ \E j \in 1 .. i + 1 : y = s[j]
      <4>1. \A y : (\E j \in 1 .. i + 1 : y = s[j]) <=> (\E j \in 1 .. i : y = s[j]) \/ y = s[i + 1]
        OBVIOUS
      <4>2. QED BY <2>5, <3>3, <3>6, <4>1
    <3>9. QED BY <3>1, <3>5, <3>7, <3>8
  <2>6. QED BY <2>4, <2>5
<1> HIDE DEF T
<1>7. n \in T
  BY <1>1, <1>5, <1>6, NatSetInduction
<1>8. Good(n)
  BY <1>1, <1>7 DEF T
<1>9. Usage!ToSet(s) = {x \in S : \E j \in 1 .. n : x = s[j]}
  BY DEF Usage!ToSet, n
<1>10. Usage!ToSet(f[n]) = Usage!ToSet(s) \ keys
  <2>1. \A j \in 1 .. n : s[j] \in S
    BY DEF n
  <2>2. QED BY <1>8, <1>9, <2>1
<1>11. QED BY <1>3, <1>8, <1>10

LEMMA JoinedOf ==
  ASSUME NEW S, NEW s \in Seq(S), NEW t \in Seq(S)
  PROVE  /\ s \o t \in Seq(S) /\ Len(s \o t) = Len(s) + Len(t)
         /\ \A i \in 1 .. Len(s) : (s \o t)[i] = s[i]
         /\ Usage!ToSet(s \o t) = Usage!ToSet(s) \cup Usage!ToSet(t)
         /\ /\ Usage!IsInjective(s) /\ Usage!IsInjective(t)
            /\ Usage!ToSet(s) \cap Usage!ToSet(t) = {}
            => Usage!IsInjective(s \o t)
<1> DEFINE st == s \o t
           m == Len(s)
           n == Len(t)
<1>1. /\ st \in Seq(S) /\ Len(st) = m + n /\ m \in Nat /\ n \in Nat
      /\ DOMAIN s = 1 .. m /\ DOMAIN t = 1 .. n /\ DOMAIN st = 1 .. m + n
      /\ \A i \in 1 .. m : st[i] = s[i]
      /\ \A i \in 1 .. n : st[m + i] = t[i]
  OBVIOUS
<1>2. \A i \in 1 .. m + n : i \in 1 .. m \/ (i - m \in 1 .. n /\ i = m + (i - m))
  BY <1>1
<1> HIDE DEF st, m, n
<1>3. Usage!ToSet(st) = Usage!ToSet(s) \cup Usage!ToSet(t)
  <2>1. \A i \in 1 .. m + n : st[i] \in Usage!ToSet(s) \cup Usage!ToSet(t)
    BY <1>1, <1>2 DEF Usage!ToSet
  <2>2. \A i \in 1 .. m : s[i] \in Usage!ToSet(st)
    BY <1>1 DEF Usage!ToSet
  <2>3. \A i \in 1 .. n : t[i] \in Usage!ToSet(st)
    <3>1. \A i \in 1 .. n : m + i \in 1 .. m + n
      BY <1>1
    <3>2. QED BY <1>1, <3>1 DEF Usage!ToSet
  <2>4. QED BY <1>1, <2>1, <2>2, <2>3 DEF Usage!ToSet
<1>4. ASSUME Usage!IsInjective(s), Usage!IsInjective(t), Usage!ToSet(s) \cap Usage!ToSet(t) = {}
      PROVE  Usage!IsInjective(st)
  <2>1. SUFFICES ASSUME NEW a \in 1 .. m + n, NEW b \in 1 .. m + n, st[a] = st[b] PROVE a = b
    BY <1>1 DEF Usage!IsInjective
  <2>2. CASE a \in 1 .. m /\ b \in 1 .. m
    BY <1>1, <1>4, <2>1, <2>2 DEF Usage!IsInjective
  <2>3. CASE a - m \in 1 .. n /\ b - m \in 1 .. n
    <3>1. st[a] = t[a - m] /\ st[b] = t[b - m]
      BY <1>1, <1>2, <2>1, <2>3
    <3>2. a - m = b - m
      BY <1>1, <1>4, <2>1, <2>3, <3>1 DEF Usage!IsInjective
    <3>3. QED BY <1>1, <2>1, <3>2
  <2>4. ASSUME NEW i \in 1 .. m, NEW j \in 1 .. n PROVE s[i] # t[j]
    BY <1>1, <1>4 DEF Usage!ToSet
  <2>5. CASE a \in 1 .. m /\ b - m \in 1 .. n
    BY <1>1, <1>2, <2>1, <2>4, <2>5
  <2>6. CASE a - m \in 1 .. n /\ b \in 1 .. m
    <3>1. st[a] = t[a - m] /\ st[b] = s[b]
      BY <1>1, <1>2, <2>1, <2>6
    <3>2. QED BY <2>1, <2>4, <2>6, <3>1
  <2>7. QED BY <1>2, <2>1, <2>2, <2>3, <2>5, <2>6
<1>5. QED BY <1>1, <1>3, <1>4 DEF st, m, n

LEMMA PieceOf ==
  ASSUME NEW S, NEW s \in Seq(S), NEW a \in Nat \ {0}, NEW b \in 0 .. Len(s)
  PROVE  /\ SubSeq(s, a, b) \in Seq(S)
         /\ Len(SubSeq(s, a, b)) = IF a <= b THEN b - a + 1 ELSE 0
         /\ \A i \in 1 .. Len(SubSeq(s, a, b)) : SubSeq(s, a, b)[i] = s[a - 1 + i]
         /\ Usage!ToSet(SubSeq(s, a, b)) \subseteq Usage!ToSet(s)
         /\ Usage!IsInjective(s) => Usage!IsInjective(SubSeq(s, a, b))
<1> DEFINE p == SubSeq(s, a, b)
           k == Len(p)
<1>1. \A i \in a .. b : s[i] \in S
  OBVIOUS
<1>2. /\ p \in Seq(S)
      /\ Len(p) = IF a <= b THEN b - a + 1 ELSE 0
      /\ \A i \in 1 .. b - a + 1 : p[i] = s[a + i - 1]
  BY <1>1, SubSeqProperties
<1>3. /\ k \in Nat /\ DOMAIN p = 1 .. k /\ DOMAIN s = 1 .. Len(s)
      /\ \A i \in 1 .. k : p[i] = s[a - 1 + i] /\ a - 1 + i \in 1 .. Len(s)
  BY <1>2
<1> HIDE DEF p, k
<1>4. Usage!ToSet(p) \subseteq Usage!ToSet(s)
  BY <1>3 DEF Usage!ToSet
<1>5. ASSUME Usage!IsInjective(s) PROVE Usage!IsInjective(p)
  <2>1. SUFFICES ASSUME NEW i \in 1 .. k, NEW j \in 1 .. k, p[i] = p[j] PROVE i = j
    BY <1>3 DEF Usage!IsInjective
  <2>2. a - 1 + i = a - 1 + j
    BY <1>3, <1>5, <2>1 DEF Usage!IsInjective
  <2>3. QED BY <1>3, <2>1, <2>2
<1>6. QED BY <1>2, <1>3, <1>4, <1>5 DEF p, k

LEMMA KeptOf ==
  ASSUME NEW S, NEW s \in Seq(S)
  PROVE  /\ Usage!Kept(s) \in Seq(S)
         /\ Len(Usage!Kept(s)) = IF Len(s) > MaxEvents THEN MaxEvents ELSE Len(s)
         /\ \A i \in 1 .. Len(Usage!Kept(s)) : Usage!Kept(s)[i] = s[Len(s) - Len(Usage!Kept(s)) + i]
         /\ Usage!ToSet(Usage!Kept(s)) \subseteq Usage!ToSet(s)
         /\ Usage!IsInjective(s) => Usage!IsInjective(Usage!Kept(s))
         /\ Len(s) <= MaxEvents => Usage!Kept(s) = s
<1>1. CASE Len(s) > MaxEvents
  <2> DEFINE a == Len(s) - MaxEvents + 1
  <2>1. a \in Nat \ {0} /\ Len(s) \in 0 .. Len(s)
    BY <1>1, UsageAssumption
  <2>2. Usage!Kept(s) = SubSeq(s, a, Len(s))
    BY <1>1 DEF Usage!Kept
  <2>3. (IF a <= Len(s) THEN Len(s) - a + 1 ELSE 0) = MaxEvents /\ a - 1 = Len(s) - MaxEvents
    BY <1>1, UsageAssumption
  <2> HIDE DEF a
  <2>4. /\ SubSeq(s, a, Len(s)) \in Seq(S)
        /\ Len(SubSeq(s, a, Len(s))) = MaxEvents
        /\ \A i \in 1 .. Len(SubSeq(s, a, Len(s))) : SubSeq(s, a, Len(s))[i] = s[a - 1 + i]
        /\ Usage!ToSet(SubSeq(s, a, Len(s))) \subseteq Usage!ToSet(s)
        /\ Usage!IsInjective(s) => Usage!IsInjective(SubSeq(s, a, Len(s)))
    BY <2>1, <2>3, PieceOf
  <2>5. ~(Len(s) <= MaxEvents)
    BY <1>1, UsageAssumption
  <2>6. QED BY <1>1, <2>2, <2>3, <2>4, <2>5
<1>2. CASE ~(Len(s) > MaxEvents)
  <2>1. Usage!Kept(s) = s
    BY <1>2 DEF Usage!Kept
  <2>2. \A i \in 1 .. Len(s) : s[i] = s[Len(s) - Len(s) + i]
    OBVIOUS
  <2>3. QED BY <1>2, <2>1, <2>2
<1>3. QED BY <1>1, <1>2

LEMMA KeptTwice ==
  ASSUME NEW S, NEW s \in Seq(S)
  PROVE  Usage!Kept(Usage!Kept(s)) = Usage!Kept(s)
<1>1. Usage!Kept(s) \in Seq(S) /\ Len(Usage!Kept(s)) <= MaxEvents
  BY KeptOf, UsageAssumption
<1>2. QED BY <1>1, KeptOf

\* The newest of a file that grew, whether or not what it had was cut before.
LEMMA KeptJoins ==
  ASSUME NEW S, NEW s \in Seq(S), NEW t \in Seq(S)
  PROVE  Usage!Kept(Usage!Kept(s) \o t) = Usage!Kept(s \o t)
<1> DEFINE k == Usage!Kept(s)
           u == k \o t
           w == s \o t
<1>1. /\ k \in Seq(S) /\ Len(k) \in Nat /\ Len(s) \in Nat /\ Len(t) \in Nat
      /\ Len(k) = IF Len(s) > MaxEvents THEN MaxEvents ELSE Len(s)
      /\ \A i \in 1 .. Len(k) : k[i] = s[Len(s) - Len(k) + i]
  BY KeptOf
<1> HIDE DEF k
<1>2. /\ u \in Seq(S) /\ Len(u) = Len(k) + Len(t)
      /\ \A i \in 1 .. Len(k) : u[i] = k[i]
      /\ \A i \in Len(k) + 1 .. Len(k) + Len(t) : u[i] = t[i - Len(k)]
  <2>1. /\ u \in Seq(S) /\ Len(u) = Len(k) + Len(t)
        /\ \A i \in 1 .. Len(k) + Len(t) : u[i] = IF i <= Len(k) THEN k[i] ELSE t[i - Len(k)]
    BY <1>1, ConcatProperties
  <2> HIDE DEF u
  <2>2. Len(k) \in Nat /\ Len(t) \in Nat
    BY <1>1
  <2>3. ASSUME NEW i \in 1 .. Len(k) PROVE u[i] = k[i]
    <3>1. i \in 1 .. Len(k) + Len(t) /\ i <= Len(k)
      BY <2>2
    <3>2. QED BY <2>1, <3>1
  <2>4. ASSUME NEW i \in Len(k) + 1 .. Len(k) + Len(t) PROVE u[i] = t[i - Len(k)]
    <3>1. i \in 1 .. Len(k) + Len(t) /\ ~(i <= Len(k))
      BY <2>2
    <3>2. QED BY <2>1, <3>1
  <2>5. QED BY <2>1, <2>3, <2>4
<1>3. /\ w \in Seq(S) /\ Len(w) = Len(s) + Len(t)
      /\ \A i \in 1 .. Len(s) : w[i] = s[i]
      /\ \A i \in Len(s) + 1 .. Len(s) + Len(t) : w[i] = t[i - Len(s)]
  OBVIOUS
<1> HIDE DEF u, w
\* What was cut off lies before what is kept in the end.
<1>4. ASSUME NEW i \in 1 .. Len(u) PROVE u[i] = w[Len(s) - Len(k) + i]
  <2>1. CASE i \in 1 .. Len(k)
    <3>1. Len(s) - Len(k) + i \in 1 .. Len(s)
      BY <1>1, <2>1, UsageAssumption
    <3>2. u[i] = k[i] /\ k[i] = s[Len(s) - Len(k) + i]
      BY <1>1, <1>2, <2>1
    <3>3. QED BY <1>3, <3>1, <3>2
  <2>2. CASE i \in Len(k) + 1 .. Len(k) + Len(t)
    <3>1. /\ Len(s) - Len(k) + i \in Len(s) + 1 .. Len(s) + Len(t)
          /\ (Len(s) - Len(k) + i) - Len(s) = i - Len(k)
      BY <1>1, <2>2
    <3>2. QED BY <1>2, <1>3, <2>2, <3>1
  <2>3. QED BY <1>1, <1>2, <1>4, <2>1, <2>2
<1>5. /\ Usage!Kept(u) \in Seq(S)
      /\ Len(Usage!Kept(u)) = IF Len(u) > MaxEvents THEN MaxEvents ELSE Len(u)
      /\ \A i \in 1 .. Len(Usage!Kept(u)) : Usage!Kept(u)[i] = u[Len(u) - Len(Usage!Kept(u)) + i]
  BY <1>2, KeptOf
<1>6. /\ Usage!Kept(w) \in Seq(S)
      /\ Len(Usage!Kept(w)) = IF Len(w) > MaxEvents THEN MaxEvents ELSE Len(w)
      /\ \A i \in 1 .. Len(Usage!Kept(w)) : Usage!Kept(w)[i] = w[Len(w) - Len(Usage!Kept(w)) + i]
  BY <1>3, KeptOf
<1>7. Len(Usage!Kept(u)) = Len(Usage!Kept(w))
  BY <1>1, <1>2, <1>3, <1>5, <1>6, UsageAssumption
<1>8. ASSUME NEW i \in 1 .. Len(Usage!Kept(u)) PROVE Usage!Kept(u)[i] = Usage!Kept(w)[i]
  <2> DEFINE j == Len(u) - Len(Usage!Kept(u)) + i
  <2>1. j \in 1 .. Len(u) /\ Len(s) - Len(k) + j = Len(w) - Len(Usage!Kept(w)) + i
    <3>1. /\ Len(u) \in Nat /\ Len(w) \in Nat /\ Len(s) \in Nat /\ Len(k) \in Nat
          /\ Len(w) - Len(u) = Len(s) - Len(k)
      BY <1>1, <1>2, <1>3
    <3>2. Len(Usage!Kept(u)) \in Nat /\ Len(Usage!Kept(u)) <= Len(u)
      BY <1>2, <1>5, <3>1, UsageAssumption
    <3>3. ASSUME NEW n \in Nat, n <= Len(u), i \in 1 .. n
          PROVE  /\ Len(u) - n + i \in 1 .. Len(u)
                 /\ Len(s) - Len(k) + (Len(u) - n + i) = Len(w) - n + i
      BY <3>1, <3>3
    <3>4. QED BY <1>7, <1>8, <3>2, <3>3
  <2>2. u[j] = w[Len(s) - Len(k) + j]
    BY <1>4, <2>1
  <2>3. QED BY <1>5, <1>6, <1>7, <1>8, <2>1, <2>2
<1>9. Usage!Kept(u) = Usage!Kept(w)
  BY <1>5, <1>6, <1>7, <1>8, SeqEqual
<1>10. QED BY <1>9 DEF u, w, k

LEMMA UsageMoves ==
  ASSUME [Next]_partVars, part = "usage"
  PROVE  [Usage!Next]_usageVars
  BY DEF Next, partVars, usageVars

LEMMA UsageInitially == Usage!Init => UsageInv
<1> SUFFICES ASSUME Usage!Init PROVE UsageInv
  OBVIOUS
<1>1. /\ source = 0 /\ usageFile = <<>> /\ aside = <<>> /\ events = <<>> /\ fileTail = "none"
      /\ rewrite = "no" /\ savedOffset = 0 /\ offset = 0 /\ dedupeKeys = {}
      /\ loaded = FALSE /\ keyless = FALSE /\ apart = FALSE
      /\ refresh = [c \in Refreshes |-> [at |-> "idle", found |-> <<>>, to |-> 0, had |-> 0]]
  BY DEF Usage!Init
<1>2. 0 \in 0 .. 0 /\ 1 .. 0 = {} /\ <<>> \in Seq(Nat) /\ DOMAIN <<>> = {}
  OBVIOUS
<1>3. UsageTypes
  BY <1>1, <1>2 DEF UsageTypes
<1>4. Usage!IsInjective(<<>>) /\ Usage!ToSet(<<>>) = {}
  BY <1>2 DEF Usage!IsInjective, Usage!ToSet
<1>5. \A c \in Refreshes : refresh[c].at = "idle"
  BY <1>1
<1>6. UsageQueue /\ RewriteIsFirst /\ KeysAreKnown
  BY <1>1, <1>4, <1>5 DEF UsageQueue, InQueue, RewriteIsFirst, KeysAreKnown, Appending
<1>7. OffsetsAreBehind
  BY <1>1, <1>2, <1>5 DEF OffsetsAreBehind
<1>8. MemoryFollows
  BY <1>1, <1>4, <1>5 DEF MemoryFollows, Appending
<1>9. QED BY <1>3, <1>6, <1>7, <1>8 DEF UsageInv

\* Where refreshes are is all that a step changes, and it begins or ends no append.
LEMMA UsageCalm ==
  ASSUME UsageInv, UsageTypes', UsageQueue',
         UNCHANGED <<usageFile, rewrite, aside, events, dedupeKeys, loaded, pruned, joinedLines,
                     leftBehind, keyless, apart>>,
         \A d \in Refreshes : Appending(d)' <=> Appending(d),
         \A d \in Refreshes : Appending(d) => refresh'[d] = refresh[d],
         \A d \in Refreshes : refresh'[d].at = "queued" => Usage!IsInjective(refresh'[d].found)
  PROVE  RewriteIsFirst' /\ KeysAreKnown' /\ MemoryFollows' /\ Known' = Known
<1>1. Known' = Known
  BY DEF Known
<1>2. KeysAreKnown'
  <2>1. \A n \in dedupeKeys \ Known :
          \E c \in Refreshes : Appending(c)' /\ n \in Usage!ToSet(refresh'[c].found)
    BY DEF UsageInv, KeysAreKnown
  <2>2. ASSUME NEW c \in Refreshes, Appending(c)'
        PROVE  /\ Usage!IsInjective(refresh'[c].found) /\ refresh'[c].found # <<>>
               /\ Usage!ToSet(refresh'[c].found) \cap Usage!ToSet(usageFile) = {}
               /\ Usage!ToSet(refresh'[c].found) \subseteq dedupeKeys
    BY <2>2 DEF UsageInv, KeysAreKnown, Appending
  <2>3. QED BY <1>1, <2>1, <2>2 DEF UsageInv, KeysAreKnown, Appending
<1>3. MemoryFollows'
  BY DEF UsageInv, MemoryFollows
<1>4. RewriteIsFirst'
  BY DEF UsageInv, RewriteIsFirst, Usage!Content
<1>5. QED BY <1>1, <1>2, <1>3, <1>4

LEMMA UsageLog ==
  ASSUME UsageInv, Usage!Log
  PROVE  UsageInv'
<1>1. /\ source' = source + 1
      /\ UNCHANGED <<usageFile, fileTail, rewrite, aside, savedOffset, events, dedupeKeys, offset, loaded, refresh,
                     pruned, joinedLines, leftBehind, keyless, apart>>
  BY DEF Usage!Log, Usage!disk, Usage!memory, Usage!history
<1>2. UsageTypes'
  <2>1. source \in Nat /\ source + 1 \in Nat /\ 0 .. source \subseteq 0 .. source + 1
    BY DEF UsageInv, UsageTypes
  <2>2. refresh \in [Refreshes ->
       [at : {"idle", "scanning", "failed", "queued", "appending", "persisting", "replacing", "done"},
        found : Seq(Nat), to : 0 .. source + 1, had : Nat]]
    <3>1. \A c \in Refreshes : refresh[c] \in
       [at : {"idle", "scanning", "failed", "queued", "appending", "persisting", "replacing", "done"},
        found : Seq(Nat), to : 0 .. source + 1, had : Nat]
      BY <2>1 DEF UsageInv, UsageTypes
    <3>2. QED BY <3>1 DEF UsageInv, UsageTypes
  <2>3. QED BY <1>1, <2>1, <2>2 DEF UsageInv, UsageTypes
<1>3. UsageQueue'
  BY <1>1 DEF UsageInv, UsageQueue, InQueue
<1>4. \A d \in Refreshes : Appending(d)' <=> Appending(d)
  BY <1>1 DEF Appending
<1>5. \A d \in Refreshes : refresh'[d].at = "queued" => Usage!IsInjective(refresh'[d].found)
  BY <1>1 DEF UsageInv, KeysAreKnown
<1>6. RewriteIsFirst' /\ KeysAreKnown' /\ MemoryFollows' /\ Known' = Known
  BY <1>1, <1>2, <1>3, <1>4, <1>5, UsageCalm
<1>7. OffsetsAreBehind'
  <2>1. 0 .. source \subseteq 0 .. source'
    BY <1>1 DEF UsageInv, UsageTypes
  <2>2. \A c \in Refreshes : refresh[c].at = "replacing" => refresh[c].had \in 0 .. source'
    BY <2>1 DEF UsageInv, OffsetsAreBehind
  <2>3. QED BY <1>1, <1>6, <2>2 DEF UsageInv, OffsetsAreBehind
<1>8. QED BY <1>2, <1>3, <1>6, <1>7 DEF UsageInv

\* A refresh that moves among the places outside the queue, or leaves it.
LEMMA UsageGoes ==
  ASSUME UsageInv, NEW c \in Refreshes, NEW r,
         r \in [at : {"idle", "scanning", "failed", "queued", "appending", "persisting", "replacing", "done"},
                found : Seq(Nat), to : 0 .. source, had : Nat],
         refresh' = [refresh EXCEPT ![c] = r],
         ~Appending(c), r.at \in {"scanning", "queued", "replacing", "failed", "done"},
         r.at = "replacing" =>
           refresh[c].at = "persisting" /\ r.had \in 0 .. source /\ 1 .. r.to \cup 1 .. r.had \subseteq Known,
         r.at \in {"scanning", "queued", "replacing"} => loaded,
         r.at = "scanning" => 1 .. r.to \subseteq Known,
         r.at = "queued" => Usage!IsInjective(r.found) /\ 1 .. r.to \subseteq Known \cup Usage!ToSet(r.found),
         savedOffset' \in 0 .. source, 1 .. savedOffset' \subseteq Known,
         UNCHANGED <<source, usageFile, fileTail, rewrite, aside, events, dedupeKeys, offset, loaded, pruned,
                     joinedLines, leftBehind, keyless, apart>>
  PROVE  UsageInv'
<1>1. /\ refresh'[c] = r
      /\ \A d \in Refreshes : d # c => refresh'[d] = refresh[d]
  BY DEF UsageInv, UsageTypes
<1>2. UsageTypes'
  BY <1>1 DEF UsageInv, UsageTypes
<1>3. UsageQueue'
  BY <1>1 DEF UsageInv, UsageQueue, InQueue
<1>4. \A d \in Refreshes : Appending(d)' <=> Appending(d)
  BY <1>1 DEF Appending
<1>5. \A d \in Refreshes : Appending(d) => refresh'[d] = refresh[d]
  BY <1>1 DEF Appending
<1>6. \A d \in Refreshes : refresh'[d].at = "queued" => Usage!IsInjective(refresh'[d].found)
  BY <1>1 DEF UsageInv, KeysAreKnown
<1>7. RewriteIsFirst' /\ KeysAreKnown' /\ MemoryFollows' /\ Known' = Known
  BY <1>2, <1>3, <1>4, <1>5, <1>6, UsageCalm
<1>8. OffsetsAreBehind'
  BY <1>1, <1>7 DEF UsageInv, OffsetsAreBehind
<1>9. QED BY <1>2, <1>3, <1>7, <1>8 DEF UsageInv

LEMMA UsageScans ==
  ASSUME UsageInv, NEW c \in Refreshes,
         \/ Usage!Scan(c) \/ Usage!Scanned(c) \/ Usage!ScanFails(c)
         \/ Usage!PersistMoves(c) \/ Usage!PersistState(c) \/ Usage!PersistFails(c)
  PROVE  UsageInv'
<1> DEFINE Record == [at : {"idle", "scanning", "failed", "queued", "appending", "persisting", "replacing", "done"},
                      found : Seq(Nat), to : 0 .. source, had : Nat]
<1>1. /\ refresh[c] \in Record /\ source \in Nat /\ offset \in 0 .. source /\ savedOffset \in 0 .. source
      /\ 1 .. savedOffset \subseteq Known /\ 1 .. offset \subseteq Known
  BY DEF UsageInv, UsageTypes, OffsetsAreBehind
<1>2. CASE Usage!Scan(c)
  <2> DEFINE r == [refresh[c] EXCEPT !.at = "scanning", !.to = offset]
  <2>1. r \in Record /\ r.at = "scanning" /\ r.to = offset
    BY <1>1
  <2>2. refresh' = [refresh EXCEPT ![c] = r] /\ loaded /\ ~Appending(c)
    BY <1>2 DEF Usage!Scan, Usage!At, Appending
  <2>3. UNCHANGED <<source, usageFile, fileTail, rewrite, aside, savedOffset, events, dedupeKeys, offset, loaded, pruned,
                     joinedLines, leftBehind, keyless, apart>>
    BY <1>2 DEF Usage!Scan, Usage!disk, Usage!memory, Usage!history
  <2> HIDE DEF r
  <2>4. QED BY <1>1, <2>1, <2>2, <2>3, UsageGoes
<1>3. CASE Usage!Scanned(c)
  <2> DEFINE from == refresh[c].to
             found == [i \in 1 .. source - from |-> from + i]
             r == [refresh[c] EXCEPT !.at = "queued", !.found = found, !.to = source]
  <2>1. from \in 0 .. source /\ source - from \in Nat
    BY <1>1
  <2>10. from = refresh[c].to
    OBVIOUS
  <2> HIDE DEF from
  <2>2. found \in Seq(Nat) /\ DOMAIN found = 1 .. source - from /\ \A i \in 1 .. source - from : found[i] = from + i
    <3>1. \A i \in 1 .. source - from : from + i \in Nat
      BY <1>1, <2>1
    <3>2. found \in [1 .. source - from -> Nat] /\ \A i \in 1 .. source - from : found[i] = from + i
      BY <3>1
    <3>3. \A n \in Nat : \A f \in [1 .. n -> Nat] : f \in Seq(Nat) /\ DOMAIN f = 1 .. n
      OBVIOUS
    <3> HIDE DEF found
    <3>4. QED BY <2>1, <3>2, <3>3
  <2>3. refresh' = [refresh EXCEPT ![c] = r] /\ refresh[c].at = "scanning"
    BY <1>3 DEF Usage!Scanned, Usage!At, from
  <2>4. 1 .. from \subseteq Known /\ loaded /\ ~Appending(c)
    BY <2>3, <2>10 DEF UsageInv, OffsetsAreBehind, UsageQueue, Appending
  <2>5. UNCHANGED <<source, usageFile, fileTail, rewrite, aside, savedOffset, events, dedupeKeys, offset, loaded, pruned,
                     joinedLines, leftBehind, keyless, apart>>
    BY <1>3 DEF Usage!Scanned, Usage!disk, Usage!memory, Usage!history
  <2> HIDE DEF found
  <2>6. Usage!IsInjective(found)
    BY <1>1, <2>1, <2>2 DEF Usage!IsInjective
  <2>7. 1 .. source \subseteq Known \cup Usage!ToSet(found)
    <3>1. SUFFICES ASSUME NEW n \in 1 .. source, n \notin 1 .. from PROVE n \in Usage!ToSet(found)
      BY <2>4
    <3>2. n - from \in 1 .. source - from /\ n = from + (n - from)
      BY <1>1, <2>1, <3>1
    <3>3. QED BY <2>2, <3>2 DEF Usage!ToSet
  <2>8. r \in Record /\ r.at = "queued" /\ r.to = source /\ r.found = found
    <3>1. source \in 0 .. source
      BY <1>1
    <3>2. QED BY <1>1, <2>2, <3>1
  <2> HIDE DEF r
  <2>9. QED BY <1>1, <2>3, <2>4, <2>5, <2>6, <2>7, <2>8, UsageGoes
<1>4. CASE Usage!ScanFails(c) \/ Usage!PersistFails(c)
  <2> DEFINE r == [refresh[c] EXCEPT !.at = "failed"]
  <2>1. r \in Record /\ r.at = "failed"
    BY <1>1
  <2>2. refresh' = [refresh EXCEPT ![c] = r] /\ ~Appending(c)
    BY <1>4 DEF Usage!ScanFails, Usage!PersistFails, Usage!Goto, Usage!At, Appending
  <2>3. UNCHANGED <<source, usageFile, fileTail, rewrite, aside, events, dedupeKeys, offset, loaded,
                    pruned, joinedLines, leftBehind, keyless, apart>>
    BY <1>4 DEF Usage!ScanFails, Usage!PersistFails, Usage!disk, Usage!memory, Usage!history
  <2>4. savedOffset' \in 0 .. source /\ 1 .. savedOffset' \subseteq Known
    <3>1. CASE UNCHANGED savedOffset
      BY <1>1, <3>1
    <3>2. CASE Usage!At(c, "replacing") /\ savedOffset' \in {refresh[c].had, 0}
      <4>1. refresh[c].had \in 0 .. source /\ 1 .. refresh[c].had \subseteq Known
        BY <3>2 DEF UsageInv, OffsetsAreBehind, Usage!At
      <4>2. 0 \in 0 .. source /\ 1 .. 0 \subseteq Known
        BY <1>1
      <4>3. QED BY <3>2, <4>1, <4>2
    <3>3. QED BY <1>4, <3>1, <3>2 DEF Usage!ScanFails, Usage!PersistFails, Usage!disk
  <2> HIDE DEF r
  <2>5. QED BY <1>1, <2>1, <2>2, <2>3, <2>4, UsageGoes
<1>5. CASE Usage!PersistState(c)
  <2> DEFINE r == [refresh[c] EXCEPT !.at = "done"]
  <2>1. r \in Record /\ r.at = "done"
    BY <1>1
  <2>2. /\ refresh' = [refresh EXCEPT ![c] = r] /\ refresh[c].at \in {"persisting", "replacing"}
        /\ savedOffset' = refresh[c].to
    BY <1>5 DEF Usage!PersistState, Usage!Goto, Usage!At
  <2>3. 1 .. refresh[c].to \subseteq Known /\ refresh[c].to \in 0 .. source /\ ~Appending(c)
    BY <1>1, <2>2 DEF UsageInv, OffsetsAreBehind, Appending
  <2>4. UNCHANGED <<source, usageFile, fileTail, rewrite, aside, events, dedupeKeys, offset, loaded,
                    pruned, joinedLines, leftBehind, keyless, apart>>
    BY <1>5 DEF Usage!PersistState, Usage!memory, Usage!history
  <2> HIDE DEF r
  <2>5. QED BY <1>1, <2>1, <2>2, <2>3, <2>4, UsageGoes
<1>6. CASE Usage!PersistMoves(c)
  <2> DEFINE r == [refresh[c] EXCEPT !.at = "replacing", !.had = savedOffset]
  <2>1. r \in Record /\ r.at = "replacing" /\ r.had = savedOffset /\ r.to = refresh[c].to
    <3>1. savedOffset \in Nat
      BY <1>1
    <3>2. QED BY <1>1, <3>1
  <2>2. /\ refresh' = [refresh EXCEPT ![c] = r] /\ refresh[c].at = "persisting"
        /\ savedOffset' = 0
    BY <1>6 DEF Usage!PersistMoves, Usage!At
  <2>3. 1 .. refresh[c].to \subseteq Known /\ ~Appending(c) /\ loaded
    BY <2>2 DEF UsageInv, UsageQueue, OffsetsAreBehind, Appending
  <2>4. 0 \in 0 .. source /\ 1 .. 0 \subseteq Known
    BY <1>1
  <2>5. UNCHANGED <<source, usageFile, fileTail, rewrite, aside, events, dedupeKeys, offset, loaded,
                    pruned, joinedLines, leftBehind, keyless, apart>>
    BY <1>6 DEF Usage!PersistMoves, Usage!memory, Usage!history
  <2> HIDE DEF r
  <2>6. QED BY <1>1, <2>1, <2>2, <2>3, <2>4, <2>5, UsageGoes
<1>7. QED BY <1>2, <1>3, <1>4, <1>5, <1>6

\* A load that reads the file, and one that is to write it anew first.
LEMMA UsageLoad ==
  ASSUME UsageInv, Usage!Load
  PROVE  UsageInv'
<1> DEFINE kept == Usage!Kept(usageFile)
<1>1. /\ usageFile \in Seq(Nat) /\ Usage!IsInjective(usageFile) /\ events \in Seq(Nat)
      /\ Len(usageFile) \in Nat /\ MaxEvents \in Nat
  BY UsageAssumption DEF UsageInv, UsageTypes, KeysAreKnown
<1>2. /\ kept \in Seq(Nat) /\ Usage!IsInjective(kept)
      /\ Usage!ToSet(kept) \subseteq Usage!ToSet(usageFile)
      /\ Len(usageFile) <= MaxEvents => kept = usageFile
  BY <1>1, KeptOf
<1>3. /\ ~loaded /\ rewrite = "no"
      /\ events' = IF usageFile = <<>> THEN events ELSE kept
      /\ UNCHANGED <<source, usageFile, fileTail, aside, savedOffset, refresh, pruned, joinedLines,
                     leftBehind, apart>>
  BY DEF Usage!Load
<1>4. \/ /\ Len(usageFile) > MaxEvents
         /\ rewrite' = "begun" /\ UNCHANGED <<dedupeKeys, offset, loaded, keyless>>
      \/ /\ Len(usageFile) <= MaxEvents
         /\ loaded' = TRUE /\ dedupeKeys' = Usage!ToSet(usageFile) /\ offset' = savedOffset
         /\ keyless' = (usageFile = <<>> /\ events # <<>>) /\ rewrite' = rewrite
  BY <1>1 DEF Usage!Load, Usage!Remembered
<1>5. \A c \in Refreshes : refresh[c].at \in {"idle", "failed", "done"}
  BY <1>3 DEF UsageInv, UsageQueue
<1>6. Known' = Known
  BY <1>3 DEF Known
<1>7. UsageTypes'
  <2>1. events' \in Seq(Nat) /\ loaded' \in BOOLEAN /\ keyless' \in BOOLEAN
        /\ rewrite' \in {"no", "begun", "moved"} /\ offset' \in 0 .. source
    BY <1>1, <1>2, <1>3, <1>4 DEF UsageInv, UsageTypes
  <2>2. QED BY <1>3, <2>1 DEF UsageInv, UsageTypes
<1>8. UsageQueue'
  BY <1>3, <1>5 DEF UsageQueue, InQueue
<1>9. Usage!IsInjective(<<>>) /\ Usage!ToSet(<<>>) = {} /\ Len(<<>>) = 0
  BY DEF Usage!IsInjective, Usage!ToSet
<1>10. RewriteIsFirst'
  <2>1. Len(usageFile) > MaxEvents => usageFile # <<>>
    BY <1>1, <1>9
  <2>2. rewrite' # "no" => ~loaded' /\ events' = kept /\ rewrite' = "begun"
    BY <1>3, <1>4, <2>1
  <2>3. QED BY <1>3, <1>4, <2>2 DEF UsageInv, RewriteIsFirst, Usage!Content
<1> HIDE DEF kept
<1>11. KeysAreKnown'
  <2>1. loaded' => Usage!ToSet(usageFile') \subseteq dedupeKeys'
    BY <1>3, <1>4
  <2>2. \A n \in dedupeKeys' : n \in Known'
    BY <1>3, <1>4, <1>5, <1>6 DEF UsageInv, KeysAreKnown, Known, Appending
  <2>3. QED BY <1>1, <1>3, <1>5, <2>1, <2>2 DEF KeysAreKnown, Appending
<1>12. OffsetsAreBehind'
  BY <1>3, <1>4, <1>5, <1>6 DEF UsageInv, OffsetsAreBehind
<1>13. ASSUME ~keyless' PROVE MemoryFollows'
  <2>1. CASE usageFile = <<>> /\ ~loaded'
    <3>1. Usage!IsInjective(events)
      BY <1>4, <1>13, <2>1 DEF UsageInv, MemoryFollows
    <3>2. QED BY <1>3, <1>5, <2>1, <3>1 DEF MemoryFollows, Appending
  <2>2. CASE usageFile = <<>> /\ loaded'
    <3>1. events' = <<>>
      BY <1>3, <1>4, <1>13, <2>2
    <3>2. kept = <<>>
      BY <1>2, <1>9, <2>2, UsageAssumption
    <3>3. QED BY <1>3, <1>5, <1>9, <2>2, <3>1, <3>2 DEF MemoryFollows, Appending, kept
  <2>3. CASE usageFile # <<>>
    <3>1. events' = kept
      BY <1>3, <2>3
    <3>2. loaded' => Usage!ToSet(kept) \subseteq dedupeKeys'
      BY <1>2, <1>3, <1>4
    <3>3. QED BY <1>2, <1>3, <1>5, <3>1, <3>2 DEF MemoryFollows, Appending, kept
  <2>4. QED BY <2>1, <2>2, <2>3
<1>14. keyless' => MemoryFollows'
  BY DEF MemoryFollows
<1>15. QED BY <1>7, <1>8, <1>10, <1>11, <1>12, <1>13, <1>14 DEF UsageInv

\* The replacement of the file by a load: its end, and its failure.
LEMMA UsageRewrites ==
  ASSUME UsageInv, Usage!MoveAside \/ Usage!Rewritten \/ Usage!RewriteFails
  PROVE  UsageInv'
<1> DEFINE content == Usage!Content
<1>1. /\ usageFile \in Seq(Nat) /\ aside \in Seq(Nat) /\ events \in Seq(Nat)
      /\ Usage!IsInjective(usageFile) /\ Usage!IsInjective(aside)
      /\ rewrite # "no" /\ ~loaded /\ events = Usage!Kept(content)
      /\ rewrite = "moved" => usageFile = <<>> /\ content = aside
      /\ rewrite # "moved" => aside = <<>> /\ content = usageFile
  BY DEF UsageInv, UsageTypes, KeysAreKnown, RewriteIsFirst, Usage!Content,
    Usage!MoveAside, Usage!Rewritten, Usage!RewriteFails
<1>2. Usage!IsInjective(<<>>) /\ Usage!ToSet(<<>>) = {} /\ <<>> \in Seq(Nat)
  BY DEF Usage!IsInjective, Usage!ToSet
<1>3. /\ content \in Seq(Nat) /\ Usage!IsInjective(content)
      /\ Usage!ToSet(usageFile) \cup Usage!ToSet(aside) = Usage!ToSet(content)
  BY <1>1, <1>2
<1> HIDE DEF content
<1>4. /\ Usage!IsInjective(events) /\ Usage!ToSet(events) \subseteq Usage!ToSet(content)
      /\ Usage!Kept(events) = events
  BY <1>1, <1>3, KeptOf, KeptTwice
<1>5. \A c \in Refreshes : refresh[c].at \in {"idle", "failed", "done"}
  BY <1>1 DEF UsageInv, UsageQueue
<1>6. /\ UNCHANGED <<source, savedOffset, events, refresh, joinedLines, keyless, apart>>
      /\ \/ /\ rewrite' = "moved" /\ aside' = usageFile /\ usageFile' = <<>> /\ rewrite = "begun"
            /\ UNCHANGED <<fileTail, pruned, leftBehind, dedupeKeys, offset, loaded>>
         \/ /\ rewrite' = "no" /\ aside' = <<>> /\ usageFile' = events /\ fileTail' = "none"
            /\ pruned' = pruned \cup (Usage!ToSet(content) \ Usage!ToSet(events))
            /\ loaded' = TRUE /\ dedupeKeys' = Usage!ToSet(events) /\ offset' = savedOffset
            /\ UNCHANGED leftBehind
         \/ /\ rewrite' = "no" /\ aside' = <<>> /\ usageFile' = content
            /\ UNCHANGED <<fileTail, pruned, leftBehind, dedupeKeys, offset, loaded>>
         \/ /\ rewrite' = "no" /\ aside' = <<>> /\ usageFile' = <<>> /\ fileTail' = "none"
            /\ rewrite = "moved" /\ leftBehind' = leftBehind \cup Usage!ToSet(aside)
            /\ UNCHANGED <<pruned, dedupeKeys, offset, loaded>>
  <2>1. CASE Usage!MoveAside
    BY <2>1 DEF Usage!MoveAside, Usage!memory, Usage!history
  <2>2. CASE Usage!Rewritten
    BY <2>2 DEF Usage!Rewritten, Usage!Remembered, content
  <2>3. CASE Usage!RewriteFails
    BY <2>3 DEF Usage!RewriteFails, Usage!memory, content
  <2>4. QED BY <2>1, <2>2, <2>3
<1>7. UsageTypes'
  <2>1. /\ usageFile' \in Seq(Nat) /\ aside' \in Seq(Nat) /\ loaded' \in BOOLEAN
        /\ fileTail' \in {"none", "torn", "whole"} /\ rewrite' \in {"no", "begun", "moved"}
        /\ offset' \in 0 .. source
    BY <1>1, <1>2, <1>3, <1>6 DEF UsageInv, UsageTypes
  <2>2. QED BY <1>6, <2>1 DEF UsageInv, UsageTypes
<1>8. UsageQueue'
  BY <1>5, <1>6 DEF UsageQueue, InQueue
<1>9. RewriteIsFirst'
  BY <1>1, <1>2, <1>6 DEF RewriteIsFirst, Usage!Content
<1>10. Known \subseteq Known'
  <2>1. /\ pruned \subseteq pruned' /\ leftBehind \subseteq leftBehind'
        /\ Usage!ToSet(content) \subseteq
             Usage!ToSet(usageFile') \cup Usage!ToSet(aside') \cup pruned' \cup leftBehind'
    BY <1>1, <1>2, <1>6
  <2>2. QED BY <1>3, <1>6, <2>1 DEF Known
<1>11. KeysAreKnown'
  <2>1. Usage!IsInjective(usageFile') /\ (loaded' => Usage!ToSet(usageFile') \subseteq dedupeKeys')
    BY <1>1, <1>2, <1>3, <1>4, <1>6
  <2>2. Usage!ToSet(events) \subseteq Known
    BY <1>3, <1>4 DEF Known
  <2>3. dedupeKeys \subseteq Known
    BY <1>5 DEF UsageInv, KeysAreKnown, Appending
  <2>4. dedupeKeys' \subseteq Known'
    BY <1>6, <1>10, <2>2, <2>3
  <2>5. QED BY <1>5, <1>6, <2>1, <2>4 DEF KeysAreKnown, Appending
<1>12. OffsetsAreBehind'
  BY <1>5, <1>6, <1>10 DEF UsageInv, OffsetsAreBehind
<1>13. MemoryFollows'
  BY <1>1, <1>4, <1>5, <1>6 DEF MemoryFollows, Appending
<1>14. QED BY <1>7, <1>8, <1>9, <1>11, <1>12, <1>13 DEF UsageInv

LEMMA UsageTake ==
  ASSUME UsageInv, NEW c \in Refreshes, Usage!TakeEvents(c)
  PROVE  UsageInv'
<1> DEFINE found == refresh[c].found
           new == Usage!Unseen(found, dedupeKeys)
<1>1. /\ refresh[c].at = "queued" /\ ~Usage!Busy /\ loaded
      /\ found \in Seq(Nat) /\ Usage!IsInjective(found) /\ events \in Seq(Nat)
      /\ refresh[c].to \in 0 .. source /\ usageFile \in Seq(Nat)
  BY DEF UsageInv, UsageTypes, UsageQueue, KeysAreKnown, Usage!TakeEvents, Usage!Take, Usage!At
<1>2. \A d \in Refreshes : refresh[d].at \notin {"appending", "persisting", "replacing"} /\ ~Appending(d)
  BY <1>1 DEF Usage!Busy, Appending
<1>3. /\ new \in Seq(Nat) /\ Usage!IsInjective(new)
      /\ Usage!ToSet(new) = Usage!ToSet(found) \ dedupeKeys
  BY <1>1, UnseenOf
<1>4. /\ events' = Usage!Kept(events \o new)
      /\ dedupeKeys' = dedupeKeys \cup Usage!ToSet(new)
      /\ refresh' = [refresh EXCEPT ![c] =
           [@ EXCEPT !.at = IF new = <<>> THEN "persisting" ELSE "appending",
                     !.found = new, !.had = Len(events)]]
      /\ offset' = IF new = <<>> THEN refresh[c].to ELSE offset
      /\ UNCHANGED <<source, usageFile, fileTail, rewrite, aside, savedOffset, loaded, pruned,
                     joinedLines, leftBehind, keyless, apart>>
  BY DEF Usage!TakeEvents, Usage!Take, Usage!disk, Usage!history
<1> HIDE DEF found, new
<1>5. /\ events \o new \in Seq(Nat) /\ Len(events \o new) = Len(events) + Len(new)
      /\ \A i \in 1 .. Len(events) : (events \o new)[i] = events[i]
      /\ Usage!ToSet(events \o new) = Usage!ToSet(events) \cup Usage!ToSet(new)
      /\ Usage!IsInjective(events) /\ Usage!ToSet(events) \cap Usage!ToSet(new) = {}
           => Usage!IsInjective(events \o new)
  BY <1>1, <1>3, JoinedOf
<1>6. /\ events' \in Seq(Nat) /\ Usage!ToSet(events') \subseteq Usage!ToSet(events) \cup Usage!ToSet(new)
      /\ Usage!IsInjective(events \o new) => Usage!IsInjective(events')
      /\ Len(events) + Len(new) <= MaxEvents => events' = events \o new
  BY <1>4, <1>5, KeptOf
<1>7. /\ refresh'[c] = [refresh[c] EXCEPT !.at = IF new = <<>> THEN "persisting" ELSE "appending",
                                          !.found = new, !.had = Len(events)]
      /\ \A d \in Refreshes : d # c => refresh'[d] = refresh[d]
  BY <1>4 DEF UsageInv, UsageTypes
<1>8. /\ refresh'[c].at = IF new = <<>> THEN "persisting" ELSE "appending"
      /\ refresh'[c].found = new /\ refresh'[c].to = refresh[c].to /\ refresh'[c].had = Len(events)
      /\ refresh'[c] \in
           [at : {"idle", "scanning", "failed", "queued", "appending", "persisting", "replacing", "done"},
            found : Seq(Nat), to : 0 .. source, had : Nat]
  <2>1. refresh[c] \in
           [at : {"idle", "scanning", "failed", "queued", "appending", "persisting", "replacing", "done"},
            found : Seq(Nat), to : 0 .. source, had : Nat]
    BY DEF UsageInv, UsageTypes
  <2>2. Len(events) \in Nat
    BY <1>1
  <2>3. QED BY <1>3, <1>7, <2>1, <2>2
<1>9. UsageTypes'
  <2>1. refresh' \in [Refreshes ->
           [at : {"idle", "scanning", "failed", "queued", "appending", "persisting", "replacing", "done"},
            found : Seq(Nat), to : 0 .. source, had : Nat]]
    BY <1>4, <1>7, <1>8 DEF UsageInv, UsageTypes
  <2>2. offset' \in 0 .. source
    BY <1>1, <1>4 DEF UsageInv, UsageTypes
  <2>3. QED BY <1>4, <1>6, <2>1, <2>2 DEF UsageInv, UsageTypes
<1>10. UsageQueue'
  BY <1>1, <1>2, <1>4, <1>7 DEF UsageInv, UsageQueue, InQueue
<1>11. Known' = Known /\ dedupeKeys \subseteq Known
  BY <1>2, <1>4 DEF UsageInv, KeysAreKnown, Known
<1>12. new = <<>> => Usage!ToSet(new) = {}
  BY DEF Usage!ToSet
<1>13. \A d \in Refreshes : Appending(d)' <=> (d = c /\ new # <<>>)
  BY <1>2, <1>7, <1>8 DEF Appending
<1>14. KeysAreKnown'
  <2>1. Usage!IsInjective(usageFile') /\ (loaded' => Usage!ToSet(usageFile') \subseteq dedupeKeys')
    BY <1>4 DEF UsageInv, KeysAreKnown
  <2>2. ASSUME NEW n \in dedupeKeys' \ Known'
        PROVE  \E d \in Refreshes : Appending(d)' /\ n \in Usage!ToSet(refresh'[d].found)
    BY <1>4, <1>8, <1>11, <1>12, <1>13, <2>2
  <2>3. ASSUME NEW d \in Refreshes, refresh'[d].at \in {"queued", "appending"}
        PROVE  Usage!IsInjective(refresh'[d].found)
    BY <1>3, <1>7, <1>8, <2>3 DEF UsageInv, KeysAreKnown
  <2>4. ASSUME NEW d \in Refreshes, Appending(d)'
        PROVE  /\ refresh'[d].found # <<>>
               /\ Usage!ToSet(refresh'[d].found) \cap Usage!ToSet(usageFile') = {}
               /\ Usage!ToSet(refresh'[d].found) \subseteq dedupeKeys'
    <3>1. d = c /\ new # <<>> /\ refresh'[d].found = new
      BY <1>8, <1>13, <2>4
    <3>2. Usage!ToSet(usageFile) \subseteq dedupeKeys
      BY <1>1 DEF UsageInv, KeysAreKnown
    <3>3. QED BY <1>3, <1>4, <3>1, <3>2
  <2>5. QED BY <2>1, <2>2, <2>3, <2>4 DEF KeysAreKnown
<1>15. OffsetsAreBehind'
  <2>1. 1 .. refresh[c].to \subseteq Known \cup Usage!ToSet(found)
    BY <1>1 DEF UsageInv, OffsetsAreBehind, found
  <2>2. 1 .. refresh[c].to \subseteq Known \cup Usage!ToSet(new)
    BY <1>3, <1>11, <2>1
  <2>3. 1 .. offset' \subseteq Known
    BY <1>4, <1>12, <2>2 DEF UsageInv, OffsetsAreBehind
  <2>4. QED BY <1>4, <1>7, <1>8, <1>11, <1>12, <2>2, <2>3 DEF UsageInv, OffsetsAreBehind
<1>16. ASSUME ~keyless PROVE MemoryFollows'
  <2>1. Usage!IsInjective(events) /\ Usage!ToSet(events) \subseteq dedupeKeys
    BY <1>1, <1>16 DEF UsageInv, MemoryFollows
  <2>2. Usage!IsInjective(events') /\ Usage!ToSet(events') \subseteq dedupeKeys'
    BY <1>3, <1>4, <1>5, <1>6, <2>1
  <2>3. ASSUME NEW d \in Refreshes, Appending(d)', refresh'[d].had + Len(refresh'[d].found) <= MaxEvents
        PROVE  /\ Len(events') = refresh'[d].had + Len(refresh'[d].found)
               /\ \A i \in 1 .. refresh'[d].had : events'[i] \notin Usage!ToSet(refresh'[d].found)
    <3>1. refresh'[d].had = Len(events) /\ refresh'[d].found = new
      BY <1>8, <1>13, <2>3
    <3>2. events' = events \o new
      BY <1>6, <2>3, <3>1
    <3>3. \A i \in 1 .. Len(events) : events[i] \in Usage!ToSet(events)
      BY <1>1 DEF Usage!ToSet
    <3>4. QED BY <1>3, <1>5, <2>1, <3>1, <3>2, <3>3
  <2>4. ASSUME ~apart'
        PROVE  /\ (\A d \in Refreshes : ~Appending(d)') => events' = Usage!Kept(usageFile')
               /\ \A d \in Refreshes : Appending(d)' =>
                    /\ refresh'[d].had = Len(Usage!Kept(usageFile'))
                    /\ events' = Usage!Kept(Usage!Kept(usageFile') \o refresh'[d].found)
    <3>1. events = Usage!Kept(usageFile)
      BY <1>1, <1>2, <1>4, <1>16, <2>4 DEF UsageInv, MemoryFollows
    <3>2. ASSUME \A d \in Refreshes : ~Appending(d)' PROVE events' = Usage!Kept(usageFile')
      <4>1. new = <<>>
        BY <1>13, <3>2
      <4>2. events \o new = events
        BY <1>1, <4>1
      <4>3. QED BY <1>1, <1>4, <3>1, <4>2, KeptTwice
    <3>3. QED BY <1>4, <1>8, <1>13, <3>1, <3>2
  <2>5. QED BY <2>2, <2>3, <2>4 DEF MemoryFollows
<1>17. keyless => MemoryFollows'
  BY <1>4 DEF MemoryFollows
<1>18. RewriteIsFirst'
  BY <1>1, <1>4 DEF UsageInv, RewriteIsFirst
<1>19. QED BY <1>18, <1>9, <1>10, <1>14, <1>15, <1>16, <1>17 DEF UsageInv

\* The lines before the last.
LEMMA FrontOf ==
  ASSUME NEW S, NEW s \in Seq(S)
  PROVE  /\ Usage!Front(s) \in Seq(S)
         /\ Usage!ToSet(Usage!Front(s)) \subseteq Usage!ToSet(s)
         /\ Usage!ToSet(s) \subseteq Usage!ToSet(Usage!Front(s)) \cup {Usage!Last(s)}
         /\ Usage!IsInjective(s) => Usage!IsInjective(Usage!Front(s))
<1> DEFINE n == Len(s)
           p == Usage!Front(s)
<1>1. n \in Nat /\ DOMAIN s = 1 .. n
  OBVIOUS
<1>2. p = SubSeq(s, 1, n - 1)
  BY DEF Usage!Front
<1>3. /\ p \in Seq(S) /\ Len(p) = IF 1 <= n - 1 THEN n - 1 ELSE 0
      /\ \A i \in 1 .. n - 1 : p[i] = s[i]
  <2>1. n - 1 \in Int /\ \A i \in 1 .. n - 1 : s[i] \in S
    BY <1>1
  <2>2. /\ SubSeq(s, 1, n - 1) \in Seq(S)
        /\ Len(SubSeq(s, 1, n - 1)) = IF 1 <= n - 1 THEN n - 1 - 1 + 1 ELSE 0
        /\ \A i \in 1 .. n - 1 - 1 + 1 : SubSeq(s, 1, n - 1)[i] = s[1 + i - 1]
    BY <2>1, SubSeqProperties
  <2> HIDE DEF n, p
  <2>3. n - 1 - 1 + 1 = n - 1 /\ \A i \in 1 .. n - 1 : 1 + i - 1 = i
    BY <1>1
  <2>4. QED BY <1>2, <2>2, <2>3
<1>4. DOMAIN p = 1 .. n - 1
  <2>1. DOMAIN p = 1 .. Len(p)
    BY <1>3
  <2> HIDE DEF n, p
  <2>2. QED BY <1>1, <1>3, <2>1
<1>5. Usage!Last(s) = s[n]
  BY DEF Usage!Last
<1> HIDE DEF n, p
<1>6. 1 .. n - 1 \subseteq 1 .. n /\ \A i \in 1 .. n : i \in 1 .. n - 1 \/ i = n
  BY <1>1
<1>7. Usage!ToSet(p) \subseteq Usage!ToSet(s) /\ Usage!ToSet(s) \subseteq Usage!ToSet(p) \cup {s[n]}
  BY <1>1, <1>3, <1>4, <1>6 DEF Usage!ToSet
<1>8. Usage!IsInjective(s) => Usage!IsInjective(p)
  BY <1>1, <1>3, <1>4, <1>6 DEF Usage!IsInjective
<1>9. QED BY <1>3, <1>5, <1>7, <1>8 DEF p

\* The lines of an append that are in the file, and the one that it joins to its last.
LEMMA WrittenOf ==
  ASSUME UsageInv, NEW c \in Refreshes, Appending(c), NEW n \in 0 .. Len(refresh[c].found),
         Usage!Written(c, n), joinedLines \cup Usage!Spoilt \subseteq joinedLines',
         pruned' = pruned, Usage!ToSet(aside) \cup leftBehind \subseteq Usage!ToSet(aside') \cup leftBehind'
  PROVE  /\ usageFile' \in Seq(Nat) /\ Usage!IsInjective(usageFile')
         /\ Usage!ToSet(usageFile') \subseteq Usage!ToSet(usageFile) \cup Usage!ToSet(refresh[c].found)
         /\ Known \subseteq Known'
         /\ n = Len(refresh[c].found) =>
              /\ fileTail = "none" \/ refresh[c].found[1] \in joinedLines' =>
                   Usage!ToSet(refresh[c].found) \subseteq Known'
              /\ fileTail = "none" => usageFile' = usageFile \o refresh[c].found
<1> DEFINE found == refresh[c].found
           begins == IF fileTail = "whole" THEN Usage!Front(usageFile) ELSE usageFile
           lost == IF fileTail # "none" /\ n > 0 THEN 1 ELSE 0
           rest == SubSeq(found, 1 + lost, n)
<1>1. usageFile' = begins \o rest
  BY DEF Usage!Written
<1>2. /\ found \in Seq(Nat) /\ usageFile \in Seq(Nat) /\ n \in Nat /\ Len(found) \in Nat /\ n <= Len(found)
      /\ Usage!IsInjective(found) /\ Usage!IsInjective(usageFile) /\ found # <<>>
      /\ Usage!ToSet(found) \cap Usage!ToSet(usageFile) = {}
  BY DEF UsageInv, UsageTypes, KeysAreKnown, Appending
<1>3. /\ lost \in {0, 1} /\ lost <= n /\ lost \in 0 .. Len(found) /\ 1 + lost \in Nat \ {0}
      /\ n \in 0 .. Len(found) /\ (fileTail = "none" => lost = 0)
  BY <1>2
<1>4. /\ begins \in Seq(Nat) /\ Usage!IsInjective(begins)
      /\ Usage!ToSet(begins) \subseteq Usage!ToSet(usageFile)
      /\ Usage!ToSet(usageFile) \subseteq Usage!ToSet(begins) \cup joinedLines'
      /\ fileTail = "none" => begins = usageFile
  <2>1. CASE fileTail = "whole"
    <3>1. Usage!Last(usageFile) \in joinedLines'
      BY <2>1 DEF Usage!Spoilt
    <3>2. QED BY <1>2, <2>1, <3>1, FrontOf
  <2>2. CASE fileTail # "whole"
    BY <1>2, <2>2
  <2>3. QED BY <2>1, <2>2
<1> HIDE DEF found, lost, begins
<1>5. /\ rest \in Seq(Nat) /\ Len(rest) = IF 1 + lost <= n THEN n - (1 + lost) + 1 ELSE 0
      /\ \A i \in 1 .. Len(rest) : rest[i] = found[(1 + lost) - 1 + i]
      /\ Usage!ToSet(rest) \subseteq Usage!ToSet(found) /\ Usage!IsInjective(rest)
  BY <1>2, <1>3, PieceOf
<1>6. n = Len(found) /\ lost = 0 => rest = found
  <2>1. SUFFICES ASSUME n = Len(found), lost = 0 PROVE rest = found
    OBVIOUS
  <2>2. rest = SubSeq(found, 1, Len(found))
    BY <2>1 DEF rest
  <2>3. QED BY <1>2, <2>2, SubSeqFull
<1> HIDE DEF rest
<1>7. /\ begins \o rest \in Seq(Nat)
      /\ Usage!ToSet(begins \o rest) = Usage!ToSet(begins) \cup Usage!ToSet(rest)
      /\ Usage!IsInjective(begins \o rest)
  <2>1. Usage!ToSet(begins) \cap Usage!ToSet(rest) = {}
    BY <1>2, <1>4, <1>5
  <2>2. QED BY <1>4, <1>5, <2>1, JoinedOf
<1>8. Known \subseteq Known' /\ Usage!ToSet(rest) \subseteq Known' /\ joinedLines' \subseteq Known'
  <2>1. /\ Usage!ToSet(usageFile) \subseteq Usage!ToSet(usageFile') \cup joinedLines'
        /\ Usage!ToSet(rest) \subseteq Usage!ToSet(usageFile') /\ joinedLines \subseteq joinedLines'
    BY <1>1, <1>4, <1>7
  <2>2. QED BY <2>1 DEF Known
<1>9. ASSUME n = Len(found), fileTail = "none" \/ found[1] \in joinedLines'
      PROVE  Usage!ToSet(found) \subseteq Known'
  <2>1. CASE lost = 0
    BY <1>6, <1>8, <1>9, <2>1
  <2>2. CASE lost = 1
    <3>1. SUFFICES ASSUME NEW i \in 1 .. Len(found)
                   PROVE  found[i] \in Usage!ToSet(rest) \cup joinedLines'
      BY <1>2, <1>8 DEF Usage!ToSet
    <3>2. CASE i = 1
      BY <1>3, <1>9, <2>2, <3>2
    <3>3. CASE i # 1
      <4>1. i - 1 \in 1 .. Len(rest) /\ (1 + lost) - 1 + (i - 1) = i
        BY <1>2, <1>5, <1>9, <2>2, <3>1, <3>3
      <4>2. rest[i - 1] = found[i]
        BY <1>5, <4>1
      <4>3. QED BY <1>5, <4>1, <4>2 DEF Usage!ToSet
    <3>4. QED BY <3>2, <3>3
  <2>3. QED BY <1>3, <2>1, <2>2
<1>10. ASSUME n = Len(found), fileTail = "none" PROVE usageFile' = usageFile \o found
  BY <1>1, <1>3, <1>4, <1>6, <1>10
<1>11. Usage!ToSet(usageFile') \subseteq Usage!ToSet(usageFile) \cup Usage!ToSet(found)
  BY <1>1, <1>4, <1>5, <1>7
<1>12. QED BY <1>1, <1>7, <1>8, <1>9, <1>10, <1>11 DEF found

LEMMA UsageAppend ==
  ASSUME UsageInv, NEW c \in Refreshes, Usage!AppendEvents(c)
  PROVE  UsageInv'
<1> DEFINE found == refresh[c].found
<1>1. /\ Appending(c) /\ refresh[c].at = "appending" /\ loaded
      /\ found \in Seq(Nat) /\ refresh[c].to \in 0 .. source /\ usageFile \in Seq(Nat)
      /\ Usage!ToSet(found) \subseteq dedupeKeys /\ Usage!ToSet(usageFile) \subseteq dedupeKeys
  BY DEF UsageInv, UsageTypes, UsageQueue, KeysAreKnown, Usage!AppendEvents, Usage!At, Appending
<1>15. Len(found) \in 0 .. Len(found)
  BY <1>1
<1>2. /\ Usage!Written(c, Len(found)) /\ fileTail' = "none" /\ offset' = refresh[c].to
      /\ apart' = (apart \/ fileTail # "none")
      /\ refresh' = [refresh EXCEPT ![c].at = "persisting"]
      /\ UNCHANGED <<source, rewrite, aside, savedOffset, events, dedupeKeys, loaded, pruned,
                     leftBehind, keyless>>
  BY DEF Usage!AppendEvents, Usage!Goto
<1>16. /\ joinedLines \cup Usage!Spoilt \subseteq joinedLines'
       /\ fileTail = "none" \/ found[1] \in joinedLines'
  BY DEF Usage!AppendEvents
<1>3. /\ usageFile' \in Seq(Nat) /\ Usage!IsInjective(usageFile')
      /\ Usage!ToSet(usageFile') \subseteq Usage!ToSet(usageFile) \cup Usage!ToSet(found)
      /\ Known \subseteq Known'
      /\ Usage!ToSet(found) \subseteq Known'
      /\ fileTail = "none" => usageFile' = usageFile \o found
  BY <1>1, <1>2, <1>15, <1>16, WrittenOf
<1> HIDE DEF found
<1>4. /\ refresh'[c] = [refresh[c] EXCEPT !.at = "persisting"]
      /\ \A d \in Refreshes : d # c => refresh'[d] = refresh[d]
  BY <1>2 DEF UsageInv, UsageTypes
<1>5. /\ refresh'[c].at = "persisting" /\ refresh'[c].to = refresh[c].to
      /\ refresh'[c].found = refresh[c].found
      /\ refresh'[c] \in
           [at : {"idle", "scanning", "failed", "queued", "appending", "persisting", "replacing", "done"},
            found : Seq(Nat), to : 0 .. source, had : Nat]
  <2>1. refresh[c] \in
           [at : {"idle", "scanning", "failed", "queued", "appending", "persisting", "replacing", "done"},
            found : Seq(Nat), to : 0 .. source, had : Nat]
    BY DEF UsageInv, UsageTypes
  <2>2. QED BY <1>4, <2>1
<1>6. UsageTypes'
  <2>1. refresh' \in [Refreshes ->
           [at : {"idle", "scanning", "failed", "queued", "appending", "persisting", "replacing", "done"},
            found : Seq(Nat), to : 0 .. source, had : Nat]]
    BY <1>2, <1>4, <1>5 DEF UsageInv, UsageTypes
  <2>2. QED BY <1>1, <1>2, <1>3, <2>1 DEF UsageInv, UsageTypes
<1>7. \A d \in Refreshes : d # c => refresh[d].at \notin {"appending", "persisting", "replacing"}
  BY <1>1 DEF UsageInv, UsageQueue, InQueue
<1>8. UsageQueue'
  BY <1>1, <1>2, <1>4, <1>5, <1>7 DEF UsageInv, UsageQueue, InQueue
<1>9. \A d \in Refreshes : ~Appending(d)'
  BY <1>4, <1>5, <1>7 DEF Appending
<1>10. KeysAreKnown'
  <2>1. ASSUME NEW n \in dedupeKeys PROVE n \in Known'
    <3>1. n \notin Known => n \in Usage!ToSet(found)
      BY <1>7 DEF UsageInv, KeysAreKnown, Appending, found
    <3>2. QED BY <1>3, <3>1
  <2>2. ASSUME NEW d \in Refreshes, refresh'[d].at \in {"queued", "appending"}
        PROVE  Usage!IsInjective(refresh'[d].found)
    BY <1>4, <1>5, <2>2 DEF UsageInv, KeysAreKnown
  <2>3. QED BY <1>1, <1>2, <1>3, <1>9, <2>1, <2>2 DEF KeysAreKnown
<1>11. OffsetsAreBehind'
  <2>1. 1 .. refresh[c].to \subseteq Known \cup Usage!ToSet(found)
    BY <1>1 DEF UsageInv, OffsetsAreBehind, found
  <2>2. 1 .. refresh[c].to \subseteq Known'
    BY <1>3, <2>1
  <2>3. QED BY <1>2, <1>3, <1>4, <1>5, <2>2 DEF UsageInv, OffsetsAreBehind
<1>12. ASSUME ~keyless PROVE MemoryFollows'
  <2>1. Usage!IsInjective(events) /\ Usage!ToSet(events) \subseteq dedupeKeys
    BY <1>1, <1>12 DEF UsageInv, MemoryFollows
  <2>2. ASSUME ~apart' PROVE events = Usage!Kept(usageFile')
    <3>1. ~apart /\ fileTail = "none"
      BY <1>2, <2>2
    <3>2. events = Usage!Kept(Usage!Kept(usageFile) \o found)
      BY <1>1, <1>12, <3>1 DEF UsageInv, MemoryFollows, found
    <3>3. QED BY <1>1, <1>3, <3>1, <3>2, KeptJoins
  <2>3. QED BY <1>2, <1>9, <2>1, <2>2 DEF MemoryFollows
<1>13. keyless => MemoryFollows'
  BY <1>2 DEF MemoryFollows
<1>17. RewriteIsFirst'
  BY <1>1, <1>2 DEF UsageInv, RewriteIsFirst
<1>14. QED BY <1>17, <1>6, <1>8, <1>10, <1>11, <1>12, <1>13 DEF UsageInv

LEMMA UsageAppendFails ==
  ASSUME UsageInv, NEW c \in Refreshes, Usage!AppendFails(c)
  PROVE  UsageInv'
<1> DEFINE found == refresh[c].found
           had == refresh[c].had
<1>1. /\ Appending(c) /\ refresh[c].at = "appending" /\ loaded
      /\ found \in Seq(Nat) /\ had \in Nat /\ usageFile \in Seq(Nat) /\ events \in Seq(Nat)
      /\ Usage!ToSet(usageFile) \subseteq dedupeKeys /\ found # <<>>
      /\ Usage!ToSet(found) \cap Usage!ToSet(usageFile) = {}
  BY DEF UsageInv, UsageTypes, UsageQueue, KeysAreKnown, Usage!AppendFails, Usage!At, Appending
<1>2. /\ events' = IF Len(events) > had THEN SubSeq(events, 1, had) ELSE events
      /\ keyless' = (keyless \/ had + Len(found) > MaxEvents)
      /\ dedupeKeys' = dedupeKeys \ Usage!ToSet(found)
      /\ refresh' = [refresh EXCEPT ![c].at = "failed"]
      /\ UNCHANGED <<source, usageFile, fileTail, rewrite, aside, savedOffset, offset, loaded, pruned,
                     joinedLines, leftBehind, apart>>
  BY DEF Usage!AppendFails, Usage!Goto, Usage!disk
<1>3. /\ refresh'[c] = [refresh[c] EXCEPT !.at = "failed"]
      /\ \A d \in Refreshes : d # c => refresh'[d] = refresh[d]
  BY <1>2 DEF UsageInv, UsageTypes
<1>4. /\ refresh'[c].at = "failed"
      /\ refresh'[c] \in
           [at : {"idle", "scanning", "failed", "queued", "appending", "persisting", "replacing", "done"},
            found : Seq(Nat), to : 0 .. source, had : Nat]
  <2>1. refresh[c] \in
           [at : {"idle", "scanning", "failed", "queued", "appending", "persisting", "replacing", "done"},
            found : Seq(Nat), to : 0 .. source, had : Nat]
    BY DEF UsageInv, UsageTypes
  <2>2. QED BY <1>3, <2>1
<1>5. \A d \in Refreshes : d # c => refresh[d].at \notin {"appending", "persisting", "replacing"}
  BY <1>1 DEF UsageInv, UsageQueue, InQueue
<1>6. \A d \in Refreshes : ~Appending(d)'
  BY <1>3, <1>4, <1>5 DEF Appending
<1> HIDE DEF found, had
<1>7. ASSUME Len(events) > had
      PROVE  /\ SubSeq(events, 1, had) \in Seq(Nat) /\ Len(SubSeq(events, 1, had)) = had
             /\ \A i \in 1 .. had : SubSeq(events, 1, had)[i] = events[i]
             /\ Usage!ToSet(SubSeq(events, 1, had)) \subseteq Usage!ToSet(events)
             /\ Usage!IsInjective(events) => Usage!IsInjective(SubSeq(events, 1, had))
  <2>1. had \in 0 .. Len(events) /\ 1 \in Nat \ {0}
    BY <1>1, <1>7
  <2>2. /\ SubSeq(events, 1, had) \in Seq(Nat)
        /\ Len(SubSeq(events, 1, had)) = IF 1 <= had THEN had - 1 + 1 ELSE 0
        /\ \A i \in 1 .. Len(SubSeq(events, 1, had)) : SubSeq(events, 1, had)[i] = events[1 - 1 + i]
        /\ Usage!ToSet(SubSeq(events, 1, had)) \subseteq Usage!ToSet(events)
        /\ Usage!IsInjective(events) => Usage!IsInjective(SubSeq(events, 1, had))
    BY <1>1, <2>1, PieceOf
  <2>3. Len(SubSeq(events, 1, had)) = had
    BY <1>1, <2>2
  <2>4. \A i \in 1 .. had : 1 - 1 + i = i
    OBVIOUS
  <2>5. QED BY <2>2, <2>3, <2>4
<1>8. events' \in Seq(Nat)
  BY <1>1, <1>2, <1>7
<1>9. UsageTypes'
  <2>1. refresh' \in [Refreshes ->
           [at : {"idle", "scanning", "failed", "queued", "appending", "persisting", "replacing", "done"},
            found : Seq(Nat), to : 0 .. source, had : Nat]]
    BY <1>2, <1>3, <1>4 DEF UsageInv, UsageTypes
  <2>2. keyless' \in BOOLEAN
    BY <1>2
  <2>3. QED BY <1>2, <1>8, <2>1, <2>2 DEF UsageInv, UsageTypes
<1>10. UsageQueue'
  BY <1>1, <1>2, <1>3, <1>4 DEF UsageInv, UsageQueue, InQueue
<1>11. Known' = Known
  BY <1>2 DEF Known
<1>12. KeysAreKnown'
  <2>1. ASSUME NEW n \in dedupeKeys' PROVE n \in Known
    BY <1>2, <1>5, <2>1 DEF UsageInv, KeysAreKnown, Appending, found
  <2>2. ASSUME NEW d \in Refreshes, refresh'[d].at \in {"queued", "appending"}
        PROVE  Usage!IsInjective(refresh'[d].found)
    BY <1>3, <1>4, <2>2 DEF UsageInv, KeysAreKnown
  <2>3. Usage!IsInjective(usageFile') /\ Usage!ToSet(usageFile') \subseteq dedupeKeys'
    BY <1>1, <1>2 DEF UsageInv, KeysAreKnown
  <2>4. QED BY <1>6, <1>11, <2>1, <2>2, <2>3 DEF KeysAreKnown
<1>13. OffsetsAreBehind'
  BY <1>2, <1>3, <1>4, <1>11 DEF UsageInv, OffsetsAreBehind
\* Unless older events had to make place, memory is what it was before the append.
<1>14. ASSUME ~keyless' PROVE MemoryFollows'
  <2>1. ~keyless /\ had + Len(found) <= MaxEvents
    <3>1. had + Len(found) \in Nat /\ MaxEvents \in Nat
      BY <1>1, UsageAssumption
    <3>2. ~keyless /\ ~(had + Len(found) > MaxEvents)
      BY <1>2, <1>14
    <3>3. QED BY <3>1, <3>2
  <2>2. /\ Usage!IsInjective(events) /\ Usage!ToSet(events) \subseteq dedupeKeys
        /\ Len(events) = had + Len(found)
        /\ \A i \in 1 .. had : events[i] \notin Usage!ToSet(found)
    BY <1>1, <2>1 DEF UsageInv, MemoryFollows, found, had
  <2>3. Len(events) > had
    BY <1>1, <2>2
  <2>4. /\ events' = SubSeq(events, 1, had) /\ Len(events') = had
        /\ \A i \in 1 .. had : events'[i] = events[i]
    BY <1>2, <1>7, <2>3
  <2>5. Usage!IsInjective(events')
    BY <1>7, <2>2, <2>3, <2>4
  <2>6. Usage!ToSet(events') \subseteq dedupeKeys'
    <3>1. \A x \in Usage!ToSet(events') : \E i \in 1 .. had : x = events[i]
      BY <1>8, <2>4 DEF Usage!ToSet
    <3>2. Usage!ToSet(events') \subseteq Usage!ToSet(events)
      BY <1>7, <2>3, <2>4
    <3>3. QED BY <1>2, <2>2, <3>1, <3>2
  <2>7. ASSUME ~apart PROVE events' = Usage!Kept(usageFile)
    <3> DEFINE kept == Usage!Kept(usageFile)
    <3>1. had = Len(kept) /\ events = Usage!Kept(kept \o found)
      BY <1>1, <2>1, <2>7 DEF UsageInv, MemoryFollows, found, had
    <3>2. kept \in Seq(Nat)
      BY <1>1, KeptOf
    <3> HIDE DEF kept
    <3>3. /\ kept \o found \in Seq(Nat) /\ Len(kept \o found) = Len(kept) + Len(found)
          /\ \A i \in 1 .. Len(kept) : (kept \o found)[i] = kept[i]
      BY <1>1, <3>2, JoinedOf
    <3>4. events = kept \o found
      BY <2>1, <3>1, <3>3, KeptOf
    <3>5. \A i \in 1 .. Len(events') : events'[i] = kept[i]
      BY <2>4, <3>1, <3>3, <3>4
    <3>6. events' = kept
      BY <1>8, <2>4, <3>1, <3>2, <3>5, SeqEqual
    <3>7. QED BY <3>6 DEF kept
  <2>8. QED BY <1>2, <1>6, <2>5, <2>6, <2>7 DEF MemoryFollows
<1>15. keyless' => MemoryFollows'
  BY DEF MemoryFollows
<1>16. RewriteIsFirst'
  BY <1>1, <1>2 DEF UsageInv, RewriteIsFirst
<1>17. QED BY <1>16, <1>9, <1>10, <1>12, <1>13, <1>14, <1>15 DEF UsageInv

LEMMA UsageRestart ==
  ASSUME UsageInv, Usage!Restart
  PROVE  UsageInv'
<1>1. /\ events' = <<>> /\ dedupeKeys' = {} /\ offset' = 0 /\ loaded' = FALSE
      /\ rewrite' = "no" /\ aside' = <<>> /\ leftBehind' = leftBehind \cup Usage!ToSet(aside)
      /\ keyless' = FALSE /\ apart' = FALSE
      /\ refresh' = [c \in Refreshes |->
           IF refresh[c].at = "idle" THEN refresh[c] ELSE [refresh[c] EXCEPT !.at = "failed"]]
      /\ UNCHANGED <<source, savedOffset, pruned>>
  BY DEF Usage!Restart, Usage!At
<1>5. Usage!IsInjective(<<>>) /\ Usage!ToSet(<<>>) = {} /\ 1 .. 0 = {}
  BY DEF Usage!IsInjective, Usage!ToSet
<1>2. /\ usageFile' \in Seq(Nat) /\ Usage!IsInjective(usageFile')
      /\ fileTail' \in {"none", "torn", "whole"} /\ Known \subseteq Known'
  <2>1. CASE /\ UNCHANGED <<usageFile, joinedLines>>
             /\ fileTail' = IF rewrite = "moved" THEN "none" ELSE fileTail
    <3>1. usageFile' \in Seq(Nat) /\ Usage!IsInjective(usageFile')
      BY <2>1 DEF UsageInv, UsageTypes, KeysAreKnown
    <3>2. fileTail' \in {"none", "torn", "whole"}
      BY <2>1 DEF UsageInv, UsageTypes
    <3>3. Known \subseteq Known'
      BY <1>1, <2>1 DEF Known
    <3>4. QED BY <3>1, <3>2, <3>3
  <2>2. ASSUME NEW c \in Refreshes, NEW n \in 0 .. Len(refresh[c].found), NEW end \in {"none", "torn", "whole"},
               Usage!CutShort(c, n, end)
        PROVE  <1>2
    <3>1. /\ Appending(c) /\ Usage!Written(c, n) /\ fileTail' = end
          /\ joinedLines \cup Usage!Spoilt \subseteq joinedLines'
      BY <2>2 DEF Usage!CutShort, Usage!At, Appending
    <3>2. Usage!ToSet(aside) \cup leftBehind \subseteq Usage!ToSet(aside') \cup leftBehind'
      BY <1>1
    <3>3. /\ usageFile' \in Seq(Nat) /\ Usage!IsInjective(usageFile') /\ Known \subseteq Known'
      BY <1>1, <3>1, <3>2, WrittenOf
    <3>4. QED BY <3>1, <3>3
  <2>3. QED BY <2>1, <2>2 DEF Usage!Restart
<1>3. \A c \in Refreshes : refresh'[c].at \in {"idle", "failed"}
  BY <1>1 DEF UsageInv, UsageTypes
<1>4. UsageTypes'
  <2>1. refresh' \in [Refreshes ->
           [at : {"idle", "scanning", "failed", "queued", "appending", "persisting", "replacing", "done"},
            found : Seq(Nat), to : 0 .. source, had : Nat]]
    BY <1>1 DEF UsageInv, UsageTypes
  <2>2. 0 \in 0 .. source /\ <<>> \in Seq(Nat)
    BY DEF UsageInv, UsageTypes
  <2>3. QED BY <1>1, <1>2, <2>1, <2>2 DEF UsageInv, UsageTypes
<1>6. UsageQueue' /\ RewriteIsFirst' /\ KeysAreKnown'
  BY <1>1, <1>2, <1>3, <1>5 DEF UsageQueue, InQueue, RewriteIsFirst, KeysAreKnown, Appending
<1>7. OffsetsAreBehind'
  BY <1>1, <1>2, <1>3, <1>5 DEF UsageInv, OffsetsAreBehind
<1>8. MemoryFollows'
  BY <1>1, <1>3, <1>5 DEF MemoryFollows, Appending
<1>9. QED BY <1>4, <1>6, <1>7, <1>8 DEF UsageInv

LEMMA UsageStep == UsageInv /\ [Usage!Next]_usageVars => UsageInv'
<1> SUFFICES ASSUME UsageInv, [Usage!Next]_usageVars PROVE UsageInv'
  OBVIOUS
<1>1. CASE UNCHANGED usageVars
  <2>1. UsageTypes' /\ UsageQueue' /\ RewriteIsFirst'
    BY <1>1 DEF usageVars, UsageInv, UsageTypes, UsageQueue, InQueue, RewriteIsFirst, Usage!Content
  <2>2. Known' = Known
    BY <1>1 DEF usageVars, Known
  <2>3. KeysAreKnown'
    BY <1>1, <2>2 DEF usageVars, UsageInv, KeysAreKnown, Appending
  <2>4. OffsetsAreBehind'
    BY <1>1, <2>2 DEF usageVars, UsageInv, OffsetsAreBehind
  <2>5. MemoryFollows'
    BY <1>1 DEF usageVars, UsageInv, MemoryFollows, Appending
  <2>6. QED BY <2>1, <2>3, <2>4, <2>5 DEF UsageInv
<1>2. QED
  BY <1>1, UsageLog, UsageLoad, UsageRewrites, UsageRestart, UsageScans, UsageTake, UsageAppend, UsageAppendFails
  DEF Usage!Next

LEMMA UsageCounts == UsageInv => Usage!CountedOnce /\ Usage!NothingSkipped /\ Usage!MemoryIsFile
  BY DEF UsageInv, KeysAreKnown, OffsetsAreBehind, MemoryFollows, Known, Appending,
    Usage!CountedOnce, Usage!NothingSkipped, Usage!MemoryIsFile, Usage!Busy

\* For any number of refreshes, lines and restarts, and any limit of the store: what an agent
\* logged is counted once, the saved offset is not ahead of the file, and memory has what a
\* load would find, but for the exemptions.
THEOREM UsageSafe == Spec => [](part = "usage" => UsageInv)
<1>1. Init => (part = "usage" => UsageInv)
  BY UsageInitially DEF Init
<1>2. (part = "usage" => UsageInv) /\ [Next]_partVars => (part = "usage" => UsageInv)'
  BY UsageMoves, UsageStep, PartStays
<1>3. QED BY <1>1, <1>2, PTL DEF Spec

-----------------------------------------------------------------------------
(* orchestration-service.ts with the engine: seats, roles and handoffs *)

\* A state in memory or on disk.
Left(x) == x = [plan |-> x.plan, by |-> x.by] /\ LeftByEngine(x.plan)

\* The running operation, and what it is to write or has written.
JobIsSound ==
  /\ job.at \in {"idle", "load", "loaded", "write", "written"}
  /\ job.at = "load" => job.from \in Projects
  /\ job.at = "loaded" => Left(job.state)
  /\ job.at \in {"write", "written"} =>
       /\ job = [at |-> job.at, to |-> job.to, state |-> job.state, phase |-> job.phase]
       /\ job.to \in Projects /\ Left(job.state)
       /\ queue # <<>> /\ Head(queue) \in job.state.by
  /\ job.at = "written" => file[job.to] = job.state
  /\ job.at # "idle" => queue # <<>>

\* A handler that reads a file has a project, and has read what is sound.
CallIsSound(c, x) ==
  /\ x.at = "reading" => ProjectOf[c] # None
  /\ x.at = "read" => Left(x.seen)

OrchestrationInv ==
  /\ projectPath \in Projects \cup {None} /\ clock \in Nat
  /\ DOMAIN file = Projects /\ \A p \in Projects : Left(file[p])
  /\ cache # None => Left(cache)
  /\ queue \in Seq(Calls)
  /\ DOMAIN call = Calls /\ \A c \in Calls : CallIsSound(c, call[c])
  /\ JobIsSound

LEMMA OrchestrationMoves ==
  ASSUME [Next]_partVars, part = "orchestration"
  PROVE  [Orchestra!Next]_orchestrationVars
  BY DEF Next, partVars, orchestrationVars

LEMMA HandoffOf ==
  ASSUME NEW done \in Seq([at : Nat, nr : Nat]), NEW i \in 1 .. Len(done)
  PROVE  done[i].at \in Nat /\ done[i].nr \in Nat
<1> DEFINE S == [at : Nat, nr : Nat]
<1> HIDE DEF S
<1>1. done \in Seq(S)
  BY DEF S
<1>2. done[i] \in S
  BY <1>1
<1>3. QED BY <1>2 DEF S

\* More events leave what is spaced as it is.
LEMMA SpacedLonger ==
  ASSUME NEW done \in Seq([at : Nat, nr : Nat]), NEW cold, NEW m \in Nat, NEW n \in Nat, m <= n,
         Spaced(done, cold, m)
  PROVE  Spaced(done, cold, n)
<1>1. \A i \in 1 .. Len(done) : done[i].nr \in Nat
  BY HandoffOf
<1>2. \A i \in 1 .. Len(done) : done[i].nr <= m
  BY DEF Spaced
<1>3. \A i \in 1 .. Len(done) : done[i].nr <= n
  BY <1>1, <1>2
<1>4. QED BY <1>3 DEF Spaced

\* A change of roles and seats, and of the number of events, that keeps the handoffs.
LEMMA SeatsChange ==
  ASSUME NEW st, LeftByEngine(st), NEW x,
         x = [enabled |-> x.enabled, roles |-> x.roles, seats |-> x.seats,
              cooldown |-> x.cooldown, logged |-> x.logged, handoffs |-> x.handoffs],
         x.enabled \in BOOLEAN, DOMAIN x.roles = Roles,
         \A r \in Roles : x.roles[r] \in DOMAIN x.seats \cup {None},
         x.cooldown = st.cooldown, x.handoffs = st.handoffs,
         x.logged \in Nat, st.logged <= x.logged
  PROVE  LeftByEngine(x)
<1>1. ASSUME NEW r \in Roles PROVE Spaced(x.handoffs[r], x.cooldown[r], x.logged)
  <2>1. /\ st.handoffs[r] \in Seq([at : Nat, nr : Nat]) /\ st.logged \in Nat
        /\ Spaced(st.handoffs[r], st.cooldown[r], st.logged)
    BY DEF LeftByEngine
  <2>2. QED BY <2>1, SpacedLonger
<1>2. st.cooldown \in [Roles -> Nat] /\ st.handoffs \in [Roles -> Seq([at : Nat, nr : Nat])]
  BY DEF LeftByEngine
<1>3. QED BY <1>1, <1>2 DEF LeftByEngine

LEMMA LogLeaves ==
  ASSUME NEW st, LeftByEngine(st), NEW n \in Nat
  PROVE  /\ Orchestra!Log(st, n) =
              [enabled |-> st.enabled, roles |-> st.roles, seats |-> st.seats,
               cooldown |-> st.cooldown, logged |-> st.logged + n, handoffs |-> st.handoffs]
         /\ LeftByEngine(Orchestra!Log(st, n))
<1> DEFINE x == Orchestra!Log(st, n)
<1>1. x = [enabled |-> st.enabled, roles |-> st.roles, seats |-> st.seats,
           cooldown |-> st.cooldown, logged |-> st.logged + n, handoffs |-> st.handoffs]
  <2>1. st = [enabled |-> st.enabled, roles |-> st.roles, seats |-> st.seats,
              cooldown |-> st.cooldown, logged |-> st.logged, handoffs |-> st.handoffs]
    BY DEF LeftByEngine
  <2>2. [st EXCEPT !.logged = @ + n] =
           [enabled |-> st.enabled, roles |-> st.roles, seats |-> st.seats,
            cooldown |-> st.cooldown, logged |-> st.logged + n, handoffs |-> st.handoffs]
    BY <2>1
  <2>3. QED BY <2>2 DEF Orchestra!Log
<1>2. st.logged \in Nat /\ st.logged + n \in Nat /\ st.logged <= st.logged + n
  BY DEF LeftByEngine
<1>3. /\ st.enabled \in BOOLEAN /\ DOMAIN st.roles = Roles
      /\ \A r \in Roles : st.roles[r] \in DOMAIN st.seats \cup {None}
  BY DEF LeftByEngine
<1> HIDE DEF x
<1>4. /\ x = [enabled |-> x.enabled, roles |-> x.roles, seats |-> x.seats,
              cooldown |-> x.cooldown, logged |-> x.logged, handoffs |-> x.handoffs]
      /\ x.enabled = st.enabled /\ x.roles = st.roles /\ x.seats = st.seats
      /\ x.cooldown = st.cooldown /\ x.handoffs = st.handoffs /\ x.logged = st.logged + n
  BY <1>1
<1>5. LeftByEngine(x)
  BY <1>2, <1>3, <1>4, SeatsChange
<1>6. QED BY <1>1, <1>5 DEF x

LEMMA SetEnabledLeaves ==
  ASSUME NEW st, LeftByEngine(st), NEW on \in BOOLEAN
  PROVE  LeftByEngine(Orchestra!SetEnabled(st, on))
<1> DEFINE l == Orchestra!Log(st, 1)
           x == Orchestra!SetEnabled(st, on)
<1>1. LeftByEngine(l)
  BY LogLeaves
<1>2. x = [l EXCEPT !.enabled = on]
  BY DEF Orchestra!SetEnabled
<1> HIDE DEF x, l
<1>3. /\ x = [enabled |-> x.enabled, roles |-> x.roles, seats |-> x.seats,
              cooldown |-> x.cooldown, logged |-> x.logged, handoffs |-> x.handoffs]
      /\ x.enabled = on /\ x.roles = l.roles /\ x.seats = l.seats
      /\ x.cooldown = l.cooldown /\ x.handoffs = l.handoffs /\ x.logged = l.logged
  BY <1>1, <1>2 DEF LeftByEngine
<1>4. l.logged \in Nat /\ l.logged <= x.logged
  BY <1>1, <1>3 DEF LeftByEngine
<1>5. LeftByEngine(x)
  BY <1>1, <1>3, <1>4, SeatsChange DEF LeftByEngine
<1>6. QED BY <1>5 DEF x

\* Changes of seats that lose none.
LEMMA SeatsGrow ==
  ASSUME NEW st, LeftByEngine(st), NEW seats, DOMAIN st.seats \subseteq DOMAIN seats
  PROVE  LeftByEngine([st EXCEPT !.seats = seats])
<1> DEFINE x == [st EXCEPT !.seats = seats]
<1>1. /\ x = [enabled |-> x.enabled, roles |-> x.roles, seats |-> x.seats,
              cooldown |-> x.cooldown, logged |-> x.logged, handoffs |-> x.handoffs]
      /\ x.enabled = st.enabled /\ x.roles = st.roles /\ x.seats = seats
      /\ x.cooldown = st.cooldown /\ x.handoffs = st.handoffs /\ x.logged = st.logged
  BY DEF LeftByEngine
<1> HIDE DEF x
<1>2. x.logged \in Nat /\ st.logged <= x.logged
  BY <1>1 DEF LeftByEngine
<1>3. LeftByEngine(x)
  BY <1>1, <1>2, SeatsChange DEF LeftByEngine
<1>4. QED BY <1>3 DEF x

LEMMA UpsertSeatLeaves ==
  ASSUME NEW st, LeftByEngine(st), NEW s, NEW r
  PROVE  LeftByEngine(Orchestra!UpsertSeat(st, s, r))
<1> DEFINE n == IF Orchestra!Known(st, s) /\ st.seats[s].role = r THEN 0 ELSE 1
           l == Orchestra!Log(st, n)
           seats == [t \in DOMAIN l.seats \cup {s} |->
                       IF t # s THEN l.seats[t]
                       ELSE IF Orchestra!Known(st, s) THEN [l.seats[s] EXCEPT !.role = r]
                       ELSE Orchestra!NewSeat(r)]
<1>1. Orchestra!UpsertSeat(st, s, r) = [l EXCEPT !.seats = seats]
  BY DEF Orchestra!UpsertSeat
<1>2. DOMAIN l.seats \subseteq DOMAIN seats
  OBVIOUS
<1>3. LeftByEngine(l)
  <2>1. n \in Nat
    OBVIOUS
  <2> HIDE DEF n
  <2>2. QED BY <2>1, LogLeaves
<1> HIDE DEF seats, l
<1>4. QED BY <1>1, <1>2, <1>3, SeatsGrow

LEMMA UpdateQuotaLeaves ==
  ASSUME NEW st, LeftByEngine(st), NEW s, NEW spent
  PROVE  LeftByEngine(Orchestra!UpdateQuota(st, s, spent))
<1> DEFINE l == Orchestra!Log(st, 1)
           seats == [l.seats EXCEPT ![s].spent = spent]
<1>1. CASE Orchestra!Known(st, s)
  <2>1. LeftByEngine(l)
    BY LogLeaves
  <2>2. Orchestra!UpdateQuota(st, s, spent) = [l EXCEPT !.seats = seats]
    BY <1>1 DEF Orchestra!UpdateQuota
  <2>3. DOMAIN l.seats \subseteq DOMAIN seats
    OBVIOUS
  <2> HIDE DEF seats, l
  <2>4. QED BY <2>1, <2>2, <2>3, SeatsGrow
<1>2. CASE ~Orchestra!Known(st, s)
  BY <1>2 DEF Orchestra!UpdateQuota
<1>3. QED BY <1>1, <1>2

LEMMA ReportSeatSuccessLeaves ==
  ASSUME NEW st, LeftByEngine(st), NEW s
  PROVE  LeftByEngine(Orchestra!ReportSeatSuccess(st, s))
<1> DEFINE seats == [st.seats EXCEPT ![s].failures = 0, ![s].openUntil = 0]
<1>1. CASE Orchestra!Known(st, s)
  <2>1. Orchestra!ReportSeatSuccess(st, s) = [st EXCEPT !.seats = seats]
    BY <1>1 DEF Orchestra!ReportSeatSuccess, LeftByEngine
  <2>2. DOMAIN st.seats \subseteq DOMAIN seats
    OBVIOUS
  <2> HIDE DEF seats
  <2>3. QED BY <2>1, <2>2, SeatsGrow
<1>2. CASE ~Orchestra!Known(st, s)
  BY <1>2 DEF Orchestra!ReportSeatSuccess
<1>3. QED BY <1>1, <1>2

LEMMA ReportSeatFailureLeaves ==
  ASSUME NEW st, LeftByEngine(st), NEW s, NEW now
  PROVE  LeftByEngine(Orchestra!ReportSeatFailure(st, s, now))
<1> DEFINE count == st.seats[s].failures + 1
           few == [st.seats EXCEPT ![s].failures = count]
           l == Orchestra!Log(st, 1)
           many == [l.seats EXCEPT ![s].failures = Threshold, ![s].openUntil = now + Cooldown]
<1>1. CASE ~Orchestra!Known(st, s)
  BY <1>1 DEF Orchestra!ReportSeatFailure
<1>2. CASE Orchestra!Known(st, s) /\ count < Threshold
  <2>1. Orchestra!ReportSeatFailure(st, s, now) = [st EXCEPT !.seats = few]
    BY <1>2 DEF Orchestra!ReportSeatFailure
  <2>2. DOMAIN st.seats \subseteq DOMAIN few
    OBVIOUS
  <2> HIDE DEF few
  <2>3. QED BY <2>1, <2>2, SeatsGrow
<1>3. CASE Orchestra!Known(st, s) /\ ~(count < Threshold)
  <2>1. LeftByEngine(l)
    BY LogLeaves
  <2>2. Orchestra!ReportSeatFailure(st, s, now) =
          [l EXCEPT !.seats[s].failures = Threshold, !.seats[s].openUntil = now + Cooldown]
    BY <1>3 DEF Orchestra!ReportSeatFailure
  <2>3. DOMAIN l.seats \subseteq DOMAIN many
    OBVIOUS
  <2> HIDE DEF l
  <2>4. Orchestra!ReportSeatFailure(st, s, now) = [l EXCEPT !.seats = many]
    BY <2>1, <2>2 DEF LeftByEngine
  <2> HIDE DEF many
  <2>5. QED BY <2>1, <2>3, <2>4, SeatsGrow
<1>4. QED BY <1>1, <1>2, <1>3

\* A role is taken from a seat that goes.
LEMMA RemoveSeatLeaves ==
  ASSUME NEW st, LeftByEngine(st), NEW s
  PROVE  LeftByEngine(Orchestra!RemoveSeat(st, s))
<1>1. CASE ~Orchestra!Known(st, s)
  BY <1>1 DEF Orchestra!RemoveSeat
<1>2. CASE Orchestra!Known(st, s)
  <2> DEFINE x == Orchestra!RemoveSeat(st, s)
             vacated == {r \in Roles : st.roles[r] = s}
             n == 1 + Cardinality(vacated)
             l == Orchestra!Log(st, n)
             seats == [t \in DOMAIN l.seats \ {s} |-> l.seats[t]]
             roles == [r \in Roles |-> IF l.roles[r] = s THEN None ELSE l.roles[r]]
  <2>1. n \in Nat
    <3>1. IsFiniteSet(Roles) /\ vacated \subseteq Roles
      BY OrchestrationAssumption
    <3> HIDE DEF vacated
    <3>2. Cardinality(vacated) \in Nat
      BY <3>1, FS_Subset, FS_CardinalityType
    <3>3. QED BY <3>2
  <2>2. x = [l EXCEPT !.seats = seats, !.roles = roles]
    BY <1>2 DEF Orchestra!RemoveSeat, Orchestra!Cardinality, Cardinality
  <2> HIDE DEF n
  <2>3. LeftByEngine(l)
    BY <2>1, LogLeaves
  <2> HIDE DEF l
  <2>4. DOMAIN roles = Roles /\ \A r \in Roles : roles[r] \in DOMAIN seats \cup {None}
    BY <2>3 DEF LeftByEngine
  <2> HIDE DEF seats, roles, x
  <2>5. /\ x = [enabled |-> x.enabled, roles |-> x.roles, seats |-> x.seats,
                cooldown |-> x.cooldown, logged |-> x.logged, handoffs |-> x.handoffs]
        /\ x.enabled = l.enabled /\ x.seats = seats /\ x.roles = roles
        /\ x.cooldown = l.cooldown /\ x.handoffs = l.handoffs /\ x.logged = l.logged
    BY <2>2, <2>3 DEF LeftByEngine
  <2>6. l.enabled \in BOOLEAN /\ l.logged \in Nat /\ l.logged <= x.logged
    BY <2>3, <2>5 DEF LeftByEngine
  <2>7. LeftByEngine(x)
    BY <2>3, <2>4, <2>5, <2>6, SeatsChange
  <2>8. QED BY <2>7 DEF x
<1>3. QED BY <1>1, <1>2

\* A role goes to a seat that exists, or to none.
LEMMA AssignRoleLeaves ==
  ASSUME NEW st, LeftByEngine(st), NEW r, NEW s
  PROVE  LeftByEngine(Orchestra!AssignRole(st, r, s))
<1> DEFINE x == Orchestra!AssignRole(st, r, s)
           l == Orchestra!Log(st, 1)
<1>1. CASE s = None \/ Orchestra!Known(st, s)
  <2>1. LeftByEngine(l) /\ l.seats = st.seats
    <3>1. /\ LeftByEngine(l)
          /\ l = [enabled |-> st.enabled, roles |-> st.roles, seats |-> st.seats,
                  cooldown |-> st.cooldown, logged |-> st.logged + 1, handoffs |-> st.handoffs]
      BY LogLeaves
    <3> HIDE DEF l
    <3>2. QED BY <3>1
  <2>2. /\ x = [enabled |-> x.enabled, roles |-> x.roles, seats |-> x.seats,
                cooldown |-> x.cooldown, logged |-> x.logged, handoffs |-> x.handoffs]
        /\ x.enabled = l.enabled /\ DOMAIN x.seats = DOMAIN l.seats
        /\ x.roles = [l.roles EXCEPT ![r] = s]
        /\ x.cooldown = l.cooldown /\ x.handoffs = l.handoffs /\ x.logged = l.logged
    <3>1. CASE s = None
      <4>1. x = [l EXCEPT !.roles[r] = None]
        BY <3>1 DEF Orchestra!AssignRole
      <4> HIDE DEF x, l
      <4>2. QED BY <2>1, <3>1, <4>1 DEF LeftByEngine
    <3>2. CASE s # None /\ Orchestra!Known(st, s)
      <4>1. x = [l EXCEPT !.roles[r] = s, !.seats[s].role = r]
        BY <3>2 DEF Orchestra!AssignRole
      <4> HIDE DEF x, l
      <4>2. QED BY <2>1, <4>1 DEF LeftByEngine
    <3>3. QED BY <1>1, <3>1, <3>2
  <2> HIDE DEF x, l
  <2>3. DOMAIN x.roles = Roles /\ x.enabled \in BOOLEAN
    BY <2>1, <2>2 DEF LeftByEngine
  <2>4. \A q \in Roles : x.roles[q] \in DOMAIN x.seats \cup {None}
    BY <1>1, <2>1, <2>2 DEF LeftByEngine, Orchestra!Known
  <2>5. l.logged \in Nat /\ l.logged <= x.logged
    BY <2>1, <2>2 DEF LeftByEngine
  <2>6. LeftByEngine(x)
    BY <2>1, <2>2, <2>3, <2>4, <2>5, SeatsChange
  <2>7. QED BY <2>6 DEF x
<1>2. CASE s # None /\ ~Orchestra!Known(st, s)
  BY <1>2 DEF Orchestra!AssignRole
<1>3. QED BY <1>1, <1>2

\* One more handoff, past the cooldown and below the limit of an hour.
LEMMA SpacedOn ==
  ASSUME NEW done \in Seq([at : Nat, nr : Nat]), NEW cold \in Nat, NEW n \in Nat, cold <= n,
         NEW k \in Nat, NEW nr \in Nat, k < nr, Spaced(done, cold, k),
         ~(Cardinality({i \in 1 .. Len(done) :
                          done[i].nr > k - EventLimit /\ done[i].at >= n - Hour}) >= MaxPerHour)
  PROVE  LET more == Append(done, [at |-> n, nr |-> nr]) IN
         more \in Seq([at : Nat, nr : Nat]) /\ Spaced(more, n + Cooldown, nr)
<1> DEFINE on == Append(done, [at |-> n, nr |-> nr])
           m == Len(done)
           AtOf(i) == done[i].at
           NrOf(i) == done[i].nr
           Counted == {i \in 1 .. m : done[i].nr > k - EventLimit /\ done[i].at >= n - Hour}
<1>1. Cooldown \in Nat /\ Hour \in Nat /\ MaxPerHour \in Nat /\ EventLimit \in Nat
  BY OrchestrationAssumption
<1>2. /\ on \in Seq([at : Nat, nr : Nat]) /\ Len(on) = m + 1 /\ m \in Nat
      /\ on[m + 1].at = n /\ on[m + 1].nr = nr
      /\ \A i \in 1 .. m : on[i] = done[i] /\ done[i].at \in Nat /\ done[i].nr \in Nat
  <2>2. \A i \in 1 .. m : done[i].at \in Nat /\ done[i].nr \in Nat
    BY HandoffOf
  <2>3. [at |-> n, nr |-> nr] \in [at : Nat, nr : Nat]
    OBVIOUS
  <2>4. /\ on \in Seq([at : Nat, nr : Nat]) /\ Len(on) = m + 1 /\ m \in Nat
        /\ on[m + 1] = [at |-> n, nr |-> nr] /\ \A i \in 1 .. m : on[i] = done[i]
    BY <2>3
  <2> HIDE DEF on, m
  <2>5. QED BY <2>2, <2>4
<1>3. IsFiniteSet(1 .. m) /\ IsFiniteSet(Counted) /\ Cardinality(Counted) \in Nat
  <2>1. IsFiniteSet(1 .. m)
    BY <1>2, FS_Interval
  <2>2. Counted \subseteq 1 .. m
    OBVIOUS
  <2> HIDE DEF Counted
  <2>3. QED BY <2>1, <2>2, FS_Subset, FS_CardinalityType
<1>4. Cardinality(Counted) < MaxPerHour
  <2>1. ~(Cardinality(Counted) >= MaxPerHour)
    OBVIOUS
  <2> HIDE DEF Counted
  <2>2. QED BY <1>1, <1>3, <2>1
<1>5. /\ \A i \in 1 .. m : AtOf(i) + Cooldown <= cold /\ NrOf(i) <= k
      /\ \A i, j \in 1 .. m :
           /\ i < j => AtOf(i) + Cooldown <= AtOf(j) /\ NrOf(i) < NrOf(j)
           /\ j - i >= MaxPerHour /\ NrOf(j) - NrOf(i) < EventLimit =>
                AtOf(i) + Hour < AtOf(j)
  BY DEF Spaced
<1>12. /\ \A i \in 1 .. m : on[i].at = AtOf(i) /\ on[i].nr = NrOf(i) /\ AtOf(i) \in Nat /\ NrOf(i) \in Nat
       /\ \A i : i \in Counted <=> i \in 1 .. m /\ NrOf(i) > k - EventLimit /\ AtOf(i) >= n - Hour
  BY <1>2
<1> HIDE DEF on, m, AtOf, NrOf, Counted
\* A handoff so many before this one, and still among the events, is more than an hour old.
<1>6. ASSUME NEW i \in 1 .. m, (m + 1) - i >= MaxPerHour, nr - NrOf(i) < EventLimit
      PROVE  AtOf(i) + Hour < n
  <2> SUFFICES ASSUME ~(AtOf(i) + Hour < n) PROVE FALSE
    OBVIOUS
  <2>1. AtOf(i) >= n - Hour /\ NrOf(i) > k - EventLimit
    BY <1>1, <1>6, <1>12
  <2>2. ASSUME NEW j \in i .. m PROVE j \in Counted
    <3>1. j \in 1 .. m /\ (j = i \/ i < j)
      BY <1>2
    <3>2. AtOf(j) >= AtOf(i) /\ NrOf(j) >= NrOf(i)
      <4>1. CASE j = i
        BY <1>12, <4>1
      <4>2. CASE i < j
        <5>1. AtOf(i) + Cooldown <= AtOf(j) /\ NrOf(i) < NrOf(j)
          BY <1>5, <3>1, <4>2
        <5>2. AtOf(i) \in Nat /\ AtOf(j) \in Nat /\ NrOf(i) \in Nat /\ NrOf(j) \in Nat
          BY <1>12, <3>1
        <5>3. QED BY <1>1, <5>1, <5>2
      <4>3. QED BY <3>1, <4>1, <4>2
    <3>3. AtOf(i) \in Nat /\ AtOf(j) \in Nat /\ NrOf(i) \in Nat /\ NrOf(j) \in Nat
      BY <1>12, <3>1
    <3>4. AtOf(j) >= n - Hour /\ NrOf(j) > k - EventLimit
      BY <1>1, <2>1, <3>2, <3>3
    <3>5. QED BY <1>12, <3>1, <3>4
  <2>3. i .. m \subseteq Counted
    BY <2>2
  <2>4. Cardinality(i .. m) = m - i + 1
    BY <1>2, FS_Interval
  <2>5. Cardinality(i .. m) <= Cardinality(Counted)
    BY <1>3, <2>3, FS_Subset
  <2>6. QED BY <1>1, <1>2, <1>3, <1>4, <1>6, <2>4, <2>5
<1>7. ASSUME NEW i \in 1 .. m
      PROVE  /\ on[i].at = AtOf(i) /\ on[i].nr = NrOf(i) /\ AtOf(i) \in Nat /\ NrOf(i) \in Nat
             /\ AtOf(i) + Cooldown <= n /\ NrOf(i) < nr
  <2>1. /\ AtOf(i) + Cooldown <= cold /\ NrOf(i) <= k /\ AtOf(i) \in Nat /\ NrOf(i) \in Nat
        /\ on[i].at = AtOf(i) /\ on[i].nr = NrOf(i)
    BY <1>5, <1>12
  <2>2. AtOf(i) + Cooldown <= n
    BY <1>1, <2>1
  <2>3. NrOf(i) < nr
    BY <2>1
  <2>4. QED BY <2>1, <2>2, <2>3
<1>8. ASSUME NEW i \in 1 .. m + 1 PROVE on[i].at + Cooldown <= n + Cooldown /\ on[i].nr <= nr
  <2>1. CASE i \in 1 .. m
    BY <1>1, <1>7, <2>1
  <2>2. CASE i = m + 1
    BY <1>1, <1>2, <2>2
  <2>3. QED BY <1>2, <1>8, <2>1, <2>2
<1>9. ASSUME NEW i \in 1 .. m + 1, NEW j \in 1 .. m + 1
      PROVE  /\ i < j => on[i].at + Cooldown <= on[j].at /\ on[i].nr < on[j].nr
             /\ j - i >= MaxPerHour /\ on[j].nr - on[i].nr < EventLimit => on[i].at + Hour < on[j].at
  <2>1. CASE i \in 1 .. m /\ j \in 1 .. m
    BY <1>5, <1>12, <2>1
  <2>2. CASE i \in 1 .. m /\ j = m + 1
    <3>1. on[i].at = AtOf(i) /\ on[i].nr = NrOf(i) /\ AtOf(i) + Cooldown <= n /\ NrOf(i) < nr
      BY <1>7, <2>2
    <3>2. on[j].at = n /\ on[j].nr = nr
      BY <1>2, <2>2
    <3>3. (m + 1) - i >= MaxPerHour /\ nr - NrOf(i) < EventLimit => AtOf(i) + Hour < n
      BY <1>6, <2>2
    <3>4. QED BY <2>2, <3>1, <3>2, <3>3
  <2>3. CASE i = m + 1
    <3>1. ~(i < j)
      BY <1>2, <2>3
    <3>2. ~(j - i >= MaxPerHour)
      BY <1>1, <1>2, <1>3, <1>4, <2>3
    <3>3. QED BY <3>1, <3>2
  <2>4. QED BY <1>2, <1>9, <2>1, <2>2, <2>3
<1>10. Spaced(on, n + Cooldown, nr)
  BY <1>2, <1>8, <1>9 DEF Spaced
<1>11. QED BY <1>2, <1>10 DEF on

\* A handoff leaves no role with a seat that is gone, and is spaced.
LEMMA HandOverLeaves ==
  ASSUME NEW st, LeftByEngine(st), NEW s, NEW t, NEW n \in Nat, Orchestra!Known(st, t),
         ~Orchestra!Blocked(st, st.seats[s].role, n)
  PROVE  LeftByEngine(Orchestra!HandOver(st, s, t, n))
<1> DEFINE x == Orchestra!HandOver(st, s, t, n)
           r == st.seats[s].role
           was == st.seats[t].role
           k == st.logged
           nr == k + (IF was # r THEN 2 ELSE 1)
           seats == [st.seats EXCEPT ![s].spent = TRUE,
                                     ![t] = [@ EXCEPT !.role = r, !.failures = 0, !.openUntil = 0]]
           roles == [q \in Roles |->
                      IF q = r THEN t
                      ELSE IF q = was \/ ~Orchestra!Known(st, st.roles[q]) THEN None
                      ELSE st.roles[q]]
           cooldown == [st.cooldown EXCEPT ![r] = n + Cooldown]
           handoffs == [st.handoffs EXCEPT ![r] = Append(@, [at |-> n, nr |-> nr])]
<1>1. st = [enabled |-> st.enabled, roles |-> st.roles, seats |-> st.seats,
            cooldown |-> st.cooldown, logged |-> st.logged, handoffs |-> st.handoffs]
  BY DEF LeftByEngine
<1>2. x = [st EXCEPT !.logged = nr, !.seats = seats, !.roles = roles, !.cooldown = cooldown,
                     !.handoffs = handoffs]
  BY <1>1 DEF Orchestra!HandOver
<1>3. DOMAIN seats = DOMAIN st.seats
  OBVIOUS
<1>4. \A q \in Roles : roles[q] \in DOMAIN st.seats \cup {None}
  BY DEF Orchestra!Known
<1>5. /\ st.cooldown \in [Roles -> Nat] /\ st.handoffs \in [Roles -> Seq([at : Nat, nr : Nat])]
      /\ Cooldown \in Nat /\ n + Cooldown \in Nat /\ k \in Nat
  BY OrchestrationAssumption DEF LeftByEngine
<1>6. nr \in Nat /\ k < nr
  BY <1>5
<1> HIDE DEF nr
<1>7. ASSUME r \in Roles
      PROVE  LET more == Append(st.handoffs[r], [at |-> n, nr |-> nr]) IN
             more \in Seq([at : Nat, nr : Nat]) /\ Spaced(more, n + Cooldown, nr)
  <2> DEFINE old == st.handoffs[r]
             cold == st.cooldown[r]
  <2>1. old \in Seq([at : Nat, nr : Nat]) /\ cold \in Nat
    BY <1>5, <1>7
  <2>2. /\ ~(cold > n)
        /\ ~(Cardinality({i \in DOMAIN old : old[i].nr > k - EventLimit /\ old[i].at >= n - Hour})
              >= MaxPerHour)
    BY DEF Orchestra!Blocked, Orchestra!Recent, Orchestra!Cardinality, Cardinality
  <2>3. Spaced(old, cold, k)
    BY <1>7 DEF LeftByEngine
  <2> HIDE DEF old, cold, r, k
  <2>4. DOMAIN old = 1 .. Len(old) /\ cold <= n
    BY <2>1, <2>2
  <2>5. ~(Cardinality({i \in 1 .. Len(old) : old[i].nr > k - EventLimit /\ old[i].at >= n - Hour})
          >= MaxPerHour)
    BY <2>2, <2>4
  <2>6. /\ Append(old, [at |-> n, nr |-> nr]) \in Seq([at : Nat, nr : Nat])
        /\ Spaced(Append(old, [at |-> n, nr |-> nr]), n + Cooldown, nr)
    BY <1>5, <1>6, <2>1, <2>3, <2>4, <2>5, SpacedOn
  <2>7. QED BY <2>6 DEF old
<1>8. ASSUME NEW q \in Roles
      PROVE  /\ handoffs[q] \in Seq([at : Nat, nr : Nat]) /\ cooldown[q] \in Nat
             /\ Spaced(handoffs[q], cooldown[q], nr)
  <2>1. CASE q = r
    <3>1. handoffs[q] = Append(st.handoffs[r], [at |-> n, nr |-> nr]) /\ cooldown[q] = n + Cooldown
      BY <1>5, <2>1
    <3> HIDE DEF handoffs, cooldown
    <3>2. QED BY <1>5, <1>7, <2>1, <3>1
  <2>2. CASE q # r
    <3>1. handoffs[q] = st.handoffs[q] /\ cooldown[q] = st.cooldown[q]
      BY <1>5, <2>2
    <3>2. /\ st.handoffs[q] \in Seq([at : Nat, nr : Nat]) /\ st.cooldown[q] \in Nat
          /\ Spaced(st.handoffs[q], st.cooldown[q], k)
      BY DEF LeftByEngine
    <3> HIDE DEF handoffs, cooldown, k
    <3>3. Spaced(st.handoffs[q], st.cooldown[q], nr)
      <4>1. k <= nr
        BY <1>5, <1>6
      <4>2. QED BY <1>5, <1>6, <3>2, <4>1, SpacedLonger
    <3>4. QED BY <3>1, <3>2, <3>3
  <2>3. QED BY <2>1, <2>2
<1>9. DOMAIN handoffs = Roles /\ DOMAIN cooldown = Roles /\ DOMAIN roles = Roles
      /\ handoffs = [q \in Roles |-> handoffs[q]] /\ cooldown = [q \in Roles |-> cooldown[q]]
  BY <1>5
<1> HIDE DEF seats, roles, cooldown, handoffs, x, k
<1>10. x = [enabled |-> st.enabled, roles |-> roles, seats |-> seats,
            cooldown |-> cooldown, logged |-> nr, handoffs |-> handoffs]
  BY <1>1, <1>2
<1>11. /\ x = [enabled |-> x.enabled, roles |-> x.roles, seats |-> x.seats,
               cooldown |-> x.cooldown, logged |-> x.logged, handoffs |-> x.handoffs]
       /\ x.enabled = st.enabled /\ x.roles = roles /\ x.seats = seats
       /\ x.cooldown = cooldown /\ x.handoffs = handoffs /\ x.logged = nr
  BY <1>10
<1>12. cooldown \in [Roles -> Nat] /\ handoffs \in [Roles -> Seq([at : Nat, nr : Nat])]
  BY <1>8, <1>9
<1>13. st.enabled \in BOOLEAN
  BY DEF LeftByEngine
<1>14. LeftByEngine(x)
  BY <1>3, <1>4, <1>6, <1>8, <1>9, <1>11, <1>12, <1>13 DEF LeftByEngine
<1>15. QED BY <1>14 DEF x

LEMMA PlanHandoffLeaves ==
  ASSUME NEW st, LeftByEngine(st), NEW s, NEW n \in Nat, NEW healthy,
         NEW h \in Orchestra!PlanHandoff(st, s, n, healthy)
  PROVE  LeftByEngine(h.state)
<1> DEFINE r == st.seats[s].role
           candidates == Orchestra!Eligible(st, r, s, n, healthy)
<1>1. \/ h = [state |-> st, to |-> None]
      \/ h = [state |-> Orchestra!Log(st, 1), to |-> None]
      \/ h = [state |-> Orchestra!UpdateQuota(st, s, TRUE), to |-> None]
      \/ /\ ~Orchestra!Blocked(st, r, n)
         /\ \E t \in candidates : h = [state |-> Orchestra!HandOver(st, s, t, n), to |-> t]
  BY DEF Orchestra!PlanHandoff
<1>2. \A t \in candidates : Orchestra!Known(st, t)
  BY DEF Orchestra!Eligible, Orchestra!Known
<1> HIDE DEF candidates
<1>3. CASE h = [state |-> st, to |-> None]
  BY <1>3
<1>4. CASE h = [state |-> Orchestra!UpdateQuota(st, s, TRUE), to |-> None]
  BY <1>4, UpdateQuotaLeaves
<1>5. ASSUME NEW t \in candidates, ~Orchestra!Blocked(st, r, n),
             h = [state |-> Orchestra!HandOver(st, s, t, n), to |-> t]
      PROVE  LeftByEngine(h.state)
  BY <1>2, <1>5, HandOverLeaves
<1>6. CASE h = [state |-> Orchestra!Log(st, 1), to |-> None]
  BY <1>6, LogLeaves
<1>7. QED BY <1>1, <1>3, <1>4, <1>5, <1>6

Kinds ==
  {"setEnabled", "upsertSeat", "removeSeat", "assignRole", "reportQuota", "turnDone",
   "reportSeatFailure", "reportSeatSuccess", "turnFailed", "reportCodexUsage"}

LEMMA PlanWith ==
  ASSUME NEW st, LeftByEngine(st), NEW seats, NEW n
  PROVE  [st EXCEPT !.seats = seats, !.logged = @ + n] =
           [enabled |-> st.enabled, roles |-> st.roles, seats |-> seats,
            cooldown |-> st.cooldown, logged |-> st.logged + n, handoffs |-> st.handoffs]
<1> DEFINE u == [st EXCEPT !.seats = seats]
<1>1. st = [enabled |-> st.enabled, roles |-> st.roles, seats |-> st.seats,
            cooldown |-> st.cooldown, logged |-> st.logged, handoffs |-> st.handoffs]
  BY DEF LeftByEngine
<1>2. u = [enabled |-> st.enabled, roles |-> st.roles, seats |-> seats,
           cooldown |-> st.cooldown, logged |-> st.logged, handoffs |-> st.handoffs]
  BY <1>1
<1>3. [st EXCEPT !.seats = seats, !.logged = @ + n] = [u EXCEPT !.logged = @ + n]
  OBVIOUS
<1> HIDE DEF u
<1>4. [u EXCEPT !.logged = @ + n] =
        [enabled |-> st.enabled, roles |-> st.roles, seats |-> seats,
         cooldown |-> st.cooldown, logged |-> st.logged + n, handoffs |-> st.handoffs]
  BY <1>2
<1>5. QED BY <1>3, <1>4

LEMMA MutateLeaves ==
  ASSUME NEW st, LeftByEngine(st), NEW c \in Calls
  PROVE  LeftByEngine(Orchestra!Mutate(OpOf[c], st))
<1> DEFINE o == OpOf[c]
           x == Orchestra!Mutate(o, st)
<1>1. /\ o.kind \in Kinds /\ (o.kind = "setEnabled" => o.on \in BOOLEAN)
      /\ o.kind = "reportCodexUsage" => IsFiniteSet(o.used)
  BY OrchestrationAssumption DEF Kinds
<1> SUFFICES LeftByEngine(x)
  OBVIOUS
<1> HIDE DEF o
<1> DEFINE assigned == Orchestra!AssignRole(st, o.role, o.seat)
<1>2. CASE o.kind = "setEnabled"
  <2>1. x = Orchestra!SetEnabled(st, o.on)
    BY <1>2 DEF Orchestra!Mutate
  <2>2. QED BY <1>1, <1>2, <2>1, SetEnabledLeaves
<1>3. CASE o.kind = "upsertSeat"
  <2>1. x = Orchestra!UpsertSeat(st, o.seat, o.role)
    BY <1>3 DEF Orchestra!Mutate
  <2>2. QED BY <1>1, <1>3, <2>1, UpsertSeatLeaves
<1>4. CASE o.kind = "removeSeat"
  <2>1. x = Orchestra!RemoveSeat(st, o.seat)
    BY <1>4 DEF Orchestra!Mutate
  <2>2. QED BY <1>1, <1>4, <2>1, RemoveSeatLeaves
<1>5. CASE o.kind = "assignRole"
  <2>1. x = Orchestra!AssignRole(st, o.role, o.seat)
    BY <1>5 DEF Orchestra!Mutate
  <2>2. QED BY <1>1, <1>5, <2>1, AssignRoleLeaves
<1>6. CASE o.kind = "reportQuota"
  <2>1. x = Orchestra!UpdateQuota(st, o.seat, o.spent)
    BY <1>6 DEF Orchestra!Mutate
  <2>2. QED BY <1>1, <1>6, <2>1, UpdateQuotaLeaves
<1>7. CASE o.kind = "reportSeatFailure"
  <2>1. x = Orchestra!ReportSeatFailure(st, o.seat, clock)
    BY <1>7 DEF Orchestra!Mutate
  <2>2. QED BY <1>1, <1>7, <2>1, ReportSeatFailureLeaves
<1>8. CASE o.kind = "reportSeatSuccess"
  <2>1. x = Orchestra!ReportSeatSuccess(st, o.seat)
    BY <1>8 DEF Orchestra!Mutate
  <2>2. QED BY <1>1, <1>8, <2>1, ReportSeatSuccessLeaves
<1>9. CASE o.kind = "turnDone"
  <2>1. x = Orchestra!ReportSeatSuccess(assigned, o.seat)
    BY <1>9 DEF Orchestra!Mutate
  <2>2. QED BY <1>1, <1>9, <2>1, AssignRoleLeaves, ReportSeatSuccessLeaves
<1>10. CASE o.kind = "turnFailed"
  <2>1. x = Orchestra!UpdateQuota(Orchestra!ReportSeatFailure(assigned, o.seat, clock), o.seat, TRUE)
    BY <1>10 DEF Orchestra!Mutate
  <2>2. QED BY <1>1, <1>10, <2>1, AssignRoleLeaves, ReportSeatFailureLeaves, UpdateQuotaLeaves
<1>11. CASE o.kind = "reportCodexUsage"
  <2> DEFINE seats == [s \in DOMAIN st.seats |-> IF s \in o.used
                         THEN [st.seats[s] EXCEPT !.spent = o.spent] ELSE st.seats[s]]
             n == Cardinality(o.used \cap DOMAIN st.seats)
             l == Orchestra!Log(st, n)
  <2>1. x = [st EXCEPT !.seats = seats, !.logged = @ + n]
    BY <1>11 DEF Orchestra!Mutate, Orchestra!Cardinality, Cardinality
  <2>2. DOMAIN st.seats \subseteq DOMAIN seats
    OBVIOUS
  <2>3. n \in Nat
    <3>1. IsFiniteSet(o.used) /\ o.used \cap DOMAIN st.seats \subseteq o.used
      BY <1>1, <1>11
    <3>2. QED BY <3>1, FS_Subset, FS_CardinalityType
  <2> HIDE DEF seats, x, n
  <2>4. /\ LeftByEngine(l)
        /\ l = [enabled |-> st.enabled, roles |-> st.roles, seats |-> st.seats,
                cooldown |-> st.cooldown, logged |-> st.logged + n, handoffs |-> st.handoffs]
    BY <2>3, LogLeaves
  <2>5. st = [enabled |-> st.enabled, roles |-> st.roles, seats |-> st.seats,
              cooldown |-> st.cooldown, logged |-> st.logged, handoffs |-> st.handoffs]
    BY DEF LeftByEngine
  <2> HIDE DEF l
  <2>6. x = [enabled |-> st.enabled, roles |-> st.roles, seats |-> seats,
             cooldown |-> st.cooldown, logged |-> st.logged + n, handoffs |-> st.handoffs]
    <3>1. [st EXCEPT !.seats = seats, !.logged = @ + n] =
            [enabled |-> st.enabled, roles |-> st.roles, seats |-> seats,
             cooldown |-> st.cooldown, logged |-> st.logged + n, handoffs |-> st.handoffs]
      BY PlanWith
    <3>2. QED BY <2>1, <3>1
  <2>7. x = [l EXCEPT !.seats = seats] /\ l.seats = st.seats
    BY <2>4, <2>6
  <2>8. QED BY <2>2, <2>4, <2>7, SeatsGrow
<1> HIDE DEF x
<1>12. QED
  BY <1>1, <1>2, <1>3, <1>4, <1>5, <1>6, <1>7, <1>8, <1>9, <1>10, <1>11 DEF Kinds

LEMMA EmptyIsLeft == Left(Orchestra!Nothing)
<1> DEFINE e == Orchestra!Empty
<1>1. e = [enabled |-> FALSE, roles |-> [r \in Roles |-> None], seats |-> <<>>,
           cooldown |-> [r \in Roles |-> 0], logged |-> 0, handoffs |-> [r \in Roles |-> <<>>]]
  BY DEF Orchestra!Empty
<1>2. /\ e.cooldown \in [Roles -> Nat] /\ e.handoffs \in [Roles -> Seq([at : Nat, nr : Nat])]
      /\ e.enabled \in BOOLEAN /\ e.logged \in Nat /\ DOMAIN e.roles = Roles
      /\ \A r \in Roles : e.roles[r] = None /\ e.handoffs[r] = <<>>
  BY <1>1
<1>3. e = [enabled |-> e.enabled, roles |-> e.roles, seats |-> e.seats,
           cooldown |-> e.cooldown, logged |-> e.logged, handoffs |-> e.handoffs]
  BY <1>1
<1>4. \A cold, n : Spaced(<<>>, cold, n)
  <2>1. 1 .. Len(<<>>) = {}
    OBVIOUS
  <2>2. QED BY <2>1 DEF Spaced
<1> HIDE DEF e
<1>5. LeftByEngine(e)
  BY <1>2, <1>3, <1>4 DEF LeftByEngine
<1>6. QED BY <1>5 DEF e, Left, Orchestra!Nothing

LEMMA SavedIsLeft == ASSUME NEW p \in Projects PROVE Left([plan |-> Saved[p], by |-> {}])
  BY OrchestrationAssumption DEF Left

LEMMA OrchestrationInitially == Orchestra!Init => OrchestrationInv
<1> SUFFICES ASSUME Orchestra!Init PROVE OrchestrationInv
  OBVIOUS
<1>1. /\ projectPath = None /\ cache = None /\ queue = <<>> /\ job = [at |-> "idle"] /\ clock = 0
      /\ call = [c \in Calls |-> [at |-> "new"]]
      /\ file = [p \in Projects |-> [plan |-> Saved[p], by |-> {}]]
  BY DEF Orchestra!Init, Orchestra!Idle
<1>2. \A p \in Projects : Left(file[p])
  BY <1>1, SavedIsLeft
<1>3. JobIsSound
  BY <1>1 DEF JobIsSound
<1>4. queue \in Seq(Calls) /\ clock \in Nat /\ DOMAIN file = Projects /\ DOMAIN call = Calls
  BY <1>1
<1>5. \A c \in Calls : CallIsSound(c, call[c])
  BY <1>1 DEF CallIsSound
<1>6. QED BY <1>1, <1>2, <1>3, <1>4, <1>5 DEF OrchestrationInv

\* An operation applied to a state keeps it sound, and is in its history.
LEMMA ApplyLeaves ==
  ASSUME OrchestrationInv, queue # <<>>, NEW x, Left(x)
  PROVE  Left(Orchestra!Apply(x)) /\ Head(queue) \in Orchestra!Apply(x).by
<1> DEFINE c == Head(queue)
           plan == Orchestra!Mutate(OpOf[c], x.plan)
<1>1. c \in Calls
  BY DEF OrchestrationInv
<1> HIDE DEF c
<1>2. LeftByEngine(plan)
  BY <1>1, MutateLeaves DEF Left
<1>3. Orchestra!Apply(x) = [plan |-> plan, by |-> x.by \cup {c}]
  BY DEF Orchestra!Apply, c
<1> HIDE DEF plan
<1>4. QED BY <1>2, <1>3 DEF Left, c

\* The running operation ends, one way or another.
LEMMA FinishIsSound ==
  ASSUME OrchestrationInv, queue # <<>>, NEW as \in {"answered", "refused", "failed"},
         Orchestra!Finish(as), UNCHANGED <<projectPath, file, clock>>,
         cache' # None => Left(cache')
  PROVE  OrchestrationInv'
<1>1. /\ call' = [call EXCEPT ![Head(queue)] = [at |-> as]]
      /\ queue' = Tail(queue) /\ job' = [at |-> "idle"]
  BY DEF Orchestra!Finish, Orchestra!Idle
<1>2. queue' \in Seq(Calls)
  BY <1>1 DEF OrchestrationInv
<1>3. JobIsSound'
  BY <1>1 DEF JobIsSound
<1>4. DOMAIN call' = Calls /\ \A c \in Calls : CallIsSound(c, call'[c])
  <2>1. ASSUME NEW c \in Calls PROVE CallIsSound(c, call'[c])
    <3>1. CASE c = Head(queue)
      <4>1. call'[c] = [at |-> as]
        BY <1>1, <3>1 DEF OrchestrationInv
      <4>2. call'[c].at = as /\ as # "reading" /\ as # "read"
        <5>1. as # "reading" /\ as # "read"
          OBVIOUS
        <5>2. call'[c].at = as
          BY <4>1
        <5>3. QED BY <5>1, <5>2
      <4>3. QED BY <4>2 DEF CallIsSound
    <3>2. CASE c # Head(queue)
      BY <1>1, <3>2 DEF OrchestrationInv
    <3>3. QED BY <3>1, <3>2
  <2>2. QED BY <1>1, <2>1 DEF OrchestrationInv
<1>5. QED BY <1>2, <1>3, <1>4 DEF OrchestrationInv

\* A state goes to the file of the bound project.
LEMMA PersistIsSound ==
  ASSUME OrchestrationInv, queue # <<>>, projectPath # None, NEW x, Left(x), Head(queue) \in x.by,
         NEW n, Orchestra!Persist(x, n), UNCHANGED <<projectPath, file, clock, queue, call>>,
         cache' # None => Left(cache')
  PROVE  OrchestrationInv'
<1>1. job' = [at |-> "write", to |-> projectPath, state |-> x, phase |-> n]
  BY DEF Orchestra!Persist
<1>2. projectPath \in Projects
  BY DEF OrchestrationInv
<1>3. JobIsSound'
  BY <1>1, <1>2 DEF JobIsSound
<1>4. QED BY <1>3 DEF OrchestrationInv

LEMMA RememberIsSound ==
  ASSUME OrchestrationInv, queue # <<>>, NEW x, Left(x), Head(queue) \in x.by, NEW n,
         Orchestra!Remember(x, n), UNCHANGED <<projectPath, file, clock>>
  PROVE  OrchestrationInv'
<1> DEFINE o == OpOf[Head(queue)]
           later(h) == [x EXCEPT !.plan = h.state]
           PlansOf(ready) == Orchestra!PlanHandoff(x.plan, o.seat, clock, ready)
<1>1. ASSUME NEW ready, NEW h \in PlansOf(ready)
      PROVE  Left(later(h)) /\ Head(queue) \in later(h).by
  <2>1. LeftByEngine(h.state)
    BY PlanHandoffLeaves DEF OrchestrationInv, Left
  <2>2. later(h) = [plan |-> h.state, by |-> x.by]
    BY DEF Left
  <2> HIDE DEF later
  <2>3. QED BY <2>1, <2>2 DEF Left
<1>2. \/ cache' = x /\ Orchestra!Finish("answered")
      \/ \E ready \in SUBSET Seats : \E h \in PlansOf(ready) :
           \/ cache' = later(h) /\ Orchestra!Finish("answered")
           \/ projectPath # None /\ cache' = x /\ Orchestra!Persist(later(h), 2) /\ UNCHANGED <<call, queue>>
  BY DEF Orchestra!Remember
<1> HIDE DEF o, later, PlansOf
<1>3. CASE cache' = x /\ Orchestra!Finish("answered")
  BY <1>3, FinishIsSound
<1>4. ASSUME NEW ready, NEW h \in PlansOf(ready), cache' = later(h), Orchestra!Finish("answered")
      PROVE  OrchestrationInv'
  BY <1>1, <1>4, FinishIsSound
<1>5. ASSUME NEW ready, NEW h \in PlansOf(ready), projectPath # None,
             cache' = x, Orchestra!Persist(later(h), 2), UNCHANGED <<call, queue>>
      PROVE  OrchestrationInv'
  <2>1. Left(later(h)) /\ Head(queue) \in later(h).by
    BY <1>1, <1>5
  <2>2. QED BY <1>5, <2>1, PersistIsSound
<1>6. QED BY <1>2, <1>3, <1>4, <1>5

\* Handlers and the bound project change while the queue works.
LEMMA HandlersAreSound ==
  ASSUME OrchestrationInv, UNCHANGED <<file, job>>, clock' \in Nat,
         projectPath' \in Projects \cup {None}, cache' # None => Left(cache'),
         queue' = queue \/ \E c \in Calls : queue' = Append(queue, c),
         DOMAIN call' = Calls, \A c \in Calls : CallIsSound(c, call'[c])
  PROVE  OrchestrationInv'
<1>1. queue \in Seq(Calls)
  BY DEF OrchestrationInv
<1>2. queue' \in Seq(Calls) /\ (queue # <<>> => queue' # <<>> /\ Head(queue') = Head(queue))
  <2>1. CASE queue' = queue
    BY <1>1, <2>1
  <2>2. ASSUME NEW c \in Calls, queue' = Append(queue, c)
        PROVE  queue' \in Seq(Calls) /\ (queue # <<>> => queue' # <<>> /\ Head(queue') = Head(queue))
    BY <1>1, <2>2
  <2>3. QED BY <2>1, <2>2
<1>3. JobIsSound'
  BY <1>2 DEF OrchestrationInv, JobIsSound
<1>4. QED BY <1>2, <1>3 DEF OrchestrationInv

LEMMA HandlerStep ==
  ASSUME OrchestrationInv, NEW c \in Calls,
         Orchestra!BindProject(c) \/ Orchestra!ReadFile(c) \/ Orchestra!Submit(c)
  PROVE  OrchestrationInv'
<1>1. /\ clock \in Nat /\ projectPath \in Projects \cup {None} /\ DOMAIN call = Calls
      /\ cache # None => Left(cache)
      /\ \A d \in Calls : CallIsSound(d, call[d])
      /\ \A p \in Projects : Left(file[p])
      /\ ProjectOf[c] \in Projects \cup {None}
  BY OrchestrationAssumption DEF OrchestrationInv
\* A handler whose step is not that its read has ended.
<1>2. ASSUME NEW x, call' = [call EXCEPT ![c] = x], CallIsSound(c, x)
      PROVE  DOMAIN call' = Calls /\ \A d \in Calls : CallIsSound(d, call'[d])
  <2>1. ASSUME NEW d \in Calls PROVE call'[d] = IF d = c THEN x ELSE call[d]
    BY <1>1, <1>2
  <2>2. DOMAIN call' = Calls
    BY <1>1, <1>2
  <2>3. QED BY <1>1, <1>2, <2>1, <2>2
<1>3. CASE Orchestra!BindProject(c)
  <2>1. /\ projectPath' = ProjectOf[c] /\ cache' = None /\ call' = [call EXCEPT ![c] = [at |-> "reading"]]
        /\ UNCHANGED <<file, queue, job, clock>>
    BY <1>3 DEF Orchestra!BindProject
  <2>2. DOMAIN call' = Calls /\ \A d \in Calls : CallIsSound(d, call'[d])
    <3>1. CallIsSound(c, [at |-> "reading"])
      BY <1>3 DEF Orchestra!BindProject, CallIsSound
    <3>2. QED BY <1>2, <2>1, <3>1
  <2>3. QED BY <1>1, <2>1, <2>2, HandlersAreSound
<1>4. CASE Orchestra!ReadFile(c)
  <2>1. PICK x \in Orchestra!Readable(ProjectOf[c]) : call' = [call EXCEPT ![c] = [at |-> "read", seen |-> x]]
    BY <1>4 DEF Orchestra!ReadFile
  <2>2. UNCHANGED <<projectPath, cache, file, queue, job, clock>>
    BY <1>4 DEF Orchestra!ReadFile
  <2>3. ProjectOf[c] # None => Left(x)
    BY <1>1, <2>1, EmptyIsLeft DEF Orchestra!Readable
  <2>4. ProjectOf[c] # None
    BY <1>1, <1>4 DEF Orchestra!ReadFile, Orchestra!At, CallIsSound
  <2>5. DOMAIN call' = Calls /\ \A d \in Calls : CallIsSound(d, call'[d])
    <3>1. CallIsSound(c, [at |-> "read", seen |-> x])
      BY <2>3, <2>4 DEF CallIsSound
    <3>2. QED BY <1>2, <2>1, <3>1
  <2>6. QED BY <1>1, <2>2, <2>5, HandlersAreSound
<1>5. CASE Orchestra!Submit(c)
  <2>1. /\ cache' # None => Left(cache')
        /\ UNCHANGED <<projectPath, file, job, clock>>
        /\ queue' = queue \/ queue' = Append(queue, c)
        /\ \E a \in {"refused", "queued"} : call' = [call EXCEPT ![c] = [at |-> a]]
    BY <1>1, <1>5 DEF Orchestra!Submit, Orchestra!At, CallIsSound
  <2>2. DOMAIN call' = Calls /\ \A d \in Calls : CallIsSound(d, call'[d])
    <3>1. \A a \in {"refused", "queued"} : CallIsSound(c, [at |-> a])
      BY DEF CallIsSound
    <3>2. QED BY <1>2, <2>1, <3>1
  <2>3. QED BY <1>1, <2>1, <2>2, HandlersAreSound
<1>6. QED BY <1>3, <1>4, <1>5

LEMMA QueueStep ==
  ASSUME OrchestrationInv,
         \/ Orchestra!Start \/ Orchestra!Load \/ Orchestra!Loaded
         \/ Orchestra!Write \/ Orchestra!WriteFails \/ Orchestra!Written
  PROVE  OrchestrationInv'
<1>1. /\ cache # None => Left(cache)
      /\ \A p \in Projects : Left(file[p])
      /\ projectPath \in Projects \cup {None} /\ DOMAIN file = Projects /\ JobIsSound
  BY DEF OrchestrationInv
<1>2. CASE Orchestra!Start
  <2>1. queue # <<>> /\ UNCHANGED <<projectPath, cache, file, clock>>
    BY <1>2 DEF Orchestra!Start
  <2>2. CASE projectPath = None
    <3>1. Orchestra!Finish("refused")
      BY <1>2, <2>2 DEF Orchestra!Start
    <3>2. QED BY <1>1, <2>1, <3>1, FinishIsSound
  <2>3. CASE projectPath # None /\ cache # None
    <3>1. Orchestra!Persist(Orchestra!Apply(cache), 1) /\ UNCHANGED <<call, queue>>
      BY <1>2, <2>3 DEF Orchestra!Start
    <3>2. Left(Orchestra!Apply(cache)) /\ Head(queue) \in Orchestra!Apply(cache).by
      BY <1>1, <2>1, <2>3, ApplyLeaves
    <3>3. QED BY <1>1, <2>1, <2>3, <3>1, <3>2, PersistIsSound
  <2>4. CASE projectPath # None /\ cache = None
    <3>1. job' = [at |-> "load", from |-> projectPath] /\ UNCHANGED <<call, queue>>
      BY <1>2, <2>4 DEF Orchestra!Start
    <3>2. JobIsSound'
      BY <1>1, <2>1, <2>4, <3>1 DEF JobIsSound
    <3>3. QED BY <2>1, <3>1, <3>2 DEF OrchestrationInv
  <2>5. QED BY <2>2, <2>3, <2>4
<1>3. CASE Orchestra!Load
  <2>1. /\ job.from \in Projects /\ queue # <<>>
        /\ UNCHANGED <<projectPath, cache, file, queue, call, clock>>
    BY <1>1, <1>3 DEF Orchestra!Load, JobIsSound
  <2>2. PICK x \in Orchestra!Readable(job.from) : job' = [at |-> "loaded", state |-> x]
    BY <1>3 DEF Orchestra!Load
  <2>3. Left(x)
    BY <1>1, <2>1, <2>2, EmptyIsLeft DEF Orchestra!Readable
  <2>4. JobIsSound'
    BY <2>1, <2>2, <2>3 DEF JobIsSound
  <2>5. QED BY <2>1, <2>4 DEF OrchestrationInv
<1>4. CASE Orchestra!Loaded
  <2>1. Left(job.state) /\ queue # <<>> /\ UNCHANGED <<projectPath, file, clock>>
    BY <1>1, <1>4 DEF Orchestra!Loaded, JobIsSound
  <2>2. Left(Orchestra!Apply(job.state)) /\ Head(queue) \in Orchestra!Apply(job.state).by
    BY <2>1, ApplyLeaves
  <2>3. CASE projectPath = None
    BY <1>4, <2>1, <2>2, <2>3, RememberIsSound DEF Orchestra!Loaded
  <2>4. CASE projectPath # None
    BY <1>4, <2>1, <2>2, <2>4, PersistIsSound DEF Orchestra!Loaded
  <2>5. QED BY <2>3, <2>4
<1>5. CASE Orchestra!Write
  <2>1. /\ job.at = "write" /\ job' = [job EXCEPT !.at = "written"]
        /\ file' = [file EXCEPT ![job.to] = job.state]
        /\ UNCHANGED <<projectPath, cache, queue, call, clock>>
    BY <1>5 DEF Orchestra!Write
  <2>2. /\ job = [at |-> job.at, to |-> job.to, state |-> job.state, phase |-> job.phase]
        /\ job.to \in Projects /\ Left(job.state) /\ queue # <<>> /\ Head(queue) \in job.state.by
    BY <1>1, <2>1 DEF JobIsSound
  <2>3. job' = [at |-> "written", to |-> job.to, state |-> job.state, phase |-> job.phase]
    BY <2>1, <2>2
  <2>4. /\ DOMAIN file' = Projects /\ file'[job.to] = job.state
        /\ \A p \in Projects : Left(file'[p])
    BY <1>1, <2>1, <2>2
  <2>5. JobIsSound'
    BY <2>1, <2>2, <2>3, <2>4 DEF JobIsSound
  <2>6. QED BY <2>1, <2>4, <2>5 DEF OrchestrationInv
<1>6. CASE Orchestra!WriteFails
  <2>1. queue # <<>>
    BY <1>1, <1>6 DEF Orchestra!WriteFails, JobIsSound
  <2>2. QED BY <1>1, <1>6, <2>1, FinishIsSound DEF Orchestra!WriteFails
<1>7. CASE Orchestra!Written
  <2>1. Left(job.state) /\ queue # <<>> /\ Head(queue) \in job.state.by
    BY <1>1, <1>7 DEF Orchestra!Written, JobIsSound
  <2>2. QED BY <1>7, <2>1, RememberIsSound DEF Orchestra!Written
<1>8. QED BY <1>2, <1>3, <1>4, <1>5, <1>6, <1>7

LEMMA OrchestrationStep ==
  OrchestrationInv /\ [Orchestra!Next]_orchestrationVars => OrchestrationInv'
<1> SUFFICES ASSUME OrchestrationInv, [Orchestra!Next]_orchestrationVars PROVE OrchestrationInv'
  OBVIOUS
<1>1. CASE Orchestra!Stop \/ Orchestra!Tick \/ UNCHANGED orchestrationVars
  <2>1. /\ UNCHANGED <<file, job, queue, call>>
        /\ projectPath' \in Projects \cup {None} /\ (cache' # None => Left(cache')) /\ clock' \in Nat
    BY <1>1 DEF Orchestra!Stop, Orchestra!Tick, orchestrationVars, OrchestrationInv
  <2>2. DOMAIN call' = Calls /\ \A c \in Calls : CallIsSound(c, call'[c])
    BY <2>1 DEF OrchestrationInv
  <2>3. QED BY <2>1, <2>2, HandlersAreSound
<1>2. CASE Orchestra!Crash
  <2>1. /\ projectPath' = None /\ cache' = None /\ queue' = <<>> /\ job' = [at |-> "idle"]
        /\ UNCHANGED <<file, clock>>
        /\ call' = [c \in Calls |-> IF call[c].at \in {"reading", "read", "queued"}
                                    THEN [at |-> "lost"] ELSE call[c]]
    BY <1>2 DEF Orchestra!Crash, Orchestra!Idle
  <2>2. JobIsSound'
    BY <2>1 DEF JobIsSound
  <2>3. DOMAIN call' = Calls /\ \A c \in Calls : CallIsSound(c, call'[c])
    BY <2>1 DEF OrchestrationInv, CallIsSound
  <2>4. queue' \in Seq(Calls)
    BY <2>1
  <2>5. QED BY <2>1, <2>2, <2>3, <2>4 DEF OrchestrationInv
<1>3. QED BY <1>1, <1>2, HandlerStep, QueueStep DEF Orchestra!Next

\* What the invariant says of the states that are held.
LEMMA OrchestrationHolds == OrchestrationInv => Orchestra!NoDanglingRole /\ Orchestra!HandoffsSpaced
<1> SUFFICES ASSUME OrchestrationInv PROVE Orchestra!NoDanglingRole /\ Orchestra!HandoffsSpaced
  OBVIOUS
<1>1. ASSUME NEW x \in Orchestra!Held PROVE LeftByEngine(x.plan)
  BY DEF Orchestra!Held, OrchestrationInv, JobIsSound, Left
<1>2. Orchestra!NoDanglingRole
  BY <1>1 DEF LeftByEngine, Orchestra!NoDanglingRole
<1>3. ASSUME NEW x \in Orchestra!Held, NEW r \in Roles
      PROVE  LET done == x.plan.handoffs[r] IN
             \A i, j \in DOMAIN done :
               /\ i < j => done[j].at >= done[i].at + Cooldown
               /\ j - i >= MaxPerHour /\ done[j].nr - done[i].nr < EventLimit =>
                    done[j].at > done[i].at + Hour
  <2> DEFINE done == x.plan.handoffs[r]
  <2>1. /\ done \in Seq([at : Nat, nr : Nat]) /\ Cooldown \in Nat /\ Hour \in Nat
        /\ \A i, j \in 1 .. Len(done) :
             /\ i < j => done[i].at + Cooldown <= done[j].at
             /\ j - i >= MaxPerHour /\ done[j].nr - done[i].nr < EventLimit =>
                  done[i].at + Hour < done[j].at
    <3>1. LeftByEngine(x.plan)
      BY <1>1
    <3>2. done \in Seq([at : Nat, nr : Nat]) /\ Spaced(done, x.plan.cooldown[r], x.plan.logged)
      BY <3>1 DEF LeftByEngine
    <3> HIDE DEF done
    <3>3. QED BY <3>2, OrchestrationAssumption DEF Spaced
  <2> HIDE DEF done
  <2>2. DOMAIN done = 1 .. Len(done) /\ \A i \in 1 .. Len(done) : done[i].at \in Nat
    BY <2>1, HandoffOf
  <2>4. \A i, j \in DOMAIN done :
          /\ i < j => done[j].at >= done[i].at + Cooldown
          /\ j - i >= MaxPerHour /\ done[j].nr - done[i].nr < EventLimit =>
               done[j].at > done[i].at + Hour
    BY <2>1, <2>2
  <2>5. QED BY <2>4 DEF done
<1>4. QED BY <1>2, <1>3 DEF Orchestra!HandoffsSpaced

\* A step that answers a call has written it, or knows no project any more.
LEMMA AnswersAreSaved ==
  OrchestrationInv /\ [Orchestra!Next]_orchestrationVars => Orchestra!AnswersSaved
<1> SUFFICES ASSUME OrchestrationInv, [Orchestra!Next]_orchestrationVars, projectPath # None,
                    NEW c \in Calls, call[c].at # "answered", call'[c].at = "answered"
             PROVE  job.at = "written" /\ c \in file[job.to].by
  BY DEF Orchestra!AnswersSaved
<1>1. DOMAIN call = Calls /\ JobIsSound
  BY DEF OrchestrationInv
<1>2. ASSUME NEW d, NEW as, call' = [call EXCEPT ![d] = [at |-> as]] PROVE as = "answered" /\ c = d
  BY <1>1, <1>2
<1>3. ~(\E d \in Calls : Orchestra!BindProject(d) \/ Orchestra!ReadFile(d) \/ Orchestra!Submit(d))
  <2>1. ASSUME NEW d \in Calls, Orchestra!ReadFile(d) PROVE FALSE
    <3>1. PICK x : call' = [call EXCEPT ![d] = [at |-> "read", seen |-> x]]
      BY <2>1 DEF Orchestra!ReadFile
    <3>2. QED BY <1>1, <3>1
  <2>2. QED BY <1>2, <2>1 DEF Orchestra!BindProject, Orchestra!Submit
<1>4. ~(Orchestra!Start \/ Orchestra!Load \/ Orchestra!Write \/ Orchestra!WriteFails \/ Orchestra!Loaded)
  <2>1. Orchestra!Start => UNCHANGED call
    BY DEF Orchestra!Start
  <2>2. ~Orchestra!WriteFails
    <3> SUFFICES ASSUME Orchestra!WriteFails PROVE FALSE
      OBVIOUS
    <3> DEFINE d == Head(queue)
    <3>1. call' = [call EXCEPT ![d] = [at |-> "failed"]]
      BY DEF Orchestra!WriteFails, Orchestra!Finish
    <3> HIDE DEF d
    <3>2. call'[c] = call[c] \/ call'[c] = [at |-> "failed"]
      BY <1>1, <3>1
    <3>3. QED BY <3>2
  <2>3. Orchestra!Load \/ Orchestra!Write \/ Orchestra!Loaded => UNCHANGED call
    BY DEF Orchestra!Load, Orchestra!Write, Orchestra!Loaded
  <2>4. QED BY <2>1, <2>2, <2>3
<1>5. ~(Orchestra!Stop \/ Orchestra!Tick \/ UNCHANGED orchestrationVars)
  BY DEF Orchestra!Stop, Orchestra!Tick, orchestrationVars
<1>6. ~Orchestra!Crash
  BY <1>1 DEF Orchestra!Crash
<1>7. Orchestra!Written
  BY <1>3, <1>4, <1>5, <1>6 DEF Orchestra!Next
<1>8. job.at = "written" /\ file[job.to] = job.state /\ Head(queue) \in job.state.by
  BY <1>1, <1>7 DEF Orchestra!Written, JobIsSound
<1>9. call' = call \/ \E as : call' = [call EXCEPT ![Head(queue)] = [at |-> as]]
  BY <1>7 DEF Orchestra!Written, Orchestra!Remember, Orchestra!Finish
<1>10. c = Head(queue)
  BY <1>2, <1>9
<1>11. QED BY <1>8, <1>10

\* For any projects, calls and policies: the states of the orchestration, in memory and
\* on disk, are sound, and an operation that has been written is in its file.
THEOREM OrchestrationSafe == Spec => [](part = "orchestration" => OrchestrationInv)
<1>1. Init => (part = "orchestration" => OrchestrationInv)
  BY OrchestrationInitially DEF Init
<1>2. (part = "orchestration" => OrchestrationInv) /\ [Next]_partVars
      => (part = "orchestration" => OrchestrationInv)'
  BY OrchestrationMoves, OrchestrationStep, PartStays
<1>3. QED BY <1>1, <1>2, PTL DEF Spec

-----------------------------------------------------------------------------
(* terminal-session.ts and pty-pipe.ts: PTYs, buffers and cables *)

View == [pty : Nat, chunks : Nat, ended : BOOLEAN]

Waits(b) == IF b = <<>> THEN <<>> ELSE b[1]

\* Of one terminal with session c, buffer b, listener h and count w: what waits is of
\* the session, and follows what the listener saw up to the last chunk written.
InPlace(c, b, h, w) ==
  /\ c \in Nat /\ w \in Nat /\ h \in View
  /\ b # <<>> => c # 0 /\ b = <<b[1]>> /\ b[1] \in Seq(Nat \X Nat)
  /\ c # 0 => h.pty = c /\ ~h.ended /\ w = h.chunks + Len(Waits(b))
  /\ \A i \in 1 .. Len(Waits(b)) : Waits(b)[i] = <<c, h.chunks + i>>

PipeTypes ==
  /\ current \in [Terminals -> Nat] /\ wrote \in [Terminals -> Nat]
  /\ heard \in [Terminals -> View]
  /\ DOMAIN buffer = Terminals /\ buffer = [t \in Terminals |-> buffer[t]]
  /\ starts \in Nat

PipesInv ==
  /\ PipeTypes
  /\ \A t \in Terminals : InPlace(current[t], buffer[t], heard[t], wrote[t])
  /\ misheard = FALSE
  /\ edges \subseteq Terminals \X Terminals
  /\ Pipes!WindowsFollowCables
  /\ Pipes!PipesStayAcyclic

LEMMA PipesMoves ==
  ASSUME [Next]_partVars, part = "pipes"
  PROVE  [Pipes!Next]_pipeVars
  BY DEF Next, partVars, pipeVars

\* The walk of the graph from a terminal, as far as n cables.
Walks(f, start, es, n) ==
  f = [i \in 0 .. n |->
        IF i = 0 THEN Pipes!Steps({start}, es) ELSE f[i - 1] \cup Pipes!Steps(f[i - 1], es)]

LEMMA WalksAt ==
  ASSUME NEW f, NEW start, NEW es, NEW n \in Nat, Walks(f, start, es, n)
  PROVE  /\ f[0] = Pipes!Steps({start}, es)
         /\ \A i \in 1 .. n : f[i] = f[i - 1] \cup Pipes!Steps(f[i - 1], es)
<1> DEFINE h(g) == [i \in 0 .. n |->
                     IF i = 0 THEN Pipes!Steps({start}, es)
                     ELSE g[i - 1] \cup Pipes!Steps(g[i - 1], es)]
<1>1. \A g : /\ h(g)[0] = Pipes!Steps({start}, es)
             /\ \A i \in 1 .. n : h(g)[i] = g[i - 1] \cup Pipes!Steps(g[i - 1], es)
  OBVIOUS
<1>2. f = h(f)
  BY DEF Walks
<1> HIDE DEF h
<1>3. QED BY <1>1, <1>2

LEMMA WalkExists ==
  ASSUME NEW start, NEW es, NEW n \in Nat
  PROVE  \E f : Walks(f, start, es, n)
<1> DEFINE T == {i \in Nat : \E f : Walks(f, start, es, i)}
<1>1. 0 \in T
  <2>1. Walks([i \in 0 .. 0 |-> Pipes!Steps({start}, es)], start, es, 0)
    BY DEF Walks
  <2>2. QED BY <2>1
<1>2. ASSUME NEW i \in Nat, i \in T PROVE i + 1 \in T
  <2>1. PICK f : Walks(f, start, es, i)
    BY <1>2
  <2>2. /\ f[0] = Pipes!Steps({start}, es)
        /\ \A j \in 1 .. i : f[j] = f[j - 1] \cup Pipes!Steps(f[j - 1], es)
    BY <2>1, WalksAt
  <2> DEFINE g == [j \in 0 .. i + 1 |->
                     IF j <= i THEN f[j] ELSE f[j - 1] \cup Pipes!Steps(f[j - 1], es)]
  <2>3. ASSUME NEW j \in 0 .. i + 1
        PROVE  g[j] = IF j = 0 THEN Pipes!Steps({start}, es)
                      ELSE g[j - 1] \cup Pipes!Steps(g[j - 1], es)
    <3>1. CASE j = 0
      BY <2>2, <3>1
    <3>2. CASE j \in 1 .. i
      <4>1. f[j] = f[j - 1] \cup Pipes!Steps(f[j - 1], es)
        BY <2>2, <3>2
      <4>2. g[j] = f[j] /\ g[j - 1] = f[j - 1] /\ j # 0
        BY <3>2
      <4>3. QED BY <4>1, <4>2
    <3>3. CASE j = i + 1
      <4>1. g[j - 1] = f[j - 1] /\ j # 0
        BY <3>3
      <4>2. g[j] = f[j - 1] \cup Pipes!Steps(f[j - 1], es)
        BY <3>3
      <4>3. QED BY <4>1, <4>2
    <3>4. QED BY <2>3, <3>1, <3>2, <3>3
  <2>4. g = [j \in 0 .. i + 1 |-> g[j]]
    OBVIOUS
  <2> HIDE DEF g
  <2>5. Walks(g, start, es, i + 1)
    BY <2>3, <2>4 DEF Walks
  <2>6. QED BY <2>5
<1> HIDE DEF T
<1>3. Nat \subseteq T
  BY <1>1, <1>2, NatSetInduction
<1>4. QED BY <1>3 DEF T

\* A walk of as many cables as there are terminals has been everywhere it can go.
LEMMA WalkIsWhole ==
  ASSUME NEW es \in SUBSET (Terminals \X Terminals), NEW start \in Terminals, NEW f,
         Walks(f, start, es, Cardinality(Terminals))
  PROVE  LET W == f[Cardinality(Terminals)] IN
         Pipes!Steps({start}, es) \subseteq W /\ Pipes!Steps(W, es) \subseteq W
<1> DEFINE N == Cardinality(Terminals)
           whole(S) == Pipes!Steps(S, es) \subseteq S
           T == {n \in Nat : n <= N =>
                   /\ Pipes!Steps({start}, es) \subseteq f[n] /\ f[n] \subseteq Terminals
                   /\ whole(f[n]) \/ Cardinality(f[n]) >= n}
<1>1. N \in Nat /\ IsFiniteSet(Terminals)
  BY FS_CardinalityType, PipesAssumption
<1>2. \A S : Pipes!Steps(S, es) \subseteq Terminals
  BY DEF Pipes!Steps
<1>3. /\ f[0] = Pipes!Steps({start}, es)
      /\ \A i \in 1 .. N : f[i] = f[i - 1] \cup Pipes!Steps(f[i - 1], es)
  BY <1>1, WalksAt
<1> HIDE DEF N, whole
<1>4. 0 \in T
  <2>1. f[0] \subseteq Terminals /\ IsFiniteSet(f[0]) /\ Cardinality(f[0]) \in Nat
    BY <1>1, <1>2, <1>3, FS_Subset, FS_CardinalityType
  <2>2. Pipes!Steps({start}, es) \subseteq f[0]
    BY <1>3
  <2>3. Cardinality(f[0]) >= 0
    BY <2>1
  <2>4. QED BY <2>1, <2>2, <2>3
<1>5. ASSUME NEW n \in Nat, n \in T PROVE n + 1 \in T
  <2> SUFFICES ASSUME n + 1 <= N
               PROVE  /\ Pipes!Steps({start}, es) \subseteq f[n + 1] /\ f[n + 1] \subseteq Terminals
                      /\ whole(f[n + 1]) \/ Cardinality(f[n + 1]) >= n + 1
    OBVIOUS
  <2>1. /\ Pipes!Steps({start}, es) \subseteq f[n] /\ f[n] \subseteq Terminals
        /\ whole(f[n]) \/ Cardinality(f[n]) >= n
    <3>1. n <= N
      BY <1>1
    <3>2. n \in T /\ n <= N =>
            /\ Pipes!Steps({start}, es) \subseteq f[n] /\ f[n] \subseteq Terminals
            /\ whole(f[n]) \/ Cardinality(f[n]) >= n
      OBVIOUS
    <3>3. QED BY <1>5, <3>1, <3>2
  <2>2. f[n + 1] = f[n] \cup Pipes!Steps(f[n], es)
    <3>1. n + 1 \in 1 .. N /\ (n + 1) - 1 = n
      BY <1>1
    <3>2. f[n + 1] = f[(n + 1) - 1] \cup Pipes!Steps(f[(n + 1) - 1], es)
      BY <1>3, <3>1
    <3>3. QED BY <3>1, <3>2
  <2>3. Pipes!Steps({start}, es) \subseteq f[n + 1] /\ f[n + 1] \subseteq Terminals
    BY <1>2, <2>1, <2>2
  <2>4. CASE whole(f[n])
    <3>1. f[n + 1] = f[n]
      BY <2>2, <2>4 DEF whole
    <3>2. QED BY <2>3, <2>4, <3>1
  <2>5. CASE ~whole(f[n])
    <3>1. PICK x \in f[n + 1] : x \notin f[n]
      BY <2>2, <2>5 DEF whole
    <3>2. /\ IsFiniteSet(f[n]) /\ IsFiniteSet(f[n + 1])
      BY <1>1, <2>1, <2>3, FS_Subset
    <3>3. /\ Cardinality(f[n] \cup {x}) = Cardinality(f[n]) + 1
      BY <3>1, <3>2, FS_AddElement
    <3>4. f[n] \cup {x} \subseteq f[n + 1]
      BY <2>2, <3>1
    <3>5. Cardinality(f[n] \cup {x}) <= Cardinality(f[n + 1])
      BY <3>2, <3>4, FS_Subset
    <3>6. Cardinality(f[n]) \in Nat /\ Cardinality(f[n + 1]) \in Nat
      BY <3>2, FS_CardinalityType
    <3>7. Cardinality(f[n]) >= n
      BY <2>1, <2>5
    <3>8. Cardinality(f[n + 1]) >= n + 1
      BY <3>3, <3>5, <3>6, <3>7
    <3>9. QED BY <2>3, <3>8
  <2>6. QED BY <2>4, <2>5
<1>6. Nat \subseteq T
  <2> HIDE DEF T
  <2>1. QED BY <1>4, <1>5, NatSetInduction
<1>7. /\ Pipes!Steps({start}, es) \subseteq f[N] /\ f[N] \subseteq Terminals
      /\ whole(f[N]) \/ Cardinality(f[N]) >= N
  BY <1>1, <1>6
<1>8. ASSUME Cardinality(f[N]) >= N PROVE whole(f[N])
  <2>1. Cardinality(f[N]) <= Cardinality(Terminals) /\ Cardinality(f[N]) \in Nat
    BY <1>1, <1>7, FS_Subset, FS_CardinalityType
  <2>2. Cardinality(f[N]) = Cardinality(Terminals)
    BY <1>1, <1>8, <2>1 DEF N
  <2>3. f[N] = Terminals
    BY <1>1, <1>7, <2>2, FS_Subset
  <2>4. QED BY <1>2, <2>3 DEF whole
<1>9. QED BY <1>7, <1>8 DEF N, whole

\* The cables of SetPipe join no terminal to itself.
LEMMA StaysAcyclic ==
  ASSUME edges \subseteq Terminals \X Terminals, Pipes!PipesStayAcyclic,
         NEW a \in Terminals, NEW b \in Terminals, a # b, ~Pipes!Reaches(b, a, edges),
         edges' = edges \cup {<<a, b>>}
  PROVE  Pipes!PipesStayAcyclic'
<1> DEFINE N == Cardinality(Terminals)
<1>1. PICK W : /\ Pipes!Steps({b}, edges) \subseteq W /\ Pipes!Steps(W, edges) \subseteq W
               /\ a \notin W
  <2> DEFINE walk == CHOOSE f : Walks(f, b, edges, N)
  <2>1. N \in Nat
    BY FS_CardinalityType, PipesAssumption
  <2>2. Walks(walk, b, edges, N)
    <3> HIDE DEF N
    <3>1. QED BY <2>1, WalkExists
  <2>3. a \notin walk[N]
    BY DEF Pipes!Reaches, Walks, Pipes!Cardinality, Cardinality
  <2> HIDE DEF walk
  <2>4. QED BY <2>2, <2>3, WalkIsWhole
<1> DEFINE R == {b} \cup W
<1>2. \A x \in R : \A y : <<x, y>> \in edges => y \in R
  BY <1>1 DEF Pipes!Steps
<1>3. ASSUME NEW S \in SUBSET Terminals, S # {}
      PROVE  \E t \in S : \A u \in S : <<u, t>> \notin edges'
  <2>1. PICK t \in S : \A u \in S : <<u, t>> \notin edges
    BY <1>3 DEF Pipes!PipesStayAcyclic
  <2>2. CASE t # b \/ a \notin S
    BY <2>1, <2>2
  <2>3. CASE t = b /\ a \in S
    <3>1. a \in S \ R
      BY <1>1, <2>3
    <3>2. PICK v \in S \ R : \A u \in S \ R : <<u, v>> \notin edges
      BY <3>1 DEF Pipes!PipesStayAcyclic
    <3>3. \A u \in S : <<u, v>> \notin edges'
      BY <1>2, <3>2
    <3>4. QED BY <3>2, <3>3
  <2>4. QED BY <2>2, <2>3
<1>4. QED BY <1>3 DEF Pipes!PipesStayAcyclic

\* Fewer cables are as acyclic.
LEMMA CutStaysAcyclic ==
  ASSUME Pipes!PipesStayAcyclic, edges' \subseteq edges
  PROVE  Pipes!PipesStayAcyclic'
  BY DEF Pipes!PipesStayAcyclic

LEMMA PipesInitially == Pipes!Init => PipesInv
<1> SUFFICES ASSUME Pipes!Init PROVE PipesInv
  OBVIOUS
<1>1. PipeTypes
  BY DEF Pipes!Init, PipeTypes, View
<1>2. ASSUME NEW t \in Terminals PROVE InPlace(current[t], buffer[t], heard[t], wrote[t])
  BY DEF Pipes!Init, InPlace, Waits, View
<1>3. Pipes!PipesStayAcyclic /\ edges \subseteq Terminals \X Terminals /\ misheard = FALSE
  <2>1. edges = {} /\ misheard = FALSE
    BY DEF Pipes!Init
  <2>2. ASSUME NEW S \in (SUBSET Terminals) \ {{}}
        PROVE  \E t \in S : \A u \in S : <<u, t>> \notin edges
    <3>1. PICK t \in S : TRUE
      OBVIOUS
    <3>2. QED BY <2>1, <3>1
  <2>3. QED BY <2>1, <2>2 DEF Pipes!PipesStayAcyclic
<1>4. Pipes!WindowsFollowCables
  BY DEF Pipes!Init, Pipes!WindowsFollowCables
<1>5. QED BY <1>1, <1>2, <1>3, <1>4 DEF PipesInv

\* A forward counts for cables that are drawn.
LEMMA ForwardedFollows ==
  ASSUME NEW t, NEW n, NEW es, NEW ws, DOMAIN ws \subseteq es
  PROVE  DOMAIN Pipes!Forwarded(t, n, es, ws) \subseteq es
  BY DEF Pipes!Forwarded

LEMMA KeptFollows ==
  ASSUME NEW es, NEW ws
  PROVE  DOMAIN Pipes!Kept(ws, es) \subseteq es
  BY DEF Pipes!Kept

\* A flush is heard in its place, and leaves nothing behind.
LEMMA FlushIsHeard ==
  ASSUME PipesInv, NEW t \in Terminals
  PROVE  /\ Pipes!FlushHeard(t).ok = TRUE
         /\ Pipes!FlushHeard(t).view \in View
         /\ Pipes!FlushHeard(t).view.pty = heard[t].pty
         /\ Pipes!FlushHeard(t).view.ended = heard[t].ended
         /\ Pipes!FlushHeard(t).view.chunks = heard[t].chunks + Len(Waits(buffer[t]))
         /\ InPlace(current[t], <<>>, Pipes!FlushHeard(t).view, wrote[t])
<1> DEFINE c == current[t]
           b == buffer[t]
           h == heard[t]
           w == wrote[t]
           p == Waits(b)
           flushed == Pipes!FlushHeard(t)
<1>1. InPlace(c, b, h, w) /\ c \in Nat /\ h \in View
  BY DEF PipesInv, PipeTypes
<1>2. Pipes!Pending(t) = p
  BY DEF Pipes!Pending, Waits
<1>3. CASE p = <<>>
  <2>1. flushed = [ok |-> TRUE, view |-> h]
    BY <1>2, <1>3 DEF Pipes!FlushHeard
  <2>2. Len(p) = 0
    BY <1>3
  <2> HIDE DEF c, b, h, w, p, flushed
  <2>3. flushed.ok = TRUE /\ flushed.view = h /\ h.chunks + 0 = h.chunks
    BY <1>1, <2>1 DEF View
  <2>4. InPlace(c, <<>>, h, w)
    BY <1>1, <2>2, <2>3 DEF InPlace, Waits, p
  <2>5. QED BY <1>1, <2>2, <2>3, <2>4 DEF c, b, h, w, p, flushed
<1>4. CASE p # <<>>
  <2>1. b # <<>> /\ p \in Seq(Nat \X Nat) /\ c # 0 /\ h.pty = c /\ ~h.ended /\ w = h.chunks + Len(p)
    BY <1>1, <1>4 DEF InPlace, Waits
  <2>2. \A i \in 1 .. Len(p) : p[i] = <<c, h.chunks + i>>
    BY <1>1 DEF InPlace
  <2>3. Len(p) \in Nat /\ Len(p) >= 1 /\ Head(p) = p[1] /\ h.chunks \in Nat
    <3> HIDE DEF p, b, h
    <3>1. QED BY <1>1, <1>4, <2>1 DEF View
  <2>4. Head(p) = <<c, h.chunks + 1>> /\ p[Len(p)] = <<c, h.chunks + Len(p)>>
    <3>1. 1 \in 1 .. Len(p) /\ Len(p) \in 1 .. Len(p)
      BY <2>3
    <3>2. QED BY <2>2, <2>3, <3>1
  <2> DEFINE n == Len(p)
  <2>5. flushed = Pipes!Hear(h, c, h.chunks + 1, h.chunks + n)
    <3>1. flushed = Pipes!Hear(h, Head(p)[1], Head(p)[2], p[Len(p)][2])
      BY <1>2, <1>4 DEF Pipes!FlushHeard
    <3> HIDE DEF flushed, p, h, c
    <3>2. QED BY <2>4, <3>1
  <2> HIDE DEF flushed, p, n, b, c, h, w
  <2>6. ~(h.chunks + 1 > h.chunks + n)
    BY <2>3 DEF n
  <2>7. flushed.ok = TRUE /\ flushed.view = [h EXCEPT !.chunks = h.chunks + n]
    BY <2>1, <2>5, <2>6 DEF Pipes!Hear
  <2>8. /\ flushed.view \in View /\ flushed.view.pty = h.pty /\ flushed.view.ended = h.ended
        /\ flushed.view.chunks = h.chunks + n
    BY <1>1, <2>3, <2>7 DEF View, n
  <2>9. InPlace(c, <<>>, flushed.view, w)
    <3>1. w \in Nat /\ w = h.chunks + n + 0
      BY <1>1, <2>1, <2>3 DEF InPlace, n
    <3>2. QED BY <1>1, <2>1, <2>8, <3>1 DEF InPlace, Waits
  <2>10. QED BY <2>7, <2>8, <2>9 DEF n, flushed, p, b, c, h, w
<1>5. QED BY <1>3, <1>4

\* A terminal without a session.
LEMMA StoppedInPlace ==
  ASSUME NEW h \in View, NEW w \in Nat
  PROVE  InPlace(0, <<>>, h, w)
<1>1. Waits(<<>>) = <<>> /\ Len(Waits(<<>>)) = 0 /\ 1 .. Len(Waits(<<>>)) = {}
  BY DEF Waits
<1>2. QED BY <1>1 DEF InPlace

\* A step that changes one terminal, and the cables, as it may.
LEMMA PipesOne ==
  ASSUME PipesInv, NEW t \in Terminals, NEW c, NEW b, NEW h, NEW w,
         current' = [current EXCEPT ![t] = c], buffer' = [buffer EXCEPT ![t] = b],
         heard' = [heard EXCEPT ![t] = h], wrote' = [wrote EXCEPT ![t] = w],
         InPlace(c, b, h, w), misheard' = FALSE, starts' \in Nat,
         edges' \subseteq edges, DOMAIN windows' \subseteq edges'
  PROVE  PipesInv'
<1>1. c \in Nat /\ w \in Nat /\ h \in View
  BY DEF InPlace
<1>2. PipeTypes'
  BY <1>1 DEF PipesInv, PipeTypes
<1>3. ASSUME NEW u \in Terminals PROVE InPlace(current'[u], buffer'[u], heard'[u], wrote'[u])
  <2>1. CASE u = t
    <3>1. current'[u] = c /\ buffer'[u] = b /\ heard'[u] = h /\ wrote'[u] = w
      BY <2>1 DEF PipesInv, PipeTypes
    <3>2. QED BY <3>1
  <2>2. CASE u # t
    <3>1. current'[u] = current[u] /\ buffer'[u] = buffer[u] /\ heard'[u] = heard[u] /\ wrote'[u] = wrote[u]
      BY <2>2 DEF PipesInv, PipeTypes
    <3>2. QED BY <3>1 DEF PipesInv
  <2>3. QED BY <2>1, <2>2
<1>4. Pipes!PipesStayAcyclic' /\ edges' \subseteq Terminals \X Terminals
  BY CutStaysAcyclic DEF PipesInv
<1>5. Pipes!WindowsFollowCables'
  BY DEF Pipes!WindowsFollowCables
<1>6. QED BY <1>2, <1>3, <1>4, <1>5 DEF PipesInv

\* The cables and the clock change beside the terminals.
LEMMA PipesCalm ==
  ASSUME PipesInv, UNCHANGED <<current, buffer, heard, wrote, misheard, starts>>,
         edges' \subseteq Terminals \X Terminals, Pipes!PipesStayAcyclic',
         DOMAIN windows' \subseteq edges'
  PROVE  PipesInv'
<1>1. PipeTypes'
  BY DEF PipesInv, PipeTypes
<1>2. ASSUME NEW u \in Terminals PROVE InPlace(current'[u], buffer'[u], heard'[u], wrote'[u])
  BY DEF PipesInv
<1>3. Pipes!WindowsFollowCables'
  BY DEF Pipes!WindowsFollowCables
<1>4. QED BY <1>1, <1>2, <1>3 DEF PipesInv

LEMMA CablesChange ==
  ASSUME PipesInv, NEW t \in Terminals,
         Pipes!ClearPipe(t) \/ \E u \in Terminals : Pipes!SetPipe(t, u)
  PROVE  PipesInv'
<1>1. DOMAIN windows \subseteq edges /\ edges \subseteq Terminals \X Terminals /\ Pipes!PipesStayAcyclic
  BY DEF PipesInv, Pipes!WindowsFollowCables
<1>2. CASE Pipes!ClearPipe(t)
  <2>1. PICK cut : /\ edges' = edges \ cut /\ windows' = [e \in DOMAIN windows \ cut |-> windows[e]]
                   /\ UNCHANGED <<current, buffer, heard, wrote, misheard, starts>>
    BY <1>2 DEF Pipes!ClearPipe, Pipes!CutCables
  <2>2. DOMAIN windows' \subseteq edges' /\ edges' \subseteq edges
    BY <1>1, <2>1
  <2>3. QED BY <1>1, <2>1, <2>2, CutStaysAcyclic, PipesCalm
<1>3. ASSUME NEW u \in Terminals, Pipes!SetPipe(t, u) PROVE PipesInv'
  <2>1. /\ t # u /\ ~Pipes!Reaches(u, t, edges) /\ edges' = edges \cup {<<t, u>>}
        /\ UNCHANGED <<current, buffer, heard, wrote, misheard, starts, windows>>
    BY <1>3 DEF Pipes!SetPipe
  <2>2. Pipes!PipesStayAcyclic'
    BY <1>1, <2>1, StaysAcyclic
  <2>3. QED BY <1>1, <2>1, <2>2, PipesCalm
<1>4. QED BY <1>2, <1>3

\* A terminal that is the way PipesOne keeps it, as it is.
LEMMA AsItIs ==
  ASSUME PipesInv, NEW t \in Terminals
  PROVE  /\ current = [current EXCEPT ![t] = current[t]] /\ wrote = [wrote EXCEPT ![t] = wrote[t]]
         /\ heard = [heard EXCEPT ![t] = heard[t]] /\ buffer = [buffer EXCEPT ![t] = buffer[t]]
         /\ InPlace(current[t], buffer[t], heard[t], wrote[t])
         /\ current[t] \in Nat /\ wrote[t] \in Nat /\ heard[t] \in View /\ starts \in Nat
         /\ misheard = FALSE /\ DOMAIN windows \subseteq edges
         /\ current[t] = 0 => buffer[t] = <<>>
  BY DEF PipesInv, PipeTypes, InPlace, Pipes!WindowsFollowCables

LEMMA PipesFlush ==
  ASSUME PipesInv, NEW t \in Terminals, Pipes!FlushPendingData(t)
  PROVE  PipesInv'
<1> DEFINE v == Pipes!FlushHeard(t).view
<1>1. /\ Pipes!FlushHeard(t).ok = TRUE /\ InPlace(current[t], <<>>, v, wrote[t])
  BY FlushIsHeard
<1>2. /\ current' = [current EXCEPT ![t] = current[t]] /\ wrote' = [wrote EXCEPT ![t] = wrote[t]]
      /\ heard' = [heard EXCEPT ![t] = v] /\ buffer' = [buffer EXCEPT ![t] = <<>>]
      /\ misheard' = FALSE /\ starts' \in Nat /\ edges' = edges
  BY <1>1, AsItIs DEF Pipes!FlushPendingData, Pipes!Flush
<1>3. DOMAIN windows' \subseteq edges'
  BY AsItIs, ForwardedFollows DEF Pipes!FlushPendingData, Pipes!Flush
<1> HIDE DEF v
<1>4. QED BY <1>1, <1>2, <1>3, PipesOne

LEMMA PipesExit ==
  ASSUME PipesInv, NEW t \in Terminals, NEW n, Pipes!OnExit(t, n)
  PROVE  PipesInv'
<1>1. CASE n # current[t]
  <2>1. UNCHANGED <<current, buffer, heard, wrote, misheard, starts, edges, windows>>
    BY <1>1 DEF Pipes!OnExit
  <2>2. Pipes!PipesStayAcyclic'
    BY <2>1, CutStaysAcyclic DEF PipesInv
  <2>3. QED BY <2>1, <2>2, PipesCalm DEF PipesInv, Pipes!WindowsFollowCables
<1>2. CASE n = current[t]
  <2> DEFINE v == Pipes!FlushHeard(t).view
             h == [v EXCEPT !.ended = TRUE]
  <2>1. Pipes!FlushHeard(t).ok = TRUE /\ v \in View
    BY FlushIsHeard
  <2>2. h \in View
    BY <2>1 DEF View
  <2>3. /\ current' = [current EXCEPT ![t] = 0] /\ wrote' = [wrote EXCEPT ![t] = wrote[t]]
        /\ heard' = [heard EXCEPT ![t] = h] /\ buffer' = [buffer EXCEPT ![t] = <<>>]
        /\ misheard' = FALSE /\ starts' \in Nat /\ edges' = edges
    BY <1>2, <2>1, AsItIs DEF Pipes!OnExit, Pipes!Flush
  <2>4. DOMAIN windows' \subseteq edges'
    BY <1>2, AsItIs, ForwardedFollows DEF Pipes!OnExit, Pipes!Flush
  <2> HIDE DEF h
  <2>5. InPlace(0, <<>>, h, wrote[t])
    BY <2>2, AsItIs, StoppedInPlace
  <2>6. QED BY <2>3, <2>4, <2>5, PipesOne
<1>3. QED BY <1>1, <1>2

\* A stop of a terminal flushes what its PTY wrote, and takes cables away.
LEMMA StopsATerminal ==
  ASSUME PipesInv, NEW t \in Terminals, NEW keep, Pipes!StopTerminal(t, keep)
  PROVE  /\ buffer' = [buffer EXCEPT ![t] = <<>>] /\ misheard' = FALSE
         /\ edges' \subseteq edges /\ DOMAIN windows' \subseteq edges'
<1> DEFINE es == IF keep THEN edges ELSE edges \ Pipes!CablesOf(t)
           ws == Pipes!Kept(windows, es)
<1>1. edges' = es /\ es \subseteq edges
  BY DEF Pipes!StopTerminal
<1> HIDE DEF es
<1>2. DOMAIN ws \subseteq es
  BY KeptFollows
<1> HIDE DEF ws
<1>3. CASE current[t] = 0
  <2>1. UNCHANGED <<buffer, misheard>> /\ windows' = ws
    BY <1>3 DEF Pipes!StopTerminal, ws, es
  <2>2. QED BY <1>1, <1>2, <1>3, <2>1, AsItIs
<1>4. CASE current[t] # 0
  <2>1. Pipes!Flush(t, es, ws)
    BY <1>4 DEF Pipes!StopTerminal, ws, es
  <2>2. DOMAIN windows' \subseteq es
    BY <1>2, <2>1, ForwardedFollows DEF Pipes!Flush
  <2>3. buffer' = [buffer EXCEPT ![t] = <<>>] /\ misheard' = FALSE
    BY <2>1, FlushIsHeard, AsItIs DEF Pipes!Flush
  <2>4. QED BY <1>1, <2>2, <2>3
<1>5. QED BY <1>3, <1>4

LEMMA PipesStop ==
  ASSUME PipesInv, NEW t \in Terminals, Pipes!Stop(t)
  PROVE  PipesInv'
<1> DEFINE h == IF current[t] = 0 THEN heard[t] ELSE Pipes!FlushHeard(t).view
<1>1. h \in View
  BY FlushIsHeard, AsItIs
<1>2. heard' = [heard EXCEPT ![t] = h]
  BY AsItIs DEF Pipes!Stop
<1> HIDE DEF h
<1>3. /\ current' = [current EXCEPT ![t] = 0] /\ wrote' = [wrote EXCEPT ![t] = wrote[t]]
      /\ starts' \in Nat
  BY AsItIs DEF Pipes!Stop
<1>4. /\ buffer' = [buffer EXCEPT ![t] = <<>>] /\ misheard' = FALSE
      /\ edges' \subseteq edges /\ DOMAIN windows' \subseteq edges'
  BY StopsATerminal DEF Pipes!Stop
<1>5. InPlace(0, <<>>, h, wrote[t])
  BY <1>1, AsItIs, StoppedInPlace
<1>6. QED BY <1>2, <1>3, <1>4, <1>5, PipesOne

LEMMA PipesStart ==
  ASSUME PipesInv, NEW t \in Terminals, Pipes!StartTerminal(t)
  PROVE  PipesInv'
<1> DEFINE seen == IF current[t] = 0 THEN heard[t] ELSE Pipes!FlushHeard(t).view
<1>1. /\ buffer' = [buffer EXCEPT ![t] = <<>>] /\ misheard' = FALSE
      /\ edges' \subseteq edges /\ DOMAIN windows' \subseteq edges'
  BY StopsATerminal DEF Pipes!StartTerminal
<1>2. starts \in Nat
  BY AsItIs
<1>3. CASE starts' = starts + 1
  <2> DEFINE h == [pty |-> starts + 1, chunks |-> 0, ended |-> FALSE]
  <2>1. /\ current' = [current EXCEPT ![t] = starts + 1] /\ wrote' = [wrote EXCEPT ![t] = 0]
        /\ heard' = [heard EXCEPT ![t] = h]
    <3>1. starts' # starts
      BY <1>3, <1>2
    <3>2. QED BY <1>3, <3>1 DEF Pipes!StartTerminal
  <2>2. starts + 1 \in Nat /\ starts + 1 # 0 /\ starts' \in Nat
    BY <1>3, <1>2
  <2>3. h \in View /\ h.pty = starts + 1 /\ ~h.ended /\ h.chunks = 0
    BY <2>2 DEF View
  <2> HIDE DEF h
  <2>4. InPlace(starts + 1, <<>>, h, 0)
    BY <2>2, <2>3 DEF InPlace, Waits
  <2>5. QED BY <1>1, <2>1, <2>2, <2>4, PipesOne
<1>4. CASE starts' # starts + 1
  <2>1. seen \in View
    BY FlushIsHeard, AsItIs
  <2>2. /\ current' = [current EXCEPT ![t] = 0] /\ wrote' = [wrote EXCEPT ![t] = wrote[t]]
        /\ heard' = [heard EXCEPT ![t] = seen] /\ starts' \in Nat
    BY <1>4, AsItIs DEF Pipes!StartTerminal
  <2> HIDE DEF seen
  <2>3. InPlace(0, <<>>, seen, wrote[t])
    BY <2>1, AsItIs, StoppedInPlace
  <2>4. QED BY <1>1, <2>2, <2>3, PipesOne
<1>5. QED BY <1>3, <1>4

LEMMA PipesAppend ==
  ASSUME PipesInv, NEW t \in Terminals, Pipes!AppendTerminalData(t)
  PROVE  PipesInv'
<1> DEFINE c == current[t]
           b == buffer[t]
           h == heard[t]
           w == wrote[t]
           p == Waits(b)
           chunk == <<c, w + 1>>
           burst == Append(p, chunk)
<1>1. InPlace(c, b, h, w) /\ c \in Nat /\ w \in Nat /\ h \in View /\ c # 0
  BY AsItIs DEF Pipes!AppendTerminalData
<1>2. Pipes!Pending(t) = p
  BY DEF Pipes!Pending, Waits
<1>3. /\ p \in Seq(Nat \X Nat) /\ h.pty = c /\ ~h.ended /\ w = h.chunks + Len(p)
      /\ \A i \in 1 .. Len(p) : p[i] = <<c, h.chunks + i>>
  <2> HIDE DEF b, c, h, w
  <2>1. CASE b = <<>>
    BY <1>1, <2>1 DEF InPlace, Waits
  <2>2. CASE b # <<>>
    BY <1>1, <2>2 DEF InPlace, Waits
  <2>3. QED BY <2>1, <2>2
<1>4. /\ Len(p) \in Nat /\ h.chunks \in Nat /\ w + 1 \in Nat
  <2> HIDE DEF p, h, w
  <2>1. QED BY <1>1, <1>3 DEF View
<1>5. /\ burst \in Seq(Nat \X Nat) /\ Len(burst) = Len(p) + 1
      /\ \A i \in 1 .. Len(burst) : burst[i] = <<c, h.chunks + i>>
  <2> HIDE DEF p, h, w, c
  <2>1. chunk \in Nat \X Nat /\ chunk = <<c, h.chunks + (Len(p) + 1)>>
    BY <1>1, <1>3, <1>4
  <2> HIDE DEF chunk
  <2>2. /\ burst \in Seq(Nat \X Nat) /\ Len(burst) = Len(p) + 1
        /\ \A i \in 1 .. Len(p) : burst[i] = p[i]
        /\ burst[Len(p) + 1] = chunk
    BY <1>3, <2>1
  <2> HIDE DEF burst
  <2>3. ASSUME NEW i \in 1 .. Len(p) + 1 PROVE burst[i] = <<c, h.chunks + i>>
    <3>1. CASE i \in 1 .. Len(p)
      BY <1>3, <2>2, <3>1
    <3>2. CASE i = Len(p) + 1
      BY <2>1, <2>2, <3>2
    <3>3. QED BY <1>4, <2>3, <3>1, <3>2
  <2>4. QED BY <2>2, <2>3
<1>6. burst[1] = <<c, h.chunks + 1>>
  <2>1. 1 \in 1 .. Len(burst)
    BY <1>4, <1>5
  <2>2. QED BY <1>5, <2>1
<1>7. /\ current' = [current EXCEPT ![t] = c] /\ wrote' = [wrote EXCEPT ![t] = w + 1]
      /\ starts' \in Nat /\ edges' = edges
  BY AsItIs DEF Pipes!AppendTerminalData
<1>8. DOMAIN windows' \subseteq edges'
  <2>1. \/ windows' = windows
        \/ \E n : windows' = Pipes!Forwarded(t, n, edges, windows)
    BY DEF Pipes!AppendTerminalData
  <2>2. DOMAIN windows \subseteq edges
    BY AsItIs
  <2>3. QED BY <1>7, <2>1, <2>2, ForwardedFollows
\* What was written up to this chunk, when it is heard.
<1> DEFINE full == [h EXCEPT !.chunks = w + 1]
<1>9. /\ full \in View /\ full.pty = c /\ ~full.ended /\ full.chunks = w + 1
  <2> HIDE DEF h, w, c
  <2>1. QED BY <1>1, <1>3, <1>4 DEF View
<1>10. CASE b = <<>>
  <2>1. p = <<>> /\ Len(p) = 0
    BY <1>10 DEF Waits
  <2>2. w = h.chunks
    BY <1>3, <1>4, <2>1
  <2> DEFINE now == Pipes!Hear(h, c, w + 1, w + 1)
  <2>3. now.ok = TRUE /\ now.view = full
    <3> HIDE DEF h, w, c
    <3>1. ~(w + 1 > w + 1) /\ w + 1 = h.chunks + 1
      BY <1>4, <2>2
    <3>2. QED BY <1>3, <3>1 DEF Pipes!Hear
  <2>4. /\ buffer' = [buffer EXCEPT ![t] = <<<<>>>>] /\ heard' = [heard EXCEPT ![t] = now.view]
        /\ misheard' = (misheard \/ ~now.ok)
    BY <1>10 DEF Pipes!AppendTerminalData
  <2> HIDE DEF now
  <2>5. misheard' = FALSE /\ heard' = [heard EXCEPT ![t] = full]
    BY <2>3, <2>4, AsItIs
  <2>6. InPlace(c, <<<<>>>>, full, w + 1)
    <3> DEFINE e == <<<<>>>>
    <3>1. e # <<>> /\ e = <<e[1]>> /\ e[1] = <<>> /\ e[1] \in Seq(Nat \X Nat)
      OBVIOUS
    <3>2. Waits(e) = <<>> /\ Len(Waits(e)) = 0 /\ 1 .. Len(Waits(e)) = {}
      BY <3>1 DEF Waits
    <3> HIDE DEF e, full, w, c, h
    <3>3. w + 1 = full.chunks + 0
      BY <1>4, <1>9
    <3>4. InPlace(c, e, full, w + 1)
      BY <1>1, <1>4, <1>9, <3>1, <3>2, <3>3 DEF InPlace
    <3>5. QED BY <3>4 DEF e
  <2> HIDE DEF full, c, w
  <2>7. QED BY <1>7, <1>8, <2>4, <2>5, <2>6, PipesOne
<1>11. CASE b # <<>> /\ Len(burst) < BufferParts
  <2>1. buffer' = [buffer EXCEPT ![t] = <<burst>>] /\ UNCHANGED <<heard, misheard>>
    BY <1>2, <1>11 DEF Pipes!AppendTerminalData
  <2>2. heard' = [heard EXCEPT ![t] = h] /\ misheard' = FALSE
    BY <2>1, AsItIs
  <2> HIDE DEF burst, h, c, w, p
  <2>3. InPlace(c, <<burst>>, h, w + 1)
    <3> DEFINE e == <<burst>>
    <3>1. e # <<>> /\ e = <<e[1]>> /\ e[1] = burst
      OBVIOUS
    <3>2. Waits(e) = burst
      BY <3>1 DEF Waits
    <3> HIDE DEF e
    <3>3. w + 1 = h.chunks + Len(burst)
      <4>1. w = h.chunks + Len(p) /\ Len(burst) = Len(p) + 1
        BY <1>3, <1>5
      <4>2. QED BY <1>4, <4>1
    <3>4. InPlace(c, e, h, w + 1)
      BY <1>1, <1>3, <1>4, <1>5, <3>1, <3>2, <3>3 DEF InPlace
    <3>5. QED BY <3>4 DEF e
  <2>4. QED BY <1>7, <1>8, <2>1, <2>2, <2>3, PipesOne
<1>12. CASE b # <<>> /\ ~(Len(burst) < BufferParts)
  <2> DEFINE all == Pipes!Hear(h, burst[1][1], burst[1][2], chunk[2])
  <2>1. /\ buffer' = [buffer EXCEPT ![t] = <<>>] /\ heard' = [heard EXCEPT ![t] = all.view]
        /\ misheard' = (misheard \/ ~all.ok)
    BY <1>2, <1>12 DEF Pipes!AppendTerminalData
  <2>2. all = Pipes!Hear(h, c, h.chunks + 1, w + 1)
    <3> HIDE DEF burst, h, w, c
    <3>1. QED BY <1>6
  <2> HIDE DEF all, burst, p
  <2>3. all.ok = TRUE /\ all.view = full
    <3> HIDE DEF h, w, c
    <3>1. ~(h.chunks + 1 > w + 1)
      BY <1>3, <1>4
    <3>2. QED BY <1>3, <2>2, <3>1 DEF Pipes!Hear
  <2>4. misheard' = FALSE /\ heard' = [heard EXCEPT ![t] = full]
    BY <2>1, <2>3, AsItIs
  <2> HIDE DEF full, c, w, h
  <2>5. InPlace(c, <<>>, full, w + 1)
    <3>1. Waits(<<>>) = <<>> /\ Len(Waits(<<>>)) = 0 /\ 1 .. Len(Waits(<<>>)) = {}
      BY DEF Waits
    <3>2. w + 1 = full.chunks + 0
      BY <1>4, <1>9
    <3>3. QED BY <1>1, <1>4, <1>9, <3>1, <3>2 DEF InPlace
  <2>6. QED BY <1>7, <1>8, <2>1, <2>4, <2>5, PipesOne
<1>13. QED BY <1>10, <1>11, <1>12

LEMMA PipesStopAll == ASSUME PipesInv, Pipes!StopAll PROVE PipesInv'
<1> DEFINE seen(t) == IF current[t] = 0 THEN [ok |-> TRUE, view |-> heard[t]] ELSE Pipes!FlushHeard(t)
<1>1. ASSUME NEW t \in Terminals PROVE seen(t).ok = TRUE /\ seen(t).view \in View
  BY FlushIsHeard, AsItIs
<1>2. /\ heard' = [t \in Terminals |-> seen(t).view]
      /\ misheard' = (misheard \/ \E t \in Terminals : ~seen(t).ok)
  BY DEF Pipes!StopAll
<1> HIDE DEF seen
<1>3. /\ buffer' = [t \in Terminals |-> IF current[t] = 0 THEN buffer[t] ELSE <<>>]
      /\ current' = [t \in Terminals |-> 0]
      /\ edges' = {} /\ windows' = <<>> /\ UNCHANGED <<wrote, starts>>
  BY DEF Pipes!StopAll
<1>4. misheard' = FALSE
  BY <1>1, <1>2 DEF PipesInv
<1>5. PipeTypes'
  BY <1>1, <1>2, <1>3 DEF PipesInv, PipeTypes
<1>6. ASSUME NEW t \in Terminals PROVE InPlace(current'[t], buffer'[t], heard'[t], wrote'[t])
  <2>1. current'[t] = 0 /\ buffer'[t] = <<>> /\ heard'[t] \in View /\ wrote'[t] \in Nat
    BY <1>1, <1>2, <1>3, AsItIs
  <2>2. QED BY <2>1, StoppedInPlace
<1>7. Pipes!PipesStayAcyclic' /\ edges' \subseteq Terminals \X Terminals
  BY <1>3, CutStaysAcyclic DEF PipesInv
<1>8. Pipes!WindowsFollowCables'
  BY <1>3 DEF Pipes!WindowsFollowCables
<1>9. QED BY <1>4, <1>5, <1>6, <1>7, <1>8 DEF PipesInv

LEMMA PipesStep == PipesInv /\ [Pipes!Next]_pipeVars => PipesInv'
<1> SUFFICES ASSUME PipesInv, [Pipes!Next]_pipeVars PROVE PipesInv'
  OBVIOUS
<1>1. CASE Pipes!Tick \/ UNCHANGED pipeVars
  <2>1. UNCHANGED <<current, buffer, heard, wrote, misheard, starts, edges, windows>>
    BY <1>1 DEF Pipes!Tick, pipeVars
  <2>2. Pipes!PipesStayAcyclic'
    BY <2>1, CutStaysAcyclic DEF PipesInv
  <2>3. QED BY <2>1, <2>2, PipesCalm DEF PipesInv, Pipes!WindowsFollowCables
<1>2. QED
  BY <1>1, PipesStopAll, CablesChange, PipesFlush, PipesAppend, PipesStop, PipesStart, PipesExit
  DEF Pipes!Next

\* A view of Pending that the property takes.
LEMMA PipesInPlace ==
  PipesInv => Pipes!PipesStayAcyclic /\ Pipes!WindowsFollowCables /\ Pipes!OutputInPlace
<1> SUFFICES ASSUME PipesInv PROVE Pipes!OutputInPlace
  BY DEF PipesInv
<1>1. ASSUME NEW t \in Terminals, buffer[t] # <<>>
      PROVE  /\ current[t] # 0 /\ heard[t].pty = current[t]
             /\ \A i \in 1 .. Len(Pipes!Pending(t)) :
                  Pipes!Pending(t)[i] = <<current[t], heard[t].chunks + i>>
  <2>1. InPlace(current[t], buffer[t], heard[t], wrote[t])
    BY DEF PipesInv
  <2>2. Pipes!Pending(t) = Waits(buffer[t])
    BY DEF Pipes!Pending, Waits
  <2>3. QED BY <1>1, <2>1, <2>2 DEF InPlace
<1>2. QED BY <1>1 DEF PipesInv, Pipes!OutputInPlace

\* For any terminals, whatever cables are drawn and cut, and PTYs replaced: no output
\* goes round, counts are kept of drawn cables only, and output is heard in its place.
THEOREM PipesSafe == Spec => [](part = "pipes" => PipesInv)
<1>1. Init => (part = "pipes" => PipesInv)
  BY PipesInitially DEF Init
<1>2. (part = "pipes" => PipesInv) /\ [Next]_partVars => (part = "pipes" => PipesInv)'
  BY PipesMoves, PipesStep, PartStays
<1>3. QED BY <1>1, <1>2, PTL DEF Spec

-----------------------------------------------------------------------------
(* The properties of Parts *)

\* For any sockets and requests: a socket answers the requests it received in their
\* order and each once, by the last event of the request, and nothing follows the
\* error that ends it.
THEOREM SocketsAnswerOnce == Spec => []OneAnswerPerRequest
<1>1. (part = "bridge" => BridgeInv) => OneAnswerPerRequest
  BY BridgeAnswers DEF OneAnswerPerRequest
<1>2. QED BY <1>1, BridgeSafe, PTL

\* For any tools, approvals, downloads and installs: a tool that needs it runs with
\* its own approval only, given in time, and what is installed or offered was found
\* genuine when its download ended.
THEOREM EverythingIsChecked == Spec => []NothingRunsUnchecked
<1>1. /\ part = "tools" => ToolsInv
      /\ part = "updater" => UpdaterInv
      => NothingRunsUnchecked
  BY ToolsApprove DEF NothingRunsUnchecked, UpdaterInv
<1>2. QED BY <1>1, ToolsSafe, UpdaterSafe, PTL

\* For any entries, records, keys, migrations, failures and crashes between two steps.
\* Of the recent entries of the ledger, a torn write or a crash costs one at most.
\* The file of a store or its backup has what its last call saved, and a store that
\* rolls back answers from it, unless it began without its backup.  A receipt stays and
\* keeps writers out, unless two rewrites overlapped or the check crossed a rewrite.
\* A saved key is found and a removed one is not, but for those in undone and a
\* vault that cannot be read; and none is newly written in clear text.
THEOREM AcknowledgedSurvives == Spec => []FilesSurvive
<1>1. /\ part = "ledger" => LedgerInv
      /\ part = "records" => StoreInv
      /\ part = "migration" => MigrationInv
      /\ part = "config" => ConfigInv
      => FilesSurvive
  BY LedgerKeeps
  DEF FilesSurvive, StoreInv, MigrationInv, ConfigInv, Records!SavedSurvives
<1>2. QED BY <1>1, LedgerSafe, RecordsSafe, MigrationSafe, ConfigSafe, PTL

\* For any logs, refreshes, limits, failures and crashes between two steps: a token
\* event is once in the file, and once in memory unless memory has lost its keys; what
\* the saved offset is past is in the file or its rewrite, or was dropped for its age,
\* joined to a line cut short, or left in a backup that nobody reads.
THEOREM EventsCounted == Spec => []EventsAreCounted
<1>1. (part = "usage" => UsageInv) => EventsAreCounted
  BY UsageCounts DEF EventsAreCounted
<1>2. QED BY <1>1, UsageSafe, PTL

\* For any terminals: the cables close no circle, the windows of the rate limit are
\* those of drawn cables, and a subscriber of a terminal's output hears it in its
\* order and as that of the session that wrote it.
THEOREM OutputKeepsItsPlace == Spec => []OutputFollowsCables
<1>1. (part = "pipes" => PipesInv) => OutputFollowsCables
  BY PipesInPlace DEF OutputFollowsCables
<1>2. QED BY <1>1, PipesSafe, PTL

\* For any projects, seats and policies, in memory and in the files: no role is of a
\* seat that is gone, and the handoffs of a role keep to the cooldown and, as far as
\* the list of events reaches, to the limit of an hour.
THEOREM RolesAreHeld == Spec => []OrchestrationIsSound
<1>1. (part = "orchestration" => OrchestrationInv) => OrchestrationIsSound
  BY OrchestrationHolds DEF OrchestrationIsSound
<1>2. QED BY <1>1, OrchestrationSafe, PTL

\* For any calls: one that is answered with success is in the file of the project it
\* was written for, or no project was bound.
THEOREM AnswersAreWritten == Spec => AnsweredIsSaved
<1>1. (part = "orchestration" => OrchestrationInv) /\ [Next]_partVars
      => [part = "orchestration" => Orchestra!AnswersSaved]_partVars
  BY OrchestrationMoves, AnswersAreSaved
<1>2. QED BY <1>1, OrchestrationSafe, PTL DEF Spec, AnsweredIsSaved
=============================================================================
