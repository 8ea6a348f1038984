------------------------- MODULE BridgeServiceProofs -------------------------
(***************************************************************************)
(* For any set of requests: one turn at a time is open for a target.  The  *)
(* code never checks this.  It follows from two locks that overlap: the    *)
(* place in the line, which an ask keeps until its turn is over, and the   *)
(* pending cycle, which a send leaves behind when it gives up its place.   *)
(* The invariant must speak of turns that are settled and whose callbacks  *)
(* have not run (Live): until then the cycle of the turn is still pending, *)
(* and clearing it must not clear the cycle of another.                    *)
(*                                                                         *)
(* Most actions arm nothing; what they have in common is in SettlingStep.  *)
(***************************************************************************)
EXTENDS BridgeService, SequenceTheorems, FiniteSetTheorems, TLAPS

\* The values of BridgeTaskCycles, whatever the cache holds.
Entry == [generation : Nat, payload : Requests, persistent : BOOLEAN]

Objects(S) ==
  [generations : [{Target} -> Nat], pending : [{Target} -> Entry \cup {None}], cache : S]

IsCycles(c) == \E S : c \in Objects(S)

SamePending(c, d) == d.generations = c.generations /\ d.pending = c.pending

\* A change of the cache alone keeps the generations and the pending entry.
LEMMA SetCache ==
  ASSUME NEW c, IsCycles(c), NEW cache
  PROVE  IsCycles([c EXCEPT !.cache = cache]) /\ SamePending(c, [c EXCEPT !.cache = cache])
<1> PICK S : c \in Objects(S)
  BY DEF IsCycles
<1> DEFINE d == [c EXCEPT !.cache = cache]
<1>1. d \in Objects({cache}) 
  BY DEF Objects
<1>2. d.generations = c.generations /\ d.pending = c.pending
  BY DEF Objects
<1> HIDE DEF d
<1>3. IsCycles(d) /\ SamePending(c, d)
  BY <1>1, <1>2 DEF IsCycles, SamePending
<1>4. QED
  BY <1>3 DEF d

\* A new object has nothing pending.
LEMMA NewCyclesLemma == IsCycles(C!NewCycles) /\ ~C!HasPending(C!NewCycles, Target)
<1>1. C!NewCycles \in Objects({<<>>})
  BY DEF Objects, C!NewCycles
<1>2. ~C!HasPending(C!NewCycles, Target)
  BY DEF C!NewCycles, C!HasPending
<1>3. QED
  BY <1>1, <1>2 DEF IsCycles

\* begin() keeps the pending entry.
LEMMA BeginLemma ==
  ASSUME NEW c, IsCycles(c)
  PROVE  IsCycles(C!Begin(c, Target)) /\ C!Begin(c, Target).pending = c.pending
<1> PICK S : c \in Objects(S)
  BY DEF IsCycles
<1> DEFINE begun == [c EXCEPT !.generations[Target] = @ + 1]
<1>1. begun \in Objects(S) /\ begun.pending = c.pending
  BY DEF Objects
<1>2. C!Begin(c, Target) = [begun EXCEPT !.cache = C!Without(c.cache, Target)]
  BY DEF C!Begin
<1> HIDE DEF begun
<1>3. QED
  BY <1>1, <1>2, SetCache DEF IsCycles, SamePending

\* cacheOutcome() changes the cache only.
LEMMA CacheOutcomeLemma ==
  ASSUME NEW c, IsCycles(c), NEW g, NEW o, NEW t
  PROVE  /\ IsCycles(C!CacheOutcome(c, Target, g, o, t))
         /\ SamePending(c, C!CacheOutcome(c, Target, g, o, t))
BY SetCache DEF C!CacheOutcome, SamePending

\* cachedOutcome() changes the cache only.
LEMMA LookedLemma ==
  ASSUME NEW c, IsCycles(c)
  PROVE  IsCycles(C!Looked(c, Target, 0)) /\ SamePending(c, C!Looked(c, Target, 0))
BY SetCache DEF C!Looked, SamePending

\* setPending() leaves the new entry pending.
LEMMA SetPendingLemma ==
  ASSUME NEW c, IsCycles(c), NEW g \in Nat, NEW r \in Requests, NEW p \in BOOLEAN
  PROVE  LET d == C!SetPending(c, Target, g, r, p)
         IN /\ IsCycles(d) /\ d.generations = c.generations
            /\ C!HasPending(d, Target)
            /\ d.pending[Target].payload = r
            /\ d.pending[Target].generation = g
<1> PICK S : c \in Objects(S)
  BY DEF IsCycles
<1> DEFINE e == [generation |-> g, payload |-> r, persistent |-> p]
<1> DEFINE d == [c EXCEPT !.pending[Target] = e]
<1>1. e \in Entry /\ e # None /\ e.payload = r /\ e.generation = g
  BY NoneIsNoEntry DEF Entry
<1>2. C!SetPending(c, Target, g, r, p) = d
  BY DEF C!SetPending
<1> HIDE DEF e
<1>3. d \in Objects(S) /\ d.generations = c.generations /\ d.pending[Target] = e
  BY <1>1 DEF Objects
<1> HIDE DEF d
<1>4. QED
  BY <1>1, <1>2, <1>3 DEF C!HasPending, IsCycles

\* An entry that is deleted is not pending.
LEMMA ForgetLemma ==
  ASSUME NEW c, IsCycles(c)
  PROVE  LET d == [c EXCEPT !.pending[Target] = None]
         IN IsCycles(d) /\ d.generations = c.generations /\ ~C!HasPending(d, Target)
<1> PICK S : c \in Objects(S)
  BY DEF IsCycles
<1> DEFINE d == [c EXCEPT !.pending[Target] = None]
<1>1. d \in Objects(S) /\ d.generations = c.generations /\ d.pending[Target] = None
  BY DEF Objects
<1> HIDE DEF d
<1>2. IsCycles(d) /\ d.generations = c.generations /\ ~C!HasPending(d, Target)
  BY <1>1 DEF C!HasPending, IsCycles
<1>3. QED
  BY <1>2 DEF d

\* cancelPending() leaves nothing pending.
LEMMA CancelPendingLemma ==
  ASSUME NEW c, IsCycles(c)
  PROVE  LET d == C!CancelPending(c, Target)
         IN IsCycles(d) /\ d.generations = c.generations /\ ~C!HasPending(d, Target)
BY ForgetLemma DEF C!CancelPending

\* complete() deletes the entry of its own generation and no other.
LEMMA CompleteLemma ==
  ASSUME NEW c, IsCycles(c), NEW g, NEW o, NEW t
  PROVE  LET d == C!Complete(c, Target, g, o, t)
         IN /\ IsCycles(d) /\ d.generations = c.generations
            /\ IF C!IsPendingFor(c, Target, g) THEN ~C!HasPending(d, Target)
               ELSE d.pending = c.pending
<1> DEFINE b == C!ClearPending(c, Target, g)
<1>1. /\ IsCycles(b) /\ b.generations = c.generations
      /\ IF C!IsPendingFor(c, Target, g) THEN ~C!HasPending(b, Target) ELSE b = c
  BY ForgetLemma DEF C!ClearPending
<1> HIDE DEF b
<1>2. C!Complete(c, Target, g, o, t) = C!CacheOutcome(b, Target, g, o, t)
  BY DEF C!Complete, b
<1>3. QED
  BY <1>1, <1>2, CacheOutcomeLemma DEF SamePending, C!HasPending

------------------------------------------------------------------------------
Stages == {"idle", "queued", "delivering", "waiting", "headless", "done"}
Promises == Settled \cup {"none", "open"}
Deliveries == {"none", "running", "acked", "cancelled", "refused", "threw"}

ReqsWith(S) ==
  [Requests -> [op : Ops \cup {None}, pc : Stages, generation : Nat, aborted : BOOLEAN,
                awaits : Requests \cup {None}, reply : S]]

ReqShape == \E S : req \in ReqsWith(S)

Turns ==
  [Requests -> [promise : Promises, delivery : Deliveries, stopped : BOOLEAN, reacted : BOOLEAN]]

TurnShape == turn \in Turns

Shape == ReqShape /\ TurnShape /\ IsCycles(cycles)

\* A request that has not begun has no turn; callbacks follow the settlement.
Fresh ==
  \A q \in Requests :
    /\ req[q].pc \in {"idle", "queued"} => turn[q].promise = "none"
    /\ turn[q].promise \in {"none", "open"} => ~turn[q].reacted

\* A turn is alive while it is open or its callbacks are due.
Live(q) == turn[q].promise = "open" \/ Unreacted(q)

\* One turn at a time is alive.
OneLive == \A q, r \in Requests : Live(q) /\ Live(r) => q = r

\* The pending cycle belongs to a live turn of the current generation.
PendingIsCurrent ==
  HasPending =>
    /\ Live(PendingPayload)
    /\ req[PendingPayload].op \in {"send", "wait"}
    /\ cycles.pending[Target].generation = Generation
    /\ req[PendingPayload].generation = Generation

\* An open turn is held by the pending cycle, or by its ask that keeps its place.
OpenIsHeld ==
  \A q \in Requests : turn[q].promise = "open" =>
    \/ HasPending /\ PendingPayload = q
    \/ req[q].op = "ask" /\ req[q].pc \in {"delivering", "waiting"}

\* An ask awaits its own turn.
AsksAwaitThemselves ==
  \A q \in Requests : req[q].op = "ask" /\ req[q].pc = "waiting" => req[q].awaits = q

\* The inductive invariant.
IInv ==
  /\ AgentOK /\ LineOK /\ Shape
  /\ Fresh /\ OneLive /\ PendingIsCurrent /\ OpenIsHeld /\ AsksAwaitThemselves

\* The payload of the pending cycle is a request.
LEMMA PayloadLemma ==
  ASSUME IsCycles(cycles)
  PROVE  /\ HasPending => PendingPayload \in Requests
         /\ HasPending => PendingPayload = cycles.pending[Target].payload
         /\ Generation \in Nat
<1> PICK S : cycles \in Objects(S)
  BY DEF IsCycles
<1>1. HasPending => cycles.pending[Target] \in Entry
  BY DEF Objects, HasPending, C!HasPending
<1>2. QED
  BY <1>1 DEF PendingPayload, Entry, Generation, C!Generation, Objects

------------------------------------------------------------------------------
\* From t to u, turns are settled and nothing else.
SettlesTo(t, u) ==
  \A q \in Requests :
    /\ u[q].reacted = t[q].reacted
    /\ \/ u[q].promise = t[q].promise
       \/ t[q].promise = "open" /\ u[q].promise \in Settled

OnlySettles == SettlesTo(turn, turn')

\* No handler starts over, and an ask whose turn stays open keeps its place.
HandlersGoOn ==
  \A q \in Requests :
    /\ req'[q].generation = req[q].generation
    /\ req[q].pc # "idle" => req'[q].op = req[q].op
    /\ req'[q].pc = "delivering" => req[q].pc = "delivering"
    /\ req'[q].pc \in {"idle", "queued"} => req[q].pc \in {"idle", "queued"}
    /\ req[q].op = "ask" /\ turn'[q].promise = "open" /\ req[q].pc \in {"delivering", "waiting"}
         => req'[q].pc \in {"delivering", "waiting"}
    /\ req'[q].op = "ask" /\ req'[q].pc = "waiting" => req'[q].awaits = q

Settling == OnlySettles /\ HandlersGoOn

\* The pending entry stays, or goes when its turn is not open any more.
PendingKept ==
  /\ HasPending' =>
       HasPending /\ cycles'.pending = cycles.pending /\ cycles'.generations = cycles.generations
  /\ HasPending /\ ~HasPending' => turn'[PendingPayload].promise # "open"

\* A step that arms nothing, ends no handler whose ask is open, and drops a
\* pending entry only when its turn is settled, keeps the invariant.
LEMMA SettlingStep ==
  ASSUME IInv, AgentOK', LineOK', Shape', OnlySettles, HandlersGoOn, PendingKept
  PROVE  IInv' /\ Settling
<1>1. /\ HasPending => PendingPayload \in Requests
      /\ HasPending' => HasPending /\ PendingPayload' = PendingPayload /\ Generation' = Generation
                          /\ (cycles.pending[Target].generation)' = cycles.pending[Target].generation
  BY PayloadLemma DEF IInv, Shape, PendingKept, Generation, C!Generation, PendingPayload
<1>2. \A q \in Requests : Live(q) => req[q].pc \notin {"idle", "queued"} /\ req'[q].op = req[q].op
  BY DEF IInv, Fresh, Live, Unreacted, HandlersGoOn, Settled, Failures
<1>3. \A q \in Requests : Live(q)' <=> Live(q)
  BY DEF IInv, Fresh, Live, Unreacted, OnlySettles, SettlesTo, Settled, Failures
<1>4. Fresh'
  BY DEF IInv, Fresh, OnlySettles, SettlesTo, HandlersGoOn, Settled, Failures
<1>5. OneLive'
  BY <1>3 DEF IInv, OneLive
<1>6. PendingIsCurrent'
  BY <1>1, <1>2, <1>3 DEF IInv, PendingIsCurrent, HandlersGoOn
<1>7. OpenIsHeld'
  <2> SUFFICES ASSUME NEW q \in Requests, turn'[q].promise = "open"
               PROVE  \/ HasPending' /\ PendingPayload' = q
                      \/ req'[q].op = "ask" /\ req'[q].pc \in {"delivering", "waiting"}
    BY DEF OpenIsHeld
  <2>1. turn[q].promise = "open"
    BY DEF OnlySettles, SettlesTo, Settled, Failures
  <2>2. CASE HasPending /\ PendingPayload = q
    BY <1>1, <2>2 DEF PendingKept
  <2>3. CASE req[q].op = "ask" /\ req[q].pc \in {"delivering", "waiting"}
    BY <2>3 DEF HandlersGoOn
  <2>4. QED
    BY <2>1, <2>2, <2>3 DEF IInv, OpenIsHeld
<1>8. AsksAwaitThemselves'
  BY DEF AsksAwaitThemselves, HandlersGoOn
<1>9. QED
  BY <1>4, <1>5, <1>6, <1>7, <1>8 DEF IInv, Settling

------------------------------------------------------------------------------
\* The first call leaves the line.
LEMMA PopLine ==
  ASSUME NEW s \in Seq(Requests), IsInjective(s), s # <<>>
  PROVE  /\ Tail(s) \in Seq(Requests) /\ IsInjective(Tail(s))
         /\ Range(Tail(s)) = Range(s) \ {Head(s)}
<1> DEFINE n == Len(s)
<1>1. n \in Nat /\ n > 0 /\ DOMAIN s = 1 .. n /\ Head(s) = s[1]
  BY EmptySeq
<1>2. Tail(s) \in Seq(Requests) /\ Len(Tail(s)) = n - 1 /\ DOMAIN Tail(s) = 1 .. n - 1
  BY <1>1, HeadTailProperties
<1>3. \A i \in 1 .. n - 1 : Tail(s)[i] = s[i + 1]
  BY <1>1, HeadTailProperties
<1>4. IsInjective(Tail(s))
  BY <1>1, <1>2, <1>3 DEF IsInjective
<1>5. Range(Tail(s)) \subseteq Range(s) \ {Head(s)}
  BY <1>1, <1>2, <1>3 DEF Range, IsInjective
<1>6. ASSUME NEW x \in Range(s), x # Head(s) PROVE x \in Range(Tail(s))
  <2>1. PICK i \in 1 .. n : s[i] = x
    BY <1>1 DEF Range
  <2>2. i - 1 \in 1 .. n - 1 /\ Tail(s)[i - 1] = x
    BY <2>1, <1>1, <1>3, <1>6
  <2>3. QED
    BY <2>2, <1>2 DEF Range
<1>7. QED
  BY <1>2, <1>4, <1>5, <1>6

\* A new call joins the line at its end.
LEMMA PushLine ==
  ASSUME NEW s \in Seq(Requests), IsInjective(s), NEW r \in Requests, r \notin Range(s)
  PROVE  /\ Append(s, r) \in Seq(Requests) /\ IsInjective(Append(s, r))
         /\ Range(Append(s, r)) = Range(s) \cup {r}
         /\ s # <<>> => Head(Append(s, r)) = Head(s)
<1> DEFINE n == Len(s)
<1> DEFINE t == Append(s, r)
<1>1. n \in Nat /\ DOMAIN s = 1 .. n /\ \A i \in 1 .. n : s[i] # r
  BY DEF Range
<1>2. t \in Seq(Requests) /\ Len(t) = n + 1 /\ DOMAIN t = 1 .. n + 1
  BY <1>1
<1>3. t[n + 1] = r /\ \A i \in 1 .. n : t[i] = s[i]
  BY <1>1
<1> HIDE DEF t
<1>4. IsInjective(t)
  BY <1>1, <1>2, <1>3 DEF IsInjective
<1>5. Range(t) = Range(s) \cup {r}
  BY <1>1, <1>2, <1>3 DEF Range
<1>6. s # <<>> => Head(t) = Head(s)
  BY <1>1, <1>2, <1>3, EmptySeq
<1>7. QED
  BY <1>2, <1>4, <1>5, <1>6 DEF t

\* What Reply() does, record by record.
LEMMA ReplyStep ==
  ASSUME IInv, NEW r \in Requests, NEW reply, Reply(r, reply),
         line # <<>>, Head(line) = r, req[r].pc \notin Idle
  PROVE  /\ ReqShape' /\ LineOK'
         /\ \A q \in Requests : q # r => req'[q] = req[q]
         /\ req'[r].pc = "done" /\ req'[r].op = req[r].op
         /\ req'[r].generation = req[r].generation
<1> PICK S : req \in ReqsWith(S)
  BY DEF IInv, Shape, ReqShape
<1> DEFINE a == [req EXCEPT ![r].pc = "done"]
<1> DEFINE b == [a EXCEPT ![r].awaits = None]
<1> DEFINE c == [b EXCEPT ![r].reply = reply]
<1>1. /\ a \in ReqsWith(S) /\ a[r].pc = "done" /\ \A q \in Requests : q # r => a[q] = req[q]
      /\ a[r].op = req[r].op /\ a[r].generation = req[r].generation
  BY DEF ReqsWith, Stages
<1> HIDE DEF a
<1>2. /\ b \in ReqsWith(S) /\ b[r].pc = "done" /\ \A q \in Requests : q # r => b[q] = req[q]
      /\ b[r].op = req[r].op /\ b[r].generation = req[r].generation
  BY <1>1 DEF ReqsWith
<1> HIDE DEF b
<1>3. /\ c \in ReqsWith(S \cup {reply}) /\ c[r].pc = "done"
      /\ \A q \in Requests : q # r => c[q] = req[q]
      /\ c[r].op = req[r].op /\ c[r].generation = req[r].generation
  BY <1>2 DEF ReqsWith
<1> HIDE DEF c
<1>4. req' = c /\ line' = Tail(line)
  BY DEF Reply, c, b, a
<1>5. LineOK'
  <2>1. /\ Tail(line) \in Seq(Requests) /\ IsInjective(Tail(line))
        /\ Range(Tail(line)) = Range(line) \ {r}
    BY PopLine DEF IInv, LineOK
  <2>2. \A q \in Requests : c[q].pc \notin Idle <=> req[q].pc \notin Idle /\ q # r
    BY <1>3 DEF Idle
  <2>3. \A q \in Requests : c[q].pc \notin {"delivering", "waiting", "headless"}
    BY <1>3 DEF IInv, LineOK
  <2>4. QED
    BY <1>4, <2>1, <2>2, <2>3 DEF IInv, LineOK
<1>6. QED
  BY <1>3, <1>4, <1>5 DEF ReqShape

\* A handler that has begun is at the head of the line.
LEMMA HeadLemma ==
  ASSUME IInv, NEW r \in Requests
  PROVE  /\ req[r].pc \in Stages
         /\ req[r].pc \notin Idle => line # <<>>
         /\ req[r].pc \in {"delivering", "waiting", "headless"} => Head(line) = r
<1>1. req[r].pc \notin Idle => r \in Range(line)
  BY DEF IInv, LineOK
<1>2. Range(<<>>) = {}
  BY DEF Range
<1>3. QED
  BY <1>1, <1>2 DEF IInv, LineOK, Shape, ReqShape, ReqsWith

\* A handler may end when no ask of its own is open.
LEMMA ReplyInvariant ==
  ASSUME IInv, NEW r \in Requests, NEW reply, Reply(r, reply), req[r].pc \notin Idle, Head(line) = r,
         AgentOK', TurnShape', IsCycles(cycles)', OnlySettles, PendingKept,
         req[r].op = "ask" /\ req[r].pc \in {"delivering", "waiting"} => turn'[r].promise # "open"
  PROVE  IInv' /\ Settling
<1>1. line # <<>>
  BY HeadLemma
<1>2. /\ ReqShape' /\ LineOK'
      /\ \A q \in Requests : q # r => req'[q] = req[q]
      /\ req'[r].pc = "done" /\ req'[r].op = req[r].op /\ req'[r].generation = req[r].generation
  BY <1>1, ReplyStep
<1>3. HandlersGoOn
  BY <1>2 DEF HandlersGoOn, IInv, AsksAwaitThemselves
<1>4. QED
  BY <1>2, <1>3, SettlingStep DEF Shape

\* A step that leaves the cycles alone drops no entry.
LEMMA NothingPendingKept ==
  ASSUME UNCHANGED cycles
  PROVE  PendingKept
BY DEF PendingKept, HasPending

\* A step that leaves the turns alone.
LEMMA NothingSettles ==
  ASSUME UNCHANGED turn
  PROVE  OnlySettles
BY DEF OnlySettles, SettlesTo

\* Skip keeps the invariant.
LEMMA SkipInvariant ==
  ASSUME IInv, NEW r \in Requests, Skip(r)
  PROVE  IInv' /\ Settling
<1>1. req[r].pc = "queued" /\ Head(line) = r /\ Reply(r, "error") /\ UNCHANGED <<agent, cycles, turn>>
  BY DEF Skip, CanBegin
<1>2. AgentOK' /\ TurnShape' /\ IsCycles(cycles)'
  BY <1>1 DEF IInv, Shape, AgentOK, TurnShape
<1>3. QED
  BY <1>1, <1>2, ReplyInvariant, NothingPendingKept, NothingSettles DEF Idle

\* RefuseBusy keeps the invariant.
LEMMA RefuseBusyInvariant ==
  ASSUME IInv, NEW r \in Requests, RefuseBusy(r)
  PROVE  IInv' /\ Settling
<1>1. req[r].pc = "queued" /\ Head(line) = r /\ Reply(r, "error") /\ UNCHANGED <<agent, cycles, turn>>
  BY DEF RefuseBusy, Begins, CanBegin
<1>2. AgentOK' /\ TurnShape' /\ IsCycles(cycles)'
  BY <1>1 DEF IInv, Shape, AgentOK, TurnShape
<1>3. QED
  BY <1>1, <1>2, ReplyInvariant, NothingPendingKept, NothingSettles DEF Idle

\* RefuseUnready keeps the invariant.
LEMMA RefuseUnreadyInvariant ==
  ASSUME IInv, NEW r \in Requests, RefuseUnready(r)
  PROVE  IInv' /\ Settling
<1>1. /\ req[r].pc = "queued" /\ Head(line) = r /\ Reply(r, "error") /\ UNCHANGED <<agent, turn>>
      /\ ~HasPending /\ cycles' = C!Begin(cycles, Target)
  BY DEF RefuseUnready, Begins, CanBegin
<1>2. AgentOK' /\ TurnShape'
  BY <1>1 DEF IInv, Shape, AgentOK, TurnShape
<1>3. IsCycles(cycles)' /\ cycles'.pending = cycles.pending
  BY <1>1, BeginLemma DEF IInv, Shape
<1>4. PendingKept
  BY <1>1, <1>3 DEF PendingKept, HasPending, C!HasPending
<1>5. QED
  BY <1>1, <1>2, <1>3, <1>4, ReplyInvariant, NothingSettles DEF Idle

\* AnswerFromCache keeps the invariant.
LEMMA AnswerFromCacheInvariant ==
  ASSUME IInv, NEW r \in Requests, AnswerFromCache(r)
  PROVE  IInv' /\ Settling
<1>1. /\ req[r].pc = "queued" /\ Head(line) = r /\ UNCHANGED <<agent, cycles, turn>>
      /\ \E o \in Cached : Reply(r, o.class)
  BY DEF AnswerFromCache, Begins, CanBegin
<1>2. AgentOK' /\ TurnShape' /\ IsCycles(cycles)'
  BY <1>1 DEF IInv, Shape, AgentOK, TurnShape
<1>3. PICK o \in Cached : Reply(r, o.class)
  BY <1>1
<1>4. QED
  BY <1>1, <1>2, <1>3, ReplyInvariant, NothingPendingKept, NothingSettles DEF Idle

\* RunEnds keeps the invariant.
LEMMA RunEndsInvariant ==
  ASSUME IInv, NEW r \in Requests, NEW class, RunEnds(r, class)
  PROVE  IInv' /\ Settling
<1>1. req[r].pc = "headless" /\ Reply(r, class) /\ UNCHANGED <<agent, cycles, turn>>
  BY DEF RunEnds
<1>2. AgentOK' /\ TurnShape' /\ IsCycles(cycles)' /\ Head(line) = r
  BY <1>1, HeadLemma DEF IInv, Shape, AgentOK, TurnShape
<1>3. QED
  BY <1>1, <1>2, ReplyInvariant, NothingPendingKept, NothingSettles DEF Idle

\* AnswerJoined keeps the invariant.
LEMMA AnswerJoinedInvariant ==
  ASSUME IInv, NEW r \in Requests, AnswerJoined(r)
  PROVE  IInv' /\ Settling
<1>1. /\ req[r].pc = "waiting" /\ req[r].awaits # r /\ UNCHANGED <<agent, cycles, turn>>
      /\ \E o : Reply(r, o.class)
  BY DEF AnswerJoined, CanAnswer, Joined
<1>2. AgentOK' /\ TurnShape' /\ IsCycles(cycles)' /\ Head(line) = r /\ req[r].op # "ask"
  BY <1>1, HeadLemma DEF IInv, Shape, AgentOK, TurnShape, AsksAwaitThemselves
<1>3. PICK o : Reply(r, o.class)
  BY <1>1
<1>4. QED
  BY <1>1, <1>2, <1>3, ReplyInvariant, NothingPendingKept, NothingSettles DEF Idle

\* AnswerOwn keeps the invariant.
LEMMA AnswerOwnInvariant ==
  ASSUME IInv, NEW r \in Requests, AnswerOwn(r)
  PROVE  IInv' /\ Settling
<1>1. /\ req[r].pc = "waiting" /\ req[r].awaits = r /\ UNCHANGED <<agent, turn>>
      /\ turn[r].promise \in Settled /\ Reply(r, turn[r].promise)
      /\ cycles' = IF req[r].aborted THEN cycles
                   ELSE C!CacheOutcome(cycles, Target, req[r].generation, Outcome(r), 0)
  BY DEF AnswerOwn, CanAnswer, Joined
<1>2. AgentOK' /\ TurnShape' /\ Head(line) = r /\ turn'[r].promise # "open"
  BY <1>1, HeadLemma DEF IInv, Shape, AgentOK, TurnShape, Settled, Failures
<1>3. IsCycles(cycles)' /\ SamePending(cycles, cycles')
  BY <1>1, CacheOutcomeLemma DEF IInv, Shape, SamePending
<1>4. PendingKept
  BY <1>3 DEF PendingKept, SamePending, HasPending, C!HasPending
<1>5. QED
  BY <1>1, <1>2, <1>3, <1>4, ReplyInvariant, NothingSettles DEF Idle

\* Settle() settles at most the turn it is given.
LEMMA SettleLemma ==
  ASSUME NEW t \in Turns, NEW r, NEW class \in Settled
  PROVE  /\ Settle(t, r, class) \in Turns /\ SettlesTo(t, Settle(t, r, class))
         /\ r \in Requests => Settle(t, r, class)[r].promise # "open"
<1>1. CASE r \in Requests /\ t[r].promise = "open"
  <2> DEFINE u == [t EXCEPT ![r].promise = class]
  <2>1. /\ u \in Turns /\ u[r].promise = class /\ u[r].reacted = t[r].reacted
        /\ \A q \in Requests : q # r => u[q] = t[q]
    BY <1>1 DEF Turns, Promises
  <2>2. Settle(t, r, class) = u
    BY <1>1 DEF Settle
  <2> HIDE DEF u
  <2>3. QED
    BY <1>1, <2>1, <2>2 DEF SettlesTo, Settled, Failures
<1>2. CASE ~(r \in Requests /\ t[r].promise = "open")
  BY <1>2 DEF Settle, SettlesTo
<1>3. QED
  BY <1>1, <1>2

\* Turns may be settled one after the other.
LEMMA SettlesToIsTransitive ==
  ASSUME NEW t, NEW u, NEW v, SettlesTo(t, u), SettlesTo(u, v)
  PROVE  SettlesTo(t, v)
BY DEF SettlesTo, Settled, Failures

\* CancelPending() settles the turn whose entry it drops.
LEMMA CancelInvariant ==
  ASSUME IInv, NEW t \in Turns, SettlesTo(turn, t), CancelPending(t)
  PROVE  /\ TurnShape' /\ IsCycles(cycles)' /\ OnlySettles /\ PendingKept
         /\ \A q \in Requests : t[q].promise # "open" => turn'[q].promise # "open"
<1>1. /\ turn' \in Turns /\ SettlesTo(t, turn')
      /\ HasPending => turn'[PendingPayload].promise # "open"
  BY SettleLemma, PayloadLemma DEF CancelPending, IInv, Shape, Settled, Failures
<1>2. IsCycles(cycles)' /\ ~HasPending'
  BY CancelPendingLemma DEF IInv, Shape, CancelPending, HasPending
<1>3. OnlySettles
  BY <1>1, SettlesToIsTransitive DEF OnlySettles
<1>4. PendingKept
  BY <1>1, <1>2 DEF PendingKept
<1>5. \A q \in Requests : t[q].promise # "open" => turn'[q].promise # "open"
  BY <1>1 DEF SettlesTo, Settled, Failures
<1>6. QED
  BY <1>1, <1>2, <1>3, <1>4, <1>5 DEF TurnShape

Agents ==
  [registered : BOOLEAN, alive : BOOLEAN, status : Statuses, reason : {None, "startup", "model"},
   checking : BOOLEAN, active : Requests \cup {None}, current : Requests \cup {None}]

GoodAgent(a) == a \in Agents /\ (a.checking => a.registered /\ a.status = "starting")

\* setState() keeps the type of an agent.
LEMMA SetStateLemma ==
  ASSUME NEW a, GoodAgent(a), NEW status \in Statuses, NEW reason \in {None, "startup", "model"}
  PROVE  LET b == SetState(a, status, reason)
         IN /\ GoodAgent(b)
            /\ b.registered = a.registered /\ b.active = a.active /\ b.current = a.current
            /\ b.status = IF a.registered THEN status ELSE a.status
<1>1. CASE a.registered
  <2> DEFINE b == [a EXCEPT !.status = status]
  <2> DEFINE c == [b EXCEPT !.reason = reason]
  <2> DEFINE d == [c EXCEPT !.checking = (status = "starting")]
  <2>1. b \in Agents /\ b.status = status /\ b.registered = a.registered
        /\ b.active = a.active /\ b.current = a.current
    BY DEF GoodAgent, Agents
  <2> HIDE DEF b
  <2>2. c \in Agents /\ c.status = status /\ c.registered = a.registered
        /\ c.active = a.active /\ c.current = a.current
    BY <2>1 DEF Agents
  <2> HIDE DEF c
  <2>3. d \in Agents /\ d.status = status /\ d.registered = a.registered
        /\ d.checking = (status = "starting")
        /\ d.active = a.active /\ d.current = a.current
    BY <2>2 DEF Agents
  <2> HIDE DEF d
  <2>4. SetState(a, status, reason) = d
    BY <1>1 DEF SetState, b, c, d
  <2>5. QED
    BY <1>1, <2>3, <2>4 DEF GoodAgent
<1>2. CASE ~a.registered
  BY <1>2 DEF SetState
<1>3. QED
  BY <1>1, <1>2

\* The type of the agent, as a predicate on records.
LEMMA AgentOKIsGood == AgentOK <=> GoodAgent(agent)
BY DEF AgentOK, GoodAgent, Agents

\* Refuse keeps the invariant.
LEMMA RefuseInvariant ==
  ASSUME IInv, NEW r \in Requests, Refuse(r)
  PROVE  IInv' /\ Settling
<1> DEFINE over == Settle(turn, r, RefusalClass(r))
<1>1. /\ req[r].pc = "delivering" /\ Reply(r, "error")
      /\ agent' = SetState(agent, "starting", None)
      /\ IF req[r].op = "send" THEN CancelPending(over) ELSE turn' = over /\ UNCHANGED cycles
  BY DEF Refuse, CanConclude
<1>2. over \in Turns /\ SettlesTo(turn, over) /\ over[r].promise # "open"
  BY SettleLemma DEF IInv, Shape, TurnShape, RefusalClass, Settled, Failures
<1> HIDE DEF over
<1>3. /\ TurnShape' /\ IsCycles(cycles)' /\ OnlySettles /\ PendingKept
      /\ turn'[r].promise # "open"
  <2>1. CASE req[r].op = "send"
    BY <1>1, <1>2, <2>1, CancelInvariant
  <2>2. CASE req[r].op # "send"
    BY <1>1, <1>2, <2>2, NothingPendingKept DEF TurnShape, OnlySettles, IInv, Shape
  <2>3. QED
    BY <2>1, <2>2
<1>4. AgentOK'
  <2>1. GoodAgent(agent)
    BY AgentOKIsGood DEF IInv
  <2>2. GoodAgent(agent')
    BY <1>1, <2>1, SetStateLemma DEF Statuses
  <2>3. QED
    BY <2>2 DEF AgentOK, GoodAgent, Agents
<1>5. QED
  BY <1>1, <1>3, <1>4, ReplyInvariant, HeadLemma DEF Idle

\* The handler at the head of the line moves on and keeps its place.
LEMMA MoveLine ==
  ASSUME IInv, NEW r \in Requests, UNCHANGED line, req[r].pc \notin Idle, Head(line) = r,
         req'[r].pc \notin Idle, \A q \in Requests : q # r => req'[q] = req[q]
  PROVE  LineOK'
<1>1. \A q \in Requests : req'[q].pc \notin Idle <=> req[q].pc \notin Idle
  BY DEF Idle
<1>2. \A q \in Requests : req'[q].pc \in {"delivering", "waiting", "headless"} => Head(line) = q
  BY DEF IInv, LineOK
<1>3. QED
  BY <1>1, <1>2 DEF IInv, LineOK

\* Accept keeps the invariant.
LEMMA AcceptInvariant ==
  ASSUME IInv, NEW r \in Requests, Accept(r)
  PROVE  IInv' /\ Settling
<1>1. /\ req[r].pc = "delivering" /\ UNCHANGED <<agent, cycles, turn>>
      /\ IF req[r].op = "send" THEN Reply(r, "accepted")
         ELSE req' = [req EXCEPT ![r].pc = "waiting", ![r].awaits = r] /\ UNCHANGED line
  BY DEF Accept, CanConclude
<1>2. AgentOK' /\ TurnShape' /\ IsCycles(cycles)' /\ Head(line) = r
  BY <1>1, HeadLemma DEF IInv, Shape, AgentOK, TurnShape
<1>3. CASE req[r].op = "send"
  BY <1>1, <1>2, <1>3, ReplyInvariant, NothingPendingKept, NothingSettles DEF Idle
<1>4. CASE req[r].op # "send"
  <2> PICK S : req \in ReqsWith(S)
    BY DEF IInv, Shape, ReqShape
  <2> DEFINE a == [req EXCEPT ![r].pc = "waiting"]
  <2> DEFINE b == [a EXCEPT ![r].awaits = r]
  <2>1. /\ a \in ReqsWith(S) /\ a[r].pc = "waiting" /\ \A q \in Requests : q # r => a[q] = req[q]
        /\ a[r].op = req[r].op /\ a[r].generation = req[r].generation
    BY DEF ReqsWith, Stages
  <2> HIDE DEF a
  <2>2. /\ b \in ReqsWith(S) /\ b[r].pc = "waiting" /\ \A q \in Requests : q # r => b[q] = req[q]
        /\ b[r].op = req[r].op /\ b[r].generation = req[r].generation /\ b[r].awaits = r
    BY <2>1 DEF ReqsWith
  <2> HIDE DEF b
  <2>3. req' = b /\ UNCHANGED line
    BY <1>1, <1>4 DEF a, b
  <2>4. LineOK'
    BY <1>1, <1>2, <2>2, <2>3, MoveLine DEF Idle
  <2>5. HandlersGoOn
    BY <1>1, <2>2, <2>3 DEF HandlersGoOn, IInv, AsksAwaitThemselves
  <2>6. QED
    BY <1>1, <1>2, <2>2, <2>3, <2>4, <2>5, SettlingStep, NothingPendingKept, NothingSettles
       DEF Shape, ReqShape
<1>5. QED
  BY <1>3, <1>4

\* Arrive keeps the invariant.
LEMMA ArriveInvariant ==
  ASSUME IInv, NEW r \in Requests, NEW op \in Ops, Arrive(r, op)
  PROVE  IInv' /\ Settling
<1> PICK S : req \in ReqsWith(S)
  BY DEF IInv, Shape, ReqShape
<1> DEFINE a == [req EXCEPT ![r].op = op]
<1> DEFINE b == [a EXCEPT ![r].pc = "queued"]
<1>1. /\ a \in ReqsWith(S) /\ a[r].pc = req[r].pc /\ \A q \in Requests : q # r => a[q] = req[q]
      /\ a[r].generation = req[r].generation
  BY DEF ReqsWith
<1> HIDE DEF a
<1>2. /\ b \in ReqsWith(S) /\ b[r].pc = "queued" /\ \A q \in Requests : q # r => b[q] = req[q]
      /\ b[r].generation = req[r].generation
  BY <1>1 DEF ReqsWith, Stages
<1> HIDE DEF b
<1>3. /\ req[r].pc = "idle" /\ UNCHANGED <<agent, cycles, turn>>
      /\ req' = b /\ line' = Append(line, r)
  BY DEF Arrive, a, b
<1>4. AgentOK' /\ TurnShape' /\ IsCycles(cycles)'
  BY <1>3 DEF IInv, Shape, AgentOK, TurnShape
<1>5. LineOK'
  <2>1. r \notin Range(line)
    BY <1>3 DEF IInv, LineOK, Idle
  <2>2. /\ line' \in Seq(Requests) /\ IsInjective(line') /\ Range(line') = Range(line) \cup {r}
        /\ line # <<>> => Head(line') = Head(line)
    BY <1>3, <2>1, PushLine DEF IInv, LineOK
  <2>3. \A q \in Requests : req'[q].pc \notin Idle <=> req[q].pc \notin Idle \/ q = r
    BY <1>2, <1>3 DEF Idle
  <2>4. \A q \in Requests :
          req'[q].pc \in {"delivering", "waiting", "headless"} => Head(line') = q
    BY <1>2, <1>3, <2>2, HeadLemma DEF Idle
  <2>5. QED
    BY <2>2, <2>3, <2>4 DEF IInv, LineOK
<1>6. HandlersGoOn
  BY <1>2, <1>3 DEF HandlersGoOn, IInv, AsksAwaitThemselves
<1>7. QED
  BY <1>2, <1>3, <1>4, <1>5, <1>6, SettlingStep, NothingPendingKept, NothingSettles
     DEF Shape, ReqShape

\* StartRun keeps the invariant.
LEMMA StartRunInvariant ==
  ASSUME IInv, NEW r \in Requests, StartRun(r)
  PROVE  IInv' /\ Settling
<1>1. /\ req[r].pc = "queued" /\ Head(line) = r /\ UNCHANGED <<agent, cycles, turn>>
      /\ \/ req' = [req EXCEPT ![r].pc = "headless"] /\ UNCHANGED line
         \/ Reply(r, "error")
  BY DEF StartRun, Begins, CanBegin
<1>2. AgentOK' /\ TurnShape' /\ IsCycles(cycles)'
  BY <1>1 DEF IInv, Shape, AgentOK, TurnShape
<1>3. CASE Reply(r, "error")
  BY <1>1, <1>2, <1>3, ReplyInvariant, NothingPendingKept, NothingSettles DEF Idle
<1>4. CASE req' = [req EXCEPT ![r].pc = "headless"] /\ UNCHANGED line
  <2> PICK S : req \in ReqsWith(S)
    BY DEF IInv, Shape, ReqShape
  <2>1. /\ req' \in ReqsWith(S) /\ req'[r].pc = "headless"
        /\ \A q \in Requests : q # r => req'[q] = req[q]
        /\ req'[r].op = req[r].op /\ req'[r].generation = req[r].generation
    BY <1>4 DEF ReqsWith, Stages
  <2>2. LineOK'
    BY <1>1, <1>4, <2>1, MoveLine DEF Idle
  <2>3. HandlersGoOn
    BY <1>1, <2>1 DEF HandlersGoOn, IInv, AsksAwaitThemselves
  <2>4. QED
    BY <1>1, <1>2, <2>1, <2>2, <2>3, SettlingStep, NothingPendingKept, NothingSettles
       DEF Shape, ReqShape
<1>5. QED
  BY <1>1, <1>3, <1>4

\* Join keeps the invariant.
LEMMA JoinInvariant ==
  ASSUME IInv, NEW r \in Requests, Join(r)
  PROVE  IInv' /\ Settling
<1> PICK S : req \in ReqsWith(S)
  BY DEF IInv, Shape, ReqShape
<1> DEFINE a == [req EXCEPT ![r].pc = "waiting"]
<1> DEFINE b == [a EXCEPT ![r].awaits = PendingPayload]
<1>1. /\ req[r].pc = "queued" /\ req[r].op = "wait" /\ Head(line) = r
      /\ HasPending /\ UNCHANGED <<agent, line, turn>>
      /\ req' = b /\ cycles' = C!Looked(cycles, Target, 0)
  BY DEF Join, Begins, CanBegin, C!IsPendingFor, HasPending
<1>2. /\ a \in ReqsWith(S) /\ a[r].pc = "waiting" /\ \A q \in Requests : q # r => a[q] = req[q]
      /\ a[r].op = req[r].op /\ a[r].generation = req[r].generation
  BY DEF ReqsWith, Stages
<1> HIDE DEF a
<1>3. /\ b \in ReqsWith(S) /\ b[r].pc = "waiting" /\ \A q \in Requests : q # r => b[q] = req[q]
      /\ b[r].op = req[r].op /\ b[r].generation = req[r].generation
  <2>1. PendingPayload \in Requests
    BY <1>1, PayloadLemma DEF IInv, Shape
  <2>2. QED
    BY <1>2, <2>1 DEF ReqsWith
<1> HIDE DEF b
<1>4. AgentOK' /\ TurnShape'
  BY <1>1 DEF IInv, Shape, AgentOK, TurnShape
<1>5. IsCycles(cycles)' /\ SamePending(cycles, cycles')
  BY <1>1, LookedLemma DEF IInv, Shape, SamePending
<1>6. PendingKept
  BY <1>5 DEF PendingKept, SamePending, HasPending, C!HasPending
<1>7. LineOK'
  BY <1>1, <1>3, MoveLine DEF Idle
<1>8. HandlersGoOn
  BY <1>1, <1>3 DEF HandlersGoOn, IInv, AsksAwaitThemselves
<1>9. QED
  BY <1>1, <1>3, <1>4, <1>5, <1>6, <1>7, <1>8, SettlingStep, NothingSettles DEF Shape, ReqShape

\* A step that leaves the requests and the line alone.
LEMMA ReqUnchangedInvariant ==
  ASSUME IInv, UNCHANGED <<line, req>>, AgentOK', TurnShape', IsCycles(cycles)', OnlySettles, PendingKept
  PROVE  IInv' /\ Settling
<1>1. LineOK' /\ ReqShape'
  BY DEF IInv, LineOK, Shape, ReqShape
<1>2. HandlersGoOn
  BY DEF HandlersGoOn, IInv, AsksAwaitThemselves
<1>3. QED
  BY <1>1, <1>2, SettlingStep DEF Shape

\* RequestAbort keeps the invariant.
LEMMA RequestAbortInvariant ==
  ASSUME IInv, NEW r \in Requests, RequestAbort(r)
  PROVE  IInv' /\ Settling
<1> PICK S : req \in ReqsWith(S)
  BY DEF IInv, Shape, ReqShape
<1>1. /\ req[r].pc \in {"queued", "delivering", "waiting", "headless"}
      /\ req' = [req EXCEPT ![r].aborted = TRUE]
      /\ \/ turn' = [turn EXCEPT ![r].stopped = TRUE]
         \/ turn' = Settle(turn, r, "cancelled")
         \/ turn' = turn
      /\ UNCHANGED <<agent, cycles, line>>
  BY DEF RequestAbort
<1>2. /\ req' \in ReqsWith(S) /\ \A q \in Requests : q # r => req'[q] = req[q]
      /\ req'[r].op = req[r].op /\ req'[r].generation = req[r].generation
      /\ req'[r].pc = req[r].pc /\ req'[r].awaits = req[r].awaits
  BY <1>1 DEF ReqsWith
<1>3. TurnShape' /\ OnlySettles
  <2>1. CASE turn' = [turn EXCEPT ![r].stopped = TRUE]
    <3>1. /\ turn' \in Turns /\ \A q \in Requests : q # r => turn'[q] = turn[q]
          /\ turn'[r].promise = turn[r].promise /\ turn'[r].reacted = turn[r].reacted
      BY <2>1 DEF Turns, IInv, Shape, TurnShape
    <3>2. QED
      BY <3>1 DEF TurnShape, OnlySettles, SettlesTo
  <2>2. CASE turn' = Settle(turn, r, "cancelled")
    BY <2>2, SettleLemma DEF TurnShape, OnlySettles, IInv, Shape, Settled, Failures
  <2>3. CASE turn' = turn
    BY <2>3, NothingSettles DEF TurnShape, IInv, Shape
  <2>4. QED
    BY <1>1, <2>1, <2>2, <2>3
<1>4. AgentOK' /\ IsCycles(cycles)'
  BY <1>1 DEF IInv, Shape, AgentOK
<1>5. LineOK'
  BY <1>1, <1>2 DEF IInv, LineOK
<1>6. HandlersGoOn
  BY <1>2 DEF HandlersGoOn, IInv, AsksAwaitThemselves
<1>7. QED
  BY <1>1, <1>2, <1>3, <1>4, <1>5, <1>6, SettlingStep, NothingPendingKept DEF Shape, ReqShape

\* With its place at the head of the line and nothing pending, a request finds
\* no turn alive: the turn of an ask would keep its place, any other its cycle.
LEMMA NobodyLive ==
  ASSUME IInv, NEW r \in Requests, Reacted, CanBegin(r), ~HasPending
  PROVE  \A q \in Requests : ~Live(q)
<1> SUFFICES ASSUME NEW q \in Requests, Live(q) PROVE FALSE
  OBVIOUS
<1>1. turn[q].promise = "open"
  BY DEF Live, Reacted
<1>2. req[q].pc \in {"delivering", "waiting"}
  BY <1>1 DEF IInv, OpenIsHeld
<1>3. Head(line) = q /\ Head(line) = r /\ req[r].pc = "queued"
  BY <1>2, HeadLemma DEF CanBegin
<1>4. QED
  BY <1>2, <1>3

\* A turn, or a waiter, was armed for r.
Armed(r) ==
  /\ \A q \in Requests : q # r => turn'[q] = turn[q] /\ req'[q] = req[q]
  /\ turn'[r].promise = "open" /\ turn'[r].reacted = turn[r].reacted
  /\ req'[r].op = req[r].op /\ req'[r].pc \in {"delivering", "waiting"}
  /\ req[r].op = "ask" => req'[r].pc = "delivering"

\* Arming a turn where none is alive keeps the invariant.
LEMMA ArmedInvariant ==
  ASSUME IInv, NEW r \in Requests, \A q \in Requests : ~Live(q),
         req[r].pc = "queued", Head(line) = r, UNCHANGED line, Armed(r),
         AgentOK', Shape',
         \/ ~HasPending' /\ req[r].op = "ask"
         \/ /\ HasPending' /\ PendingPayload' = r /\ req[r].op \in {"send", "wait"}
            /\ (cycles.pending[Target].generation)' = Generation'
            /\ req'[r].generation = Generation'
  PROVE  IInv' /\ \A q \in Requests : Live(q)' <=> q = r
<1>1. \A q \in Requests : Live(q)' <=> q = r
  BY DEF Live, Unreacted, Armed, Settled, Failures
<1>2. LineOK'
  BY MoveLine DEF Armed, Idle
<1>3. Fresh'
  BY DEF IInv, Fresh, Armed
<1>4. OneLive'
  BY <1>1 DEF OneLive
<1>5. PendingIsCurrent'
  BY <1>1 DEF PendingIsCurrent, Armed
<1>6. OpenIsHeld'
  BY <1>1 DEF OpenIsHeld, Live, Armed
<1>7. AsksAwaitThemselves'
  BY DEF IInv, AsksAwaitThemselves, Armed
<1>8. QED
  BY <1>1, <1>2, <1>3, <1>4, <1>5, <1>6, <1>7 DEF IInv

\* StartTurn keeps the invariant.
LEMMA StartTurnInvariant ==
  ASSUME IInv, NEW r \in Requests, StartTurn(r)
  PROVE  /\ IInv' /\ Armed(r) /\ req[r].op \in {"send", "ask"}
         /\ \A q \in Requests : ~Live(q) /\ (Live(q)' <=> q = r)
<1> PICK S : req \in ReqsWith(S)
  BY DEF IInv, Shape, ReqShape
<1> DEFINE begun == C!Begin(cycles, Target)
<1> DEFINE g == C!Generation(begun, Target)
<1> DEFINE ra == [req EXCEPT ![r].pc = "delivering"]
<1> DEFINE rb == [ra EXCEPT ![r].generation = g]
<1> DEFINE ta == [turn EXCEPT ![r].promise = "open"]
<1> DEFINE tb == [ta EXCEPT ![r].delivery = "running"]
<1> DEFINE aa == SetState(agent, "busy", None)
<1> DEFINE ab == [aa EXCEPT !.active = r]
<1> DEFINE ac == [ab EXCEPT !.current = r]
<1>1. /\ req[r].pc = "queued" /\ Head(line) = r /\ req[r].op \in {"send", "ask"}
      /\ ~HasPending /\ Reacted /\ CanBegin(r) /\ UNCHANGED line
      /\ cycles' = IF req[r].op = "send" THEN C!SetPending(begun, Target, g, r, TRUE) ELSE begun
      /\ req' = rb /\ turn' = tb /\ agent' = ac
  BY DEF StartTurn, Arm, Begins, CanBegin
<1>2. /\ IsCycles(begun) /\ begun.pending = cycles.pending /\ g \in Nat
      /\ ~C!HasPending(begun, Target)
  <2>1. IsCycles(begun) /\ begun.pending = cycles.pending
    BY BeginLemma DEF IInv, Shape
  <2>2. \A c : IsCycles(c) => C!Generation(c, Target) \in Nat
    BY DEF IsCycles, Objects, C!Generation
  <2>3. QED
    BY <1>1, <2>1, <2>2 DEF HasPending, C!HasPending
<1> HIDE DEF begun
<1>3. /\ IsCycles(cycles)'
      /\ \/ ~HasPending' /\ req[r].op = "ask"
         \/ /\ HasPending' /\ PendingPayload' = r /\ req[r].op \in {"send", "wait"}
            /\ (cycles.pending[Target].generation)' = Generation'
            /\ g = Generation'
  <2>1. CASE req[r].op = "send"
    <3>0. cycles' = C!SetPending(begun, Target, g, r, TRUE)
      BY <1>1, <2>1
    <3>1. /\ IsCycles(cycles') /\ cycles'.generations = begun.generations
          /\ C!HasPending(cycles', Target) /\ cycles'.pending[Target].payload = r
          /\ cycles'.pending[Target].generation = g
      BY <1>2, <3>0, SetPendingLemma
    <3>2. Generation' = g
      BY <3>1 DEF Generation, C!Generation
    <3>3. QED
      BY <2>1, <3>1, <3>2 DEF HasPending, PendingPayload
  <2>2. CASE req[r].op = "ask"
    BY <1>1, <1>2, <2>2 DEF HasPending
  <2>3. QED
    BY <1>1, <2>1, <2>2
<1> HIDE DEF g
<1>4. /\ rb \in ReqsWith(S) /\ rb[r].pc = "delivering" /\ rb[r].op = req[r].op
      /\ rb[r].generation = g /\ \A q \in Requests : q # r => rb[q] = req[q]
  <2>1. /\ ra \in ReqsWith(S) /\ ra[r].pc = "delivering" /\ ra[r].op = req[r].op
        /\ \A q \in Requests : q # r => ra[q] = req[q]
    BY DEF ReqsWith, Stages
  <2> HIDE DEF ra
  <2>2. QED
    BY <1>2, <2>1 DEF ReqsWith
<1>5. /\ tb \in Turns /\ tb[r].promise = "open" /\ tb[r].reacted = turn[r].reacted
      /\ \A q \in Requests : q # r => tb[q] = turn[q]
  <2>1. /\ ta \in Turns /\ ta[r].promise = "open" /\ ta[r].reacted = turn[r].reacted
        /\ \A q \in Requests : q # r => ta[q] = turn[q]
    BY DEF IInv, Shape, TurnShape, Turns, Promises
  <2> HIDE DEF ta
  <2>2. QED
    BY <2>1 DEF Turns, Deliveries
<1>6. GoodAgent(ac)
  <2>1. GoodAgent(aa)
    BY AgentOKIsGood, SetStateLemma DEF IInv, Statuses
  <2> HIDE DEF aa
  <2>2. GoodAgent(ab)
    BY <2>1 DEF GoodAgent, Agents
  <2> HIDE DEF ab
  <2>3. QED
    BY <2>2 DEF GoodAgent, Agents
<1> HIDE DEF rb, tb, ac
<1>7. AgentOK' /\ Shape'
  BY <1>1, <1>3, <1>4, <1>5, <1>6 DEF AgentOK, GoodAgent, Agents, Shape, ReqShape, TurnShape
<1>8. Armed(r)
  BY <1>1, <1>4, <1>5 DEF Armed
<1>9. \A q \in Requests : ~Live(q)
  BY <1>1, NobodyLive
<1>10. QED
  BY <1>1, <1>3, <1>4, <1>7, <1>8, <1>9, ArmedInvariant

\* ArmWaiter keeps the invariant.
LEMMA ArmWaiterInvariant ==
  ASSUME IInv, NEW r \in Requests, ArmWaiter(r)
  PROVE  /\ IInv' /\ Armed(r) /\ req[r].op = "wait"
         /\ \A q \in Requests : ~Live(q) /\ (Live(q)' <=> q = r)
<1> PICK S : req \in ReqsWith(S)
  BY DEF IInv, Shape, ReqShape
<1> DEFINE looked == C!Looked(cycles, Target, 0)
<1> DEFINE ra == [req EXCEPT ![r].pc = "waiting"]
<1> DEFINE rb == [ra EXCEPT ![r].awaits = r]
<1> DEFINE rc == [rb EXCEPT ![r].generation = Generation]
<1>1. /\ req[r].pc = "queued" /\ Head(line) = r /\ req[r].op = "wait"
      /\ ~C!IsPendingFor(cycles, Target, Generation) /\ Reacted /\ CanBegin(r)
      /\ UNCHANGED <<agent, line>>
      /\ cycles' = C!SetPending(looked, Target, Generation, r, FALSE)
      /\ req' = rc /\ turn' = [turn EXCEPT ![r].promise = "open"]
  BY DEF ArmWaiter, Begins, CanBegin
<1>2. IsCycles(looked) /\ SamePending(cycles, looked)
  BY LookedLemma DEF IInv, Shape
<1>3. Generation \in Nat
  BY PayloadLemma DEF IInv, Shape
<1> HIDE DEF looked
<1>4. /\ IsCycles(cycles)' /\ HasPending' /\ PendingPayload' = r
      /\ (cycles.pending[Target].generation)' = Generation' /\ Generation' = Generation
  <2>1. /\ IsCycles(cycles') /\ cycles'.generations = looked.generations
        /\ C!HasPending(cycles', Target) /\ cycles'.pending[Target].payload = r
        /\ cycles'.pending[Target].generation = Generation
    BY <1>1, <1>2, <1>3, SetPendingLemma
  <2>2. Generation' = Generation
    BY <1>2, <2>1 DEF SamePending, Generation, C!Generation
  <2>3. QED
    BY <2>1, <2>2 DEF HasPending, PendingPayload
<1>5. /\ rc \in ReqsWith(S) /\ rc[r].pc = "waiting" /\ rc[r].op = req[r].op
      /\ rc[r].generation = Generation /\ \A q \in Requests : q # r => rc[q] = req[q]
  <2>1. /\ ra \in ReqsWith(S) /\ ra[r].pc = "waiting" /\ ra[r].op = req[r].op
        /\ \A q \in Requests : q # r => ra[q] = req[q]
    BY DEF ReqsWith, Stages
  <2> HIDE DEF ra
  <2>2. /\ rb \in ReqsWith(S) /\ rb[r].pc = "waiting" /\ rb[r].op = req[r].op
        /\ \A q \in Requests : q # r => rb[q] = req[q]
    BY <2>1 DEF ReqsWith
  <2> HIDE DEF rb
  <2>3. QED
    BY <1>3, <2>2 DEF ReqsWith
<1> HIDE DEF rc
<1>6. /\ turn' \in Turns /\ turn'[r].promise = "open" /\ turn'[r].reacted = turn[r].reacted
      /\ \A q \in Requests : q # r => turn'[q] = turn[q]
  BY <1>1 DEF IInv, Shape, TurnShape, Turns, Promises
<1>7. AgentOK' /\ Shape'
  BY <1>1, <1>4, <1>5, <1>6 DEF IInv, AgentOK, Shape, ReqShape, TurnShape
<1>8. Armed(r)
  BY <1>1, <1>5, <1>6 DEF Armed
<1>9. ~HasPending
  BY <1>1 DEF IInv, PendingIsCurrent, C!IsPendingFor, HasPending
<1>10. \A q \in Requests : ~Live(q)
  BY <1>1, <1>9, NobodyLive
<1>11. QED
  BY <1>1, <1>4, <1>5, <1>7, <1>8, <1>10, ArmedInvariant

\* When the callbacks of a turn that is not an ask have run, nothing is pending.
LEMMA CycleOverLemma ==
  ASSUME IInv, NEW r \in Requests, Unreacted(r), req[r].op # "ask", CycleOver(r)
  PROVE  IsCycles(cycles)' /\ ~HasPending'
<1>1. CASE turn[r].promise = "cancelled"
  BY <1>1, CancelPendingLemma DEF CycleOver, IInv, Shape, HasPending
<1>2. CASE turn[r].promise # "cancelled"
  <2>1. cycles' = C!Complete(cycles, Target, req[r].generation, Outcome(r), 0)
    BY <1>2 DEF CycleOver
  <2>2. HasPending => C!IsPendingFor(cycles, Target, req[r].generation)
    <3> SUFFICES ASSUME HasPending PROVE C!IsPendingFor(cycles, Target, req[r].generation)
      OBVIOUS
    <3>1. PendingPayload \in Requests /\ Live(PendingPayload) /\ Live(r)
      BY PayloadLemma DEF IInv, Shape, PendingIsCurrent, Live
    <3>2. PendingPayload = r
      BY <3>1 DEF IInv, OneLive
    <3>3. QED
      BY <3>2 DEF IInv, PendingIsCurrent, C!IsPendingFor, HasPending
  <2>3. /\ IsCycles(cycles')
        /\ IF C!IsPendingFor(cycles, Target, req[r].generation) THEN ~C!HasPending(cycles', Target)
           ELSE cycles'.pending = cycles.pending
    BY <2>1, CompleteLemma DEF IInv, Shape
  <2>4. QED
    BY <2>2, <2>3 DEF HasPending, C!HasPending
<1>3. QED
  BY <1>1, <1>2

\* React keeps the invariant.
LEMMA ReactInvariant ==
  ASSUME IInv, NEW r \in Requests, React(r)
  PROVE  /\ IInv' /\ UNCHANGED req /\ Live(r) /\ turn[r].promise # "open"
         /\ \A q \in Requests : ~Live(q)' /\ turn'[q].promise = turn[q].promise
         /\ \A q \in Requests : Live(q) => q = r
<1> DEFINE stopped == turn[r].stopped \/ (Delegated(r) /\ turn[r].promise \in Failures)
<1> DEFINE a == [turn EXCEPT ![r].reacted = TRUE]
<1> DEFINE b == [a EXCEPT ![r].stopped = stopped]
<1>1. /\ a \in Turns /\ a[r].promise = turn[r].promise /\ a[r].reacted = TRUE
      /\ a[r].stopped = turn[r].stopped /\ \A q \in Requests : q # r => a[q] = turn[q]
  BY DEF IInv, Shape, TurnShape, Turns
<1>2. Unreacted(r) /\ UNCHANGED <<line, req>>
      /\ IF Delegated(r) THEN TurnOver(r) ELSE UNCHANGED agent
  BY DEF React
<1>3. turn' = b
  <2>1. turn' = [a EXCEPT ![r].stopped = a[r].stopped
                                 \/ (Delegated(r) /\ turn[r].promise \in Failures)]
    BY DEF React
  <2> HIDE DEF a
  <2>2. QED
    BY <1>1, <2>1
<1> HIDE DEF a
<1>4. stopped \in BOOLEAN
  OBVIOUS
<1> HIDE DEF stopped
<1>5. /\ b \in Turns /\ b[r].promise = turn[r].promise /\ b[r].reacted = TRUE
      /\ \A q \in Requests : q # r => b[q] = turn[q]
  BY <1>1, <1>4 DEF Turns
<1> HIDE DEF b
<1>6. Live(r) /\ \A q \in Requests : q # r => ~Live(q)
  BY <1>2 DEF IInv, OneLive, Live
<1>7. \A q \in Requests : ~Live(q)'
  BY <1>2, <1>3, <1>5, <1>6 DEF Live, Unreacted, Settled, Failures
<1>8. IsCycles(cycles)' /\ ~HasPending'
  <2>1. CASE req[r].op = "ask"
    <3>1. UNCHANGED cycles
      BY <2>1 DEF React
    <3>2. HasPending => PendingPayload = r
      BY <1>6, PayloadLemma DEF IInv, Shape, PendingIsCurrent
    <3>3. QED
      BY <2>1, <3>1, <3>2 DEF IInv, PendingIsCurrent, Shape, HasPending
  <2>2. CASE req[r].op # "ask"
    BY <1>2, <2>2, CycleOverLemma DEF React
  <2>3. QED
    BY <2>1, <2>2
<1>9. AgentOK'
  <2>1. GoodAgent(agent)
    BY AgentOKIsGood DEF IInv
  <2>2. GoodAgent(StateAfter(r))
    BY <2>1, SetStateLemma DEF StateAfter, Statuses
  <2>3. GoodAgent(agent')
    BY <1>2, <2>1, <2>2 DEF TurnOver
  <2>4. QED
    BY <2>3 DEF AgentOK, GoodAgent, Agents
<1>10. LineOK' /\ Shape' /\ AsksAwaitThemselves'
  BY <1>2, <1>3, <1>5, <1>8 DEF IInv, LineOK, Shape, ReqShape, TurnShape, AsksAwaitThemselves
<1>11. Fresh'
  BY <1>2, <1>3, <1>5 DEF IInv, Fresh, Unreacted, Settled, Failures
<1>12. OneLive' /\ PendingIsCurrent' /\ OpenIsHeld'
  BY <1>7, <1>8 DEF OneLive, PendingIsCurrent, OpenIsHeld, Live
<1>13. IInv'
  BY <1>9, <1>10, <1>11, <1>12 DEF IInv
<1>14. turn[r].promise # "open" /\ \A q \in Requests : turn'[q].promise = turn[q].promise
  BY <1>2, <1>3, <1>5 DEF Unreacted, Settled, Failures
<1>15. QED
  BY <1>2, <1>6, <1>7, <1>13, <1>14

\* DeliveryEnds keeps the invariant.
LEMMA DeliveryEndsInvariant ==
  ASSUME IInv, NEW r \in Requests, DeliveryEnds(r)
  PROVE  IInv' /\ Settling
<1>1. PICK delivery \in Deliveries, promise \in Promises :
        /\ turn' = [turn EXCEPT ![r].delivery = delivery, ![r].promise = promise]
        /\ promise = turn[r].promise \/ (turn[r].promise = "open" /\ promise \in Settled)
        /\ UNCHANGED <<agent, cycles, line, req>>
  <2>1. turn[r].promise \in Promises
    BY DEF IInv, Shape, TurnShape, Turns
  <2>2. CASE \E p \in {"open", "answered", "failed"} : EndDelivery(r, "acked", p)
    <3>1. PICK p \in {"open", "answered", "failed"} : EndDelivery(r, "acked", p)
      BY <2>2
    <3>2. turn[r].promise = "open"
      BY <3>1 DEF EndDelivery
    <3>3. "acked" \in Deliveries /\ p \in Promises /\ (p = "open" \/ p \in Settled)
      BY DEF Deliveries, Promises, Settled, Failures
    <3>4. QED
      BY <3>1, <3>2, <3>3 DEF EndDelivery
  <2>3. CASE \E d \in {"cancelled", "refused", "threw"} : EndDelivery(r, d, turn[r].promise)
    <3>1. PICK d \in {"cancelled", "refused", "threw"} : EndDelivery(r, d, turn[r].promise)
      BY <2>3
    <3>2. d \in Deliveries
      BY DEF Deliveries
    <3>3. QED
      BY <2>1, <3>1, <3>2 DEF EndDelivery
  <2>4. QED
    BY <2>2, <2>3 DEF DeliveryEnds
<1> DEFINE a == [turn EXCEPT ![r].delivery = delivery]
<1> DEFINE b == [a EXCEPT ![r].promise = promise]
<1>2. /\ a \in Turns /\ a[r].promise = turn[r].promise /\ a[r].reacted = turn[r].reacted
      /\ \A q \in Requests : q # r => a[q] = turn[q]
  BY DEF IInv, Shape, TurnShape, Turns
<1>3. turn' = b
  BY <1>1
<1> HIDE DEF a
<1>4. /\ b \in Turns /\ b[r].promise = promise /\ b[r].reacted = turn[r].reacted
      /\ \A q \in Requests : q # r => b[q] = turn[q]
  BY <1>2 DEF Turns
<1> HIDE DEF b
<1>5. OnlySettles /\ TurnShape'
  BY <1>1, <1>3, <1>4 DEF OnlySettles, SettlesTo, TurnShape
<1>6. AgentOK' /\ IsCycles(cycles)'
  BY <1>1 DEF IInv, Shape, AgentOK
<1>7. QED
  BY <1>1, <1>5, <1>6, ReqUnchangedInvariant, NothingPendingKept

\* TurnTimer keeps the invariant.
LEMMA TurnTimerInvariant ==
  ASSUME IInv, NEW r \in Requests, TurnTimer(r)
  PROVE  IInv' /\ Settling
<1>1. turn' = Settle(turn, r, "failed") /\ UNCHANGED <<agent, cycles, line, req>>
  BY DEF TurnTimer
<1>2. OnlySettles /\ TurnShape'
  BY <1>1, SettleLemma DEF OnlySettles, TurnShape, IInv, Shape, Settled, Failures
<1>3. AgentOK' /\ IsCycles(cycles)'
  BY <1>1 DEF IInv, Shape, AgentOK
<1>4. QED
  BY <1>1, <1>2, <1>3, ReqUnchangedInvariant, NothingPendingKept

\* The same, for the next state.
LEMMA GoodAgentIsOK ==
  ASSUME GoodAgent(agent')
  PROVE  AgentOK'
BY DEF AgentOK, GoodAgent, Agents

\* PtyData keeps the invariant.
LEMMA PtyDataInvariant ==
  ASSUME IInv, NEW text \in Texts, PtyData(text)
  PROVE  IInv' /\ Settling
<1>1. OnlySettles /\ TurnShape'
  <2>1. CASE turn' = turn
    BY <2>1, NothingSettles DEF TurnShape, IInv, Shape
  <2>2. CASE \E r \in Requests, class \in {"answered", "failed", "model_failure"} :
               turn' = Settle(turn, r, class)
    <3>1. PICK r \in Requests, class \in Settled : turn' = Settle(turn, r, class)
      BY <2>2 DEF Settled, Failures
    <3>2. QED
      BY <3>1, SettleLemma DEF OnlySettles, TurnShape, IInv, Shape
  <2>3. QED
    BY <2>1, <2>2 DEF PtyData
<1>2. AgentOK'
  <2> DEFINE a == IF agent.status = "ready" THEN SetState(agent, "starting", None) ELSE agent
  <2>1. GoodAgent(a)
    BY AgentOKIsGood, SetStateLemma DEF IInv, Statuses
  <2>2. agent' = IF a.registered /\ a.status = "starting" /\ text # "plain"
                 THEN SetState(a, "failed", text) ELSE a
    BY DEF PtyData, OnData
  <2> HIDE DEF a
  <2>3. QED
    BY <2>1, <2>2, SetStateLemma, GoodAgentIsOK DEF Statuses, Texts
<1>3. UNCHANGED <<cycles, line, req>> /\ IsCycles(cycles)'
  BY DEF PtyData, IInv, Shape
<1>4. QED
  BY <1>1, <1>2, <1>3, ReqUnchangedInvariant, NothingPendingKept

\* PtyExit keeps the invariant.
LEMMA PtyExitInvariant ==
  ASSUME IInv, PtyExit
  PROVE  IInv' /\ Settling
<1>1. OnlySettles /\ TurnShape'
  <2>1. PICK told : turn' = [q \in Requests |->
                              IF turn[q].promise # "open" THEN turn[q]
                              ELSE [turn[q] EXCEPT !.promise =
                                      IF q \in told THEN "answered" ELSE "failed"]]
    BY DEF PtyExit
  <2> DEFINE class(q) == IF q \in told THEN "answered" ELSE "failed"
  <2>2. \A q \in Requests :
          [turn[q] EXCEPT !.promise = class(q)] \in [promise : Promises, delivery : Deliveries,
                                                    stopped : BOOLEAN, reacted : BOOLEAN]
          /\ [turn[q] EXCEPT !.promise = class(q)].promise = class(q)
          /\ [turn[q] EXCEPT !.promise = class(q)].reacted = turn[q].reacted
          /\ class(q) \in Settled
    BY DEF IInv, Shape, TurnShape, Turns, Promises, Settled, Failures
  <2>3. turn' = [q \in Requests |-> IF turn[q].promise # "open" THEN turn[q]
                                    ELSE [turn[q] EXCEPT !.promise = class(q)]]
    BY <2>1
  <2> HIDE DEF class
  <2>4. TurnShape'
    BY <2>2, <2>3 DEF IInv, Shape, TurnShape, Turns
  <2>5. OnlySettles
    BY <2>2, <2>3 DEF OnlySettles, SettlesTo
  <2>6. QED
    BY <2>4, <2>5
<1>2. AgentOK'
  <2> DEFINE a == SetState(agent, "stopped", None)
  <2>1. GoodAgent(a)
    BY AgentOKIsGood, SetStateLemma DEF IInv, Statuses
  <2>2. agent' = [a EXCEPT !.alive = FALSE]
    BY DEF PtyExit
  <2> HIDE DEF a
  <2>3. GoodAgent(agent')
    BY <2>1, <2>2 DEF GoodAgent, Agents
  <2>4. QED
    BY <2>3, GoodAgentIsOK
<1>3. UNCHANGED <<cycles, line, req>> /\ IsCycles(cycles)'
  BY DEF PtyExit, IInv, Shape
<1>4. QED
  BY <1>1, <1>2, <1>3, ReqUnchangedInvariant, NothingPendingKept

\* PtyError keeps the invariant.
LEMMA PtyErrorInvariant ==
  ASSUME IInv, PtyError
  PROVE  IInv' /\ Settling
<1> DEFINE class(q) == IF Delegated(q) THEN "startup_failed" ELSE "failed"
<1>1. OnlySettles /\ TurnShape'
  <2>1. \A q \in Requests :
          [turn[q] EXCEPT !.promise = class(q)] \in [promise : Promises, delivery : Deliveries,
                                                    stopped : BOOLEAN, reacted : BOOLEAN]
          /\ [turn[q] EXCEPT !.promise = class(q)].promise = class(q)
          /\ [turn[q] EXCEPT !.promise = class(q)].reacted = turn[q].reacted
          /\ class(q) \in Settled
    BY DEF IInv, Shape, TurnShape, Turns, Promises, Settled, Failures
  <2>2. turn' = [q \in Requests |-> IF turn[q].promise # "open" THEN turn[q]
                                    ELSE [turn[q] EXCEPT !.promise = class(q)]]
    BY DEF PtyError
  <2> HIDE DEF class
  <2>3. TurnShape'
    BY <2>1, <2>2 DEF IInv, Shape, TurnShape, Turns
  <2>4. OnlySettles
    BY <2>1, <2>2 DEF OnlySettles, SettlesTo
  <2>5. QED
    BY <2>3, <2>4
<1>2. AgentOK'
  <2>1. PICK reason \in {"startup", "model"}, alive \in {agent.alive, FALSE} :
          agent' = [SetState(agent, "failed", reason) EXCEPT !.alive = alive]
    BY DEF PtyError
  <2> DEFINE a == SetState(agent, "failed", reason)
  <2>2. GoodAgent(a) /\ agent' = [a EXCEPT !.alive = alive]
    BY <2>1, AgentOKIsGood, SetStateLemma DEF IInv, Statuses
  <2>3. alive \in BOOLEAN
    BY DEF IInv, AgentOK
  <2> HIDE DEF a
  <2>4. GoodAgent(agent')
    BY <2>2, <2>3 DEF GoodAgent, Agents
  <2>5. QED
    BY <2>4, GoodAgentIsOK
<1>3. UNCHANGED <<cycles, line, req>> /\ IsCycles(cycles)'
  BY DEF PtyError, IInv, Shape
<1>4. QED
  BY <1>1, <1>2, <1>3, ReqUnchangedInvariant, NothingPendingKept

\* ReadinessCheck keeps the invariant.
LEMMA ReadinessCheckInvariant ==
  ASSUME IInv, NEW timedOut \in BOOLEAN, ReadinessCheck(timedOut)
  PROVE  IInv' /\ Settling
<1>1. GoodAgent(agent)
  BY AgentOKIsGood DEF IInv
<1>2. AgentOK'
  BY <1>1, SetStateLemma, GoodAgentIsOK DEF ReadinessCheck, Statuses
<1>3. UNCHANGED <<cycles, line, req, turn>> /\ IsCycles(cycles)' /\ TurnShape'
  BY DEF ReadinessCheck, IInv, Shape, TurnShape
<1>4. QED
  BY <1>2, <1>3, ReqUnchangedInvariant, NothingPendingKept, NothingSettles

\* Launch keeps the invariant.
LEMMA LaunchInvariant ==
  ASSUME IInv, Launch
  PROVE  IInv' /\ Settling
<1>1. GoodAgent(agent')
  <2>1. GoodAgent(agent) /\ agent' = [agent EXCEPT !.alive = TRUE]
    BY AgentOKIsGood DEF IInv, Launch
  <2>2. QED
    BY <2>1 DEF GoodAgent, Agents
<1>2. UNCHANGED <<cycles, line, req, turn>> /\ IsCycles(cycles)' /\ TurnShape'
  BY DEF Launch, IInv, Shape, TurnShape
<1>3. QED
  BY <1>1, <1>2, GoodAgentIsOK, ReqUnchangedInvariant, NothingPendingKept, NothingSettles

\* Register keeps the invariant.
LEMMA RegisterInvariant ==
  ASSUME IInv, Register
  PROVE  IInv' /\ Settling
<1>1. GoodAgent(agent')
  <2> DEFINE a == [agent EXCEPT !.registered = TRUE]
  <2> DEFINE b == [a EXCEPT !.status = "starting"]
  <2> DEFINE c == [b EXCEPT !.reason = None]
  <2> DEFINE d == [c EXCEPT !.checking = TRUE]
  <2> DEFINE e == [d EXCEPT !.current = None]
  <2>1. agent' = e
    BY DEF Register
  <2>2. a \in Agents /\ a.registered
    BY DEF IInv, AgentOK, Agents
  <2> HIDE DEF a
  <2>3. b \in Agents /\ b.registered /\ b.status = "starting"
    BY <2>2 DEF Agents, Statuses
  <2> HIDE DEF b
  <2>4. c \in Agents /\ c.registered /\ c.status = "starting"
    BY <2>3 DEF Agents
  <2> HIDE DEF c
  <2>5. d \in Agents /\ d.registered /\ d.status = "starting"
    BY <2>4 DEF Agents
  <2> HIDE DEF d
  <2>6. e \in Agents /\ e.registered /\ e.status = "starting"
    BY <2>5 DEF Agents
  <2> HIDE DEF e
  <2>7. QED
    BY <2>1, <2>6 DEF GoodAgent
<1>2. UNCHANGED <<cycles, line, req, turn>> /\ IsCycles(cycles)' /\ TurnShape'
  BY DEF Register, IInv, Shape, TurnShape
<1>3. QED
  BY <1>1, <1>2, GoodAgentIsOK, ReqUnchangedInvariant, NothingPendingKept, NothingSettles

\* The state without a terminal is well formed.
LEMMA UnregisteredIsGood == GoodAgent(Unregistered)
BY DEF GoodAgent, Agents, Unregistered, Statuses

\* Stop keeps the invariant.
LEMMA StopInvariant ==
  ASSUME IInv, Stop
  PROVE  IInv' /\ Settling
<1> DEFINE a == Settle(turn, agent.active, "cancelled")
<1> DEFINE t == IF agent.active = None THEN turn ELSE [a EXCEPT ![agent.active].stopped = TRUE]
<1>1. a \in Turns /\ SettlesTo(turn, a)
  BY SettleLemma DEF IInv, Shape, TurnShape, Settled, Failures
<1>2. CancelPending(t) /\ agent' = Unregistered /\ UNCHANGED <<line, req>>
  BY DEF Stop
<1> HIDE DEF a
<1>3. t \in Turns /\ SettlesTo(turn, t)
  <2>1. CASE agent.active = None
    BY <2>1 DEF SettlesTo, IInv, Shape, TurnShape
  <2>2. CASE agent.active # None
    <3> DEFINE s == agent.active
    <3>1. s \in Requests
      BY <2>2 DEF IInv, AgentOK
    <3> HIDE DEF s
    <3> DEFINE u == [a EXCEPT ![s].stopped = TRUE]
    <3>2. /\ u \in Turns /\ u[s].promise = a[s].promise /\ u[s].reacted = a[s].reacted
          /\ \A q \in Requests : q # s => u[q] = a[q]
      BY <1>1, <3>1 DEF Turns
    <3> HIDE DEF u
    <3>3. SettlesTo(turn, u)
      BY <1>1, <3>2 DEF SettlesTo
    <3>4. t = u
      BY <2>2 DEF u, s
    <3>5. QED
      BY <3>2, <3>3, <3>4
  <2>3. QED
    BY <2>1, <2>2
<1> HIDE DEF t
<1>4. TurnShape' /\ IsCycles(cycles)' /\ OnlySettles /\ PendingKept
  BY <1>2, <1>3, CancelInvariant
<1>5. QED
  BY <1>2, <1>4, UnregisteredIsGood, GoodAgentIsOK, ReqUnchangedInvariant

\* Expire keeps the invariant.
LEMMA ExpireInvariant ==
  ASSUME IInv, Expire
  PROVE  IInv' /\ Settling
<1>1. UNCHANGED <<agent, line, req, turn>> /\ AgentOK' /\ TurnShape'
  BY DEF Expire, IInv, Shape, TurnShape, AgentOK
<1>2. IsCycles(cycles)' /\ SamePending(cycles, cycles')
  BY SetCache DEF Expire, IInv, Shape
<1>3. PendingKept
  BY <1>2 DEF PendingKept, SamePending, HasPending, C!HasPending
<1>4. QED
  BY <1>1, <1>2, <1>3, ReqUnchangedInvariant, NothingSettles

------------------------------------------------------------------------------
\* The invariant holds initially.
LEMMA InitInvariant == Init => IInv
<1> SUFFICES ASSUME Init PROVE IInv
  OBVIOUS
<1>1. AgentOK
  BY UnregisteredIsGood, AgentOKIsGood DEF Init
<1>2. LineOK
  BY EmptySeq DEF Init, LineOK, Idle, Range, IsInjective
<1>3. ReqShape
  <2>1. req \in ReqsWith({None})
    BY DEF Init, ReqsWith, Stages
  <2>2. QED
    BY <2>1 DEF ReqShape
<1>4. TurnShape
  BY DEF Init, TurnShape, Turns, Promises, Deliveries
<1>5. IsCycles(cycles) /\ ~HasPending
  BY NewCyclesLemma DEF Init, HasPending
<1>6. \A q \in Requests : ~Live(q) /\ turn[q].promise = "none" /\ ~turn[q].reacted
                          /\ req[q].pc = "idle"
  BY DEF Init, Live, Unreacted, Settled, Failures
<1>7. Fresh /\ OneLive /\ PendingIsCurrent /\ OpenIsHeld /\ AsksAwaitThemselves
  BY <1>5, <1>6 DEF Fresh, OneLive, PendingIsCurrent, OpenIsHeld, AsksAwaitThemselves
<1>8. QED
  BY <1>1, <1>2, <1>3, <1>4, <1>5, <1>7 DEF IInv, Shape

\* Every step keeps the invariant.
LEMMA StepInvariant == IInv /\ [Next]_vars => IInv'
<1> SUFFICES ASSUME IInv, [Next]_vars PROVE IInv'
  OBVIOUS
<1>1. ASSUME NEW r \in Requests, Begin(r) PROVE IInv'
  BY <1>1, SkipInvariant, RefuseBusyInvariant, RefuseUnreadyInvariant, StartTurnInvariant,
     AnswerFromCacheInvariant, JoinInvariant, ArmWaiterInvariant, StartRunInvariant DEF Begin
<1>2. ASSUME NEW r \in Requests, Conclude(r) \/ Answer(r) PROVE IInv'
  BY <1>2, AcceptInvariant, RefuseInvariant, AnswerOwnInvariant, AnswerJoinedInvariant
     DEF Conclude, Answer
<1>3. CASE Internal
  BY <1>1, <1>2, <1>3, ReactInvariant DEF Internal
<1>4. ASSUME NEW r \in Requests, Timers(r) PROVE IInv'
  BY <1>4, DeliveryEndsInvariant, RunEndsInvariant, TurnTimerInvariant DEF Timers
<1>5. ASSUME NEW r \in Requests, NEW op \in Ops, Arrive(r, op) PROVE IInv'
  BY <1>5, ArriveInvariant
<1>6. CASE UNCHANGED vars
  <2>1. UNCHANGED <<agent, cycles, line, req, turn>>
    BY <1>6 DEF vars
  <2>2. AgentOK' /\ TurnShape' /\ IsCycles(cycles)'
    BY <2>1 DEF IInv, Shape, AgentOK, TurnShape
  <2>3. QED
    BY <2>1, <2>2, ReqUnchangedInvariant, NothingPendingKept, NothingSettles
<1>7. QED
  BY <1>3, <1>4, <1>5, <1>6, RequestAbortInvariant, PtyDataInvariant, PtyExitInvariant,
     PtyErrorInvariant, LaunchInvariant, ReadinessCheckInvariant, RegisterInvariant,
     StopInvariant, ExpireInvariant DEF Next

\* The invariant holds always.
LEMMA Invariant == Spec => []IInv
<1>1. QED
  BY InitInvariant, StepInvariant, PTL DEF Spec

------------------------------------------------------------------------------
\* The agent follows its turn.  Without a registration the agent counts as starting;
\* an open task is the active one of a registered agent; the agent is busy while
\* its current turn is open, and until the callbacks of that turn have run; and
\* while a delivery is concluded, no other turn is alive.
TaskHasAgent ==
  \A q \in Requests : Delegated(q) /\ turn[q].promise = "open" =>
    agent.registered /\ agent.active = q

BusyHasTurn ==
  agent.current # None =>
    /\ Delegated(agent.current) /\ turn[agent.current].promise # "none"
    /\ agent.status = "busy" => Live(agent.current)
    /\ turn[agent.current].promise = "open" => agent.status = "busy"

DeliveringAlone ==
  \A q, r \in Requests : req[r].pc = "delivering" /\ Live(q) => q = r

AgentInv ==
  /\ ~agent.registered => agent.status = "starting"
  /\ TaskHasAgent /\ BusyHasTurn /\ DeliveringAlone

\* The agent stays registered, or not, for the same turn; it becomes busy in no
\* step of this kind, and leaves busy only when its turn is not open.
AgentStays ==
  /\ agent'.registered = agent.registered
  /\ agent'.active = agent.active /\ agent'.current = agent.current
  /\ ~agent'.registered => agent'.status = "starting"
  /\ agent'.status = "busy" => agent.status = "busy"
  /\ agent.current # None /\ agent.status = "busy" /\ agent'.status # "busy" =>
       turn'[agent.current].promise # "open"

\* While the turns only settle, what is alive stays alive.
LEMMA SettlingKeepsLive ==
  ASSUME IInv, Settling
  PROVE  \A q \in Requests :
           /\ Live(q)' <=> Live(q)
           /\ turn'[q].promise = "open" => turn[q].promise = "open"
           /\ turn[q].promise = "open" \/ Live(q) => Delegated(q)' = Delegated(q)
<1>1. \A q \in Requests : Live(q)' <=> Live(q)
  BY DEF IInv, Fresh, Live, Unreacted, Settling, OnlySettles, SettlesTo, Settled, Failures
<1>2. \A q \in Requests : turn'[q].promise = "open" => turn[q].promise = "open"
  BY DEF Settling, OnlySettles, SettlesTo, Settled, Failures
<1>3. ASSUME NEW q \in Requests, turn[q].promise = "open" \/ Live(q)
      PROVE  Delegated(q)' = Delegated(q)
  <2>1. req[q].pc # "idle"
    BY <1>3 DEF IInv, Fresh, Live, Unreacted, Settled, Failures
  <2>2. req'[q].op = req[q].op
    BY <2>1 DEF Settling, HandlersGoOn
  <2>3. QED
    BY <2>2 DEF Delegated
<1>4. QED
  BY <1>1, <1>2, <1>3

\* A step that arms nothing and keeps the agent with its turn.
LEMMA AgentStaysInvariant ==
  ASSUME IInv, AgentInv, Settling, AgentStays
  PROVE  AgentInv'
<1>1. \A q \in Requests :
        /\ Live(q)' <=> Live(q)
        /\ turn'[q].promise = "open" => turn[q].promise = "open"
        /\ turn[q].promise = "open" \/ Live(q) => Delegated(q)' = Delegated(q)
  BY SettlingKeepsLive
<1>2. TaskHasAgent'
  BY <1>1 DEF AgentInv, TaskHasAgent, AgentStays
<1>3. BusyHasTurn'
  <2> SUFFICES ASSUME agent.current # None
               PROVE  /\ Delegated(agent.current)' /\ turn'[agent.current].promise # "none"
                      /\ agent'.status = "busy" => Live(agent.current)'
                      /\ turn'[agent.current].promise = "open" => agent'.status = "busy"
    BY DEF BusyHasTurn, AgentStays
  <2> DEFINE q == agent.current
  <2>1. q \in Requests
    BY DEF IInv, AgentOK
  <2>2. Delegated(q) /\ turn[q].promise # "none" /\ (agent.status = "busy" => Live(q))
        /\ (turn[q].promise = "open" => agent.status = "busy")
    BY DEF AgentInv, BusyHasTurn
  <2>3. Delegated(q)' /\ turn'[q].promise # "none"
    <3>1. req[q].pc # "idle"
      BY <2>1, <2>2 DEF IInv, Fresh
    <3>2. req'[q].op = req[q].op
      BY <2>1, <3>1 DEF Settling, HandlersGoOn
    <3>3. turn'[q].promise # "none"
      BY <2>1, <2>2 DEF Settling, OnlySettles, SettlesTo, Settled, Failures
    <3>4. QED
      BY <2>2, <3>2, <3>3 DEF Delegated, AgentStays
  <2>4. QED
    BY <1>1, <2>1, <2>2, <2>3 DEF AgentStays
<1>4. DeliveringAlone'
  BY <1>1 DEF AgentInv, DeliveringAlone, Settling, HandlersGoOn
<1>5. QED
  BY <1>2, <1>3, <1>4 DEF AgentInv, AgentStays

\* A step that leaves the agent alone.
LEMMA AgentUnchanged ==
  ASSUME AgentInv, UNCHANGED agent
  PROVE  AgentStays
BY DEF AgentInv, AgentStays

\* A refused delivery ends the turn that keeps the agent busy, if any does.
LEMMA RefuseAgent ==
  ASSUME IInv, AgentInv, NEW r \in Requests, Refuse(r)
  PROVE  AgentInv'
<1>1. req[r].pc = "delivering" /\ agent' = SetState(agent, "starting", None)
  BY DEF Refuse, CanConclude
<1>2. Settling /\ turn'[r].promise # "open"
  <2> DEFINE over == Settle(turn, r, RefusalClass(r))
  <2>1. over \in Turns /\ SettlesTo(turn, over) /\ over[r].promise # "open"
    BY SettleLemma DEF IInv, Shape, TurnShape, RefusalClass, Settled, Failures
  <2>2. turn' = over \/ CancelPending(over)
    BY DEF Refuse
  <2> HIDE DEF over
  <2>3. turn'[r].promise # "open"
    BY <2>1, <2>2, CancelInvariant
  <2>4. QED
    BY <2>3, RefuseInvariant
<1>3. AgentStays
  <2>1. /\ agent'.registered = agent.registered
        /\ agent'.active = agent.active /\ agent'.current = agent.current
        /\ agent'.status = IF agent.registered THEN "starting" ELSE agent.status
    BY <1>1, AgentOKIsGood, SetStateLemma DEF IInv, Statuses
  <2>2. ASSUME agent.current # None, agent.status = "busy"
        PROVE  turn'[agent.current].promise # "open"
    <3>1. agent.current \in Requests /\ Live(agent.current)
      BY <2>2 DEF IInv, AgentOK, AgentInv, BusyHasTurn
    <3>2. agent.current = r
      BY <1>1, <3>1 DEF AgentInv, DeliveringAlone
    <3>3. QED
      BY <1>2, <3>2
  <2>3. QED
    BY <2>1, <2>2 DEF AgentInv, AgentStays
<1>4. QED
  BY <1>2, <1>3, AgentStaysInvariant

\* Output of the terminal moves an agent that is ready or starting.
LEMMA PtyDataAgent ==
  ASSUME IInv, AgentInv, NEW text \in Texts, PtyData(text)
  PROVE  AgentInv'
<1> DEFINE a == IF agent.status = "ready" THEN SetState(agent, "starting", None) ELSE agent
<1>1. GoodAgent(agent)
  BY AgentOKIsGood DEF IInv
<1>2. /\ GoodAgent(a) /\ a.registered = agent.registered
      /\ a.active = agent.active /\ a.current = agent.current
      /\ a.status = IF agent.status = "ready" /\ agent.registered THEN "starting" ELSE agent.status
  BY <1>1, SetStateLemma DEF Statuses
<1>3. agent' = IF a.registered /\ a.status = "starting" /\ text # "plain"
               THEN SetState(a, "failed", text) ELSE a
  BY DEF PtyData, OnData
<1> HIDE DEF a
<1>4. /\ agent'.registered = a.registered /\ agent'.active = a.active
      /\ agent'.current = a.current
      /\ agent'.status = a.status
         \/ (agent'.status = "failed" /\ a.status = "starting" /\ a.registered)
  BY <1>2, <1>3, SetStateLemma DEF Statuses, Texts
<1>5. AgentStays
  BY <1>2, <1>4 DEF AgentInv, AgentStays
<1>6. QED
  BY <1>5, PtyDataInvariant, AgentStaysInvariant

\* When the terminal exits, no turn stays open.
LEMMA PtyExitAgent ==
  ASSUME IInv, AgentInv, PtyExit
  PROVE  AgentInv'
<1> DEFINE a == SetState(agent, "stopped", None)
<1>1. /\ GoodAgent(a) /\ a.registered = agent.registered
      /\ a.active = agent.active /\ a.current = agent.current
      /\ a.status = IF agent.registered THEN "stopped" ELSE agent.status
  BY AgentOKIsGood, SetStateLemma DEF IInv, Statuses
<1>2. agent' = [a EXCEPT !.alive = FALSE]
  BY DEF PtyExit
<1> HIDE DEF a
<1>3. /\ agent'.registered = a.registered /\ agent'.active = a.active
      /\ agent'.current = a.current /\ agent'.status = a.status
  BY <1>1, <1>2 DEF GoodAgent, Agents
<1>4. \A q \in Requests : turn'[q].promise # "open"
  <2>1. \A q \in Requests, class \in {"answered", "failed"} :
          [turn[q] EXCEPT !.promise = class].promise = class
    BY DEF IInv, Shape, TurnShape, Turns
  <2>2. QED
    BY <2>1 DEF PtyExit
<1>5. AgentStays
  BY <1>1, <1>3, <1>4 DEF AgentInv, AgentStays, IInv, AgentOK
<1>6. QED
  BY <1>5, PtyExitInvariant, AgentStaysInvariant

\* When the terminal fails, no turn stays open.
LEMMA PtyErrorAgent ==
  ASSUME IInv, AgentInv, PtyError
  PROVE  AgentInv'
<1>0. PICK reason \in {"startup", "model"}, alive \in {agent.alive, FALSE} :
        agent' = [SetState(agent, "failed", reason) EXCEPT !.alive = alive]
  BY DEF PtyError
<1> DEFINE a == SetState(agent, "failed", reason)
<1>1. /\ GoodAgent(a) /\ a.registered = agent.registered
      /\ a.active = agent.active /\ a.current = agent.current
      /\ a.status = IF agent.registered THEN "failed" ELSE agent.status
  BY AgentOKIsGood, SetStateLemma DEF IInv, Statuses
<1>2. agent' = [a EXCEPT !.alive = alive]
  BY <1>0
<1> HIDE DEF a
<1>3. /\ agent'.registered = a.registered /\ agent'.active = a.active
      /\ agent'.current = a.current /\ agent'.status = a.status
  BY <1>1, <1>2 DEF GoodAgent, Agents
<1>4. \A q \in Requests : turn'[q].promise # "open"
  <2> DEFINE class(q) == IF Delegated(q) THEN "startup_failed" ELSE "failed"
  <2>1. \A q \in Requests : /\ [turn[q] EXCEPT !.promise = class(q)].promise = class(q)
                            /\ class(q) # "open"
    BY DEF IInv, Shape, TurnShape, Turns
  <2>2. turn' = [q \in Requests |-> IF turn[q].promise # "open" THEN turn[q]
                                    ELSE [turn[q] EXCEPT !.promise = class(q)]]
    BY DEF PtyError
  <2> HIDE DEF class
  <2>3. QED
    BY <2>1, <2>2
<1>5. AgentStays
  BY <1>1, <1>3, <1>4 DEF AgentInv, AgentStays, IInv, AgentOK
<1>6. QED
  BY <1>5, PtyErrorInvariant, AgentStaysInvariant

\* A readiness check ends: the agent was starting.
LEMMA ReadinessCheckAgent ==
  ASSUME IInv, AgentInv, NEW timedOut \in BOOLEAN, ReadinessCheck(timedOut)
  PROVE  AgentInv'
<1>1. agent.registered /\ agent.status = "starting"
  BY DEF ReadinessCheck, IInv, AgentOK
<1>2. /\ agent'.registered = agent.registered /\ agent'.active = agent.active
      /\ agent'.current = agent.current /\ agent'.status \in {"failed", "ready"}
  BY <1>1, AgentOKIsGood, SetStateLemma DEF ReadinessCheck, IInv, Statuses
<1>3. AgentStays
  BY <1>1, <1>2 DEF AgentStays
<1>4. QED
  BY <1>3, ReadinessCheckInvariant, AgentStaysInvariant

\* A new terminal changes neither the state nor the turns.
LEMMA LaunchAgent ==
  ASSUME IInv, AgentInv, Launch
  PROVE  AgentInv'
<1>1. /\ agent'.registered = agent.registered /\ agent'.active = agent.active
      /\ agent'.current = agent.current /\ agent'.status = agent.status
  <2>1. agent \in Agents /\ agent' = [agent EXCEPT !.alive = TRUE]
    BY AgentOKIsGood DEF IInv, Launch, GoodAgent
  <2>2. QED
    BY <2>1 DEF Agents
<1>2. AgentStays
  BY <1>1 DEF AgentInv, AgentStays
<1>3. QED
  BY <1>2, LaunchInvariant, AgentStaysInvariant

\* A new registration: the turn of the old session is not current any more.
LEMMA RegisterAgent ==
  ASSUME IInv, AgentInv, Register
  PROVE  AgentInv'
<1>1. /\ agent'.registered = TRUE /\ agent'.active = agent.active
      /\ agent'.current = None /\ agent'.status = "starting"
  <2> DEFINE a == [agent EXCEPT !.registered = TRUE]
  <2> DEFINE b == [a EXCEPT !.status = "starting"]
  <2> DEFINE c == [b EXCEPT !.reason = None]
  <2> DEFINE d == [c EXCEPT !.checking = TRUE]
  <2> DEFINE e == [d EXCEPT !.current = None]
  <2>1. agent' = e
    BY DEF Register
  <2>2. a \in Agents /\ a.registered = TRUE /\ a.active = agent.active
    BY DEF IInv, AgentOK, Agents
  <2> HIDE DEF a
  <2>3. b \in Agents /\ b.registered = TRUE /\ b.active = agent.active /\ b.status = "starting"
    BY <2>2 DEF Agents, Statuses
  <2> HIDE DEF b
  <2>4. c \in Agents /\ c.registered = TRUE /\ c.active = agent.active /\ c.status = "starting"
    BY <2>3 DEF Agents
  <2> HIDE DEF c
  <2>5. d \in Agents /\ d.registered = TRUE /\ d.active = agent.active /\ d.status = "starting"
    BY <2>4 DEF Agents
  <2> HIDE DEF d
  <2>6. /\ e.registered = TRUE /\ e.active = agent.active /\ e.status = "starting"
        /\ e.current = None
    BY <2>5 DEF Agents
  <2> HIDE DEF e
  <2>7. QED
    BY <2>1, <2>6
<1>2. UNCHANGED <<turn, req>>
  BY DEF Register
<1>3. QED
  BY <1>1, <1>2 DEF AgentInv, TaskHasAgent, BusyHasTurn, DeliveringAlone, Delegated, Live, Unreacted

\* Stopping the terminal cancels the active turn: no task of the target stays open.
LEMMA StopAgent ==
  ASSUME IInv, AgentInv, Stop
  PROVE  AgentInv'
<1>1. /\ agent'.registered = FALSE /\ agent'.current = None /\ agent'.status = "starting"
      /\ UNCHANGED req
  BY DEF Stop, Unregistered
<1>2. Settling
  BY StopInvariant
<1>3. \A q \in Requests : Delegated(q) => turn'[q].promise # "open"
  <2> SUFFICES ASSUME NEW q \in Requests, Delegated(q), turn'[q].promise = "open"
               PROVE  FALSE
    OBVIOUS
  <2>1. turn[q].promise = "open"
    BY <1>2, SettlingKeepsLive
  <2>2. agent.active = q /\ agent.active # None
    BY <2>1, NoneIsNoRequest DEF AgentInv, TaskHasAgent
  <2> DEFINE a == Settle(turn, q, "cancelled")
  <2> DEFINE t == [a EXCEPT ![q].stopped = TRUE]
  <2>3. a \in Turns /\ a[q].promise # "open" /\ SettlesTo(turn, a)
    BY SettleLemma DEF IInv, Shape, TurnShape, Settled, Failures
  <2>4. CancelPending(t)
    BY <2>2 DEF Stop
  <2> HIDE DEF a
  <2>5. /\ t \in Turns /\ t[q].promise = a[q].promise /\ t[q].reacted = a[q].reacted
        /\ \A s \in Requests : s # q => t[s] = a[s]
    BY <2>3 DEF Turns
  <2> HIDE DEF t
  <2>6. SettlesTo(turn, t)
    BY <2>3, <2>5 DEF SettlesTo
  <2>7. QED
    BY <2>3, <2>4, <2>5, <2>6, CancelInvariant
<1>4. TaskHasAgent'
  BY <1>1, <1>3 DEF TaskHasAgent, Delegated
<1>5. BusyHasTurn'
  BY <1>1 DEF BusyHasTurn
<1>6. DeliveringAlone'
  BY <1>1, <1>2, SettlingKeepsLive DEF AgentInv, DeliveringAlone
<1>7. QED
  BY <1>1, <1>4, <1>5, <1>6 DEF AgentInv

\* The turn that is armed makes its agent busy; the agent was ready, so that it is
\* registered.
LEMMA StartTurnAgent ==
  ASSUME IInv, AgentInv, NEW r \in Requests, StartTurn(r)
  PROVE  AgentInv'
<1>1. /\ agent'.registered = TRUE /\ agent'.active = r
      /\ agent'.current = r /\ agent'.status = "busy"
  <2> DEFINE a == SetState(agent, "busy", None)
  <2> DEFINE b == [a EXCEPT !.active = r]
  <2> DEFINE c == [b EXCEPT !.current = r]
  <2>1. agent' = c /\ agent.status = "ready"
    BY DEF StartTurn, Arm
  <2>2. agent.registered = TRUE
    BY <2>1 DEF AgentInv, IInv, AgentOK
  <2>3. GoodAgent(a) /\ a.registered = TRUE /\ a.status = "busy"
    BY <2>2, AgentOKIsGood, SetStateLemma DEF IInv, Statuses
  <2> HIDE DEF a
  <2>4. b \in Agents /\ b.registered = TRUE /\ b.status = "busy" /\ b.active = r
    BY <2>3 DEF GoodAgent, Agents
  <2> HIDE DEF b
  <2>5. c.registered = TRUE /\ c.status = "busy" /\ c.active = r /\ c.current = r
    BY <2>4 DEF Agents
  <2> HIDE DEF c
  <2>6. QED
    BY <2>1, <2>5
<1>2. /\ IInv' /\ Armed(r) /\ Live(r)' /\ \A q \in Requests : q # r => ~Live(q)'
      /\ req[r].op \in {"send", "ask"}
  BY StartTurnInvariant
<1>3. TaskHasAgent'
  BY <1>1, <1>2 DEF TaskHasAgent, Live
<1>4. BusyHasTurn'
  BY <1>1, <1>2 DEF BusyHasTurn, Delegated, Armed
<1>5. DeliveringAlone'
  <2>1. \A q \in Requests : req'[q].pc = "delivering" => q = r
    BY <1>2, HeadLemma DEF Armed, StartTurn, Begins, CanBegin
  <2>2. QED
    BY <1>2, <2>1 DEF DeliveringAlone
<1>6. QED
  BY <1>1, <1>3, <1>4, <1>5 DEF AgentInv

\* A waiter of a wait is armed only when the agent is not busy.
LEMMA ArmWaiterAgent ==
  ASSUME IInv, AgentInv, NEW r \in Requests, ArmWaiter(r)
  PROVE  AgentInv'
<1>1. /\ IInv' /\ Armed(r) /\ Live(r)' /\ \A q \in Requests : q # r => ~Live(q)'
      /\ req[r].op = "wait" /\ \A q \in Requests : ~Live(q)
  BY ArmWaiterInvariant
<1>2. UNCHANGED agent /\ req[r].pc = "queued" /\ Head(line) = r
  BY DEF ArmWaiter, Begins, CanBegin
<1>3. TaskHasAgent'
  BY <1>1 DEF TaskHasAgent, Live, Delegated, Armed
<1>4. BusyHasTurn'
  <2>1. agent.current # None => agent.current \in Requests /\ agent.current # r
    BY <1>1 DEF IInv, AgentOK, AgentInv, BusyHasTurn, Delegated
  <2>2. QED
    BY <1>1, <1>2, <2>1 DEF AgentInv, BusyHasTurn, Delegated, Armed, Live
<1>5. DeliveringAlone'
  <2>1. \A q \in Requests : req'[q].pc = "delivering" => q = r
    BY <1>1, <1>2, HeadLemma DEF Armed
  <2>2. QED
    BY <1>1, <2>1 DEF DeliveringAlone
<1>6. QED
  BY <1>2, <1>3, <1>4, <1>5 DEF AgentInv

\* The callbacks of a turn that is over move its agent on, if it is current.
LEMMA ReactAgent ==
  ASSUME IInv, AgentInv, NEW r \in Requests, React(r)
  PROVE  AgentInv'
<1>1. /\ Live(r) /\ turn[r].promise # "open" /\ UNCHANGED req
      /\ \A q \in Requests : ~Live(q)' /\ turn'[q].promise = turn[q].promise
      /\ \A q \in Requests : Live(q) => q = r
  BY ReactInvariant
<1>2. \A q \in Requests : turn'[q].promise # "open"
  BY <1>1 DEF Live
<1>3. /\ agent'.registered = agent.registered /\ agent'.current = agent.current
      /\ ~agent'.registered => agent'.status = "starting"
      /\ agent.current # None => agent'.status # "busy"
  <2>1. CASE Delegated(r) /\ agent.status = "busy" /\ agent.current = r
    <3>1. agent' = StateAfter(r) /\ agent.registered
      BY <2>1 DEF React, TurnOver, AgentInv
    <3>2. PICK status \in {"failed", "ready", "starting"}, reason \in {None, "startup", "model"} :
            agent' = SetState(agent, status, reason)
      BY <3>1 DEF StateAfter
    <3>3. GoodAgent(agent) /\ status \in Statuses
      BY AgentOKIsGood DEF IInv, Statuses
    <3>4. /\ agent'.registered = agent.registered /\ agent'.current = agent.current
          /\ agent'.status = IF agent.registered THEN status ELSE agent.status
      BY <3>2, <3>3, SetStateLemma
    <3>5. agent'.registered /\ agent'.status = status
      BY <3>1, <3>4, Zenon
    <3>6. QED
      BY <3>4, <3>5
  <2>2. CASE ~(Delegated(r) /\ agent.status = "busy" /\ agent.current = r)
    <3>1. UNCHANGED agent
      BY <2>2 DEF React, TurnOver
    <3>2. agent.current # None => agent.status # "busy"
      BY <1>1, <2>2 DEF AgentInv, BusyHasTurn, IInv, AgentOK
    <3>3. QED
      BY <3>1, <3>2 DEF AgentInv
  <2>3. QED
    BY <2>1, <2>2
<1>4. BusyHasTurn'
  <2>1. agent.current # None => agent.current \in Requests
    BY DEF IInv, AgentOK
  <2>2. QED
    BY <1>1, <1>2, <1>3, <2>1 DEF AgentInv, BusyHasTurn, Delegated
<1>5. TaskHasAgent' /\ DeliveringAlone'
  BY <1>1, <1>2 DEF TaskHasAgent, DeliveringAlone
<1>6. QED
  BY <1>3, <1>4, <1>5 DEF AgentInv

\* The agent follows its turn in the beginning ...
LEMMA InitAgent == Init => AgentInv
<1> SUFFICES ASSUME Init PROVE AgentInv
  OBVIOUS
<1>1. agent.status = "starting" /\ agent.current = None
  BY DEF Init, Unregistered
<1>2. \A q \in Requests : turn[q].promise = "none" /\ req[q].pc = "idle"
  BY DEF Init
<1>3. QED
  BY <1>1, <1>2 DEF AgentInv, TaskHasAgent, BusyHasTurn, DeliveringAlone

\* ... and in every step.
LEMMA StepAgent == IInv /\ AgentInv /\ [Next]_vars => AgentInv'
<1> SUFFICES ASSUME IInv, AgentInv, [Next]_vars PROVE AgentInv'
  OBVIOUS
<1>1. ASSUME NEW r \in Requests, Begin(r) PROVE AgentInv'
  <2>1. ASSUME Skip(r) \/ RefuseBusy(r) \/ RefuseUnready(r) \/ AnswerFromCache(r) \/ Join(r)
               \/ StartRun(r)
        PROVE  AgentInv'
    <3>1. UNCHANGED agent
      BY <2>1 DEF Skip, RefuseBusy, RefuseUnready, AnswerFromCache, Join, StartRun
    <3>2. Settling
      BY <2>1, SkipInvariant, RefuseBusyInvariant, RefuseUnreadyInvariant,
         AnswerFromCacheInvariant, JoinInvariant, StartRunInvariant
    <3>3. QED
      BY <3>1, <3>2, AgentUnchanged, AgentStaysInvariant
  <2>2. QED
    BY <1>1, <2>1, StartTurnAgent, ArmWaiterAgent DEF Begin
<1>2. ASSUME NEW r \in Requests, Accept(r) \/ Answer(r) PROVE AgentInv'
  <2>1. UNCHANGED agent
    BY <1>2 DEF Accept, Answer, AnswerOwn, AnswerJoined
  <2>2. Settling
    BY <1>2, AcceptInvariant, AnswerOwnInvariant, AnswerJoinedInvariant DEF Answer
  <2>3. QED
    BY <2>1, <2>2, AgentUnchanged, AgentStaysInvariant
<1>3. CASE Internal
  BY <1>1, <1>2, <1>3, RefuseAgent, ReactAgent DEF Internal, Conclude
<1>4. ASSUME NEW r \in Requests, Timers(r) \/ RequestAbort(r) \/ \E op \in Ops : Arrive(r, op)
      PROVE  AgentInv'
  <2>1. UNCHANGED agent
    BY <1>4 DEF Timers, DeliveryEnds, EndDelivery, RunEnds, TurnTimer, RequestAbort, Arrive
  <2>2. Settling
    BY <1>4, DeliveryEndsInvariant, RunEndsInvariant, TurnTimerInvariant, RequestAbortInvariant,
       ArriveInvariant DEF Timers
  <2>3. QED
    BY <2>1, <2>2, AgentUnchanged, AgentStaysInvariant
<1>5. CASE Expire
  BY <1>5, ExpireInvariant, AgentUnchanged, AgentStaysInvariant DEF Expire
<1>6. CASE UNCHANGED vars
  BY <1>6 DEF vars, AgentInv, TaskHasAgent, BusyHasTurn, DeliveringAlone, Delegated, Live, Unreacted
<1>7. QED
  BY <1>3, <1>4, <1>5, <1>6, PtyDataAgent, PtyExitAgent, PtyErrorAgent, LaunchAgent,
     ReadinessCheckAgent, RegisterAgent, StopAgent DEF Next

\* The agent always follows its turn.
LEMMA AgentInvariant == Spec => []AgentInv
<1>1. QED
  BY InitAgent, StepAgent, Invariant, PTL DEF Spec

\* Every variable keeps its type, and the line holds the calls that are not answered.
THEOREM TypeCorrect == Spec => []TypeOK
<1>1. IInv => TypeOK
  BY DEF IInv, TypeOK, Shape, TurnShape, Turns, Promises
<1>2. QED
  BY <1>1, Invariant, PTL

\* One turn at a time listens to the terminal of a target, however requests
\* overlap, fail, are aborted or outlive their session.
THEOREM OneOpenTurnAtATime == Spec => []OneOpenTurn
<1>1. IInv => OneOpenTurn
  BY DEF IInv, OneLive, Live, OneOpenTurn
<1>2. QED
  BY <1>1, Invariant, PTL

\* When no continuation is queued, a pending cycle is one of the current
\* generation whose turn is open: nothing that is over keeps a target refusing.
THEOREM PendingIsAlwaysLive == Spec => []PendingIsLive
<1>1. IInv => PendingIsLive
  <2> SUFFICES ASSUME IInv, Quiet, HasPending
               PROVE  /\ C!IsPendingFor(cycles, Target, Generation)
                      /\ turn[PendingPayload].promise = "open"
    BY DEF PendingIsLive
  <2>1. PendingPayload \in Requests /\ Live(PendingPayload)
    BY PayloadLemma DEF IInv, Shape, PendingIsCurrent
  <2>2. turn[PendingPayload].promise = "open"
    BY <2>1 DEF Quiet, Live
  <2>3. QED
    BY <2>2 DEF IInv, PendingIsCurrent, C!IsPendingFor, HasPending
<1>2. QED
  BY <1>1, Invariant, PTL

\* When no continuation is queued, the agent is busy exactly while its current
\* turn is open.
THEOREM BusyExactlyWhileOpen == Spec => []BusyMeansOpenTurn
<1>1. IInv /\ AgentInv => BusyMeansOpenTurn
  BY DEF IInv, AgentOK, AgentInv, BusyHasTurn, BusyMeansOpenTurn, Quiet, Live
<1>2. QED
  BY <1>1, Invariant, AgentInvariant, PTL

\* A target that was unregistered has no open task.
THEOREM NoTaskWithoutAgent == Spec => []UnregisteredHasNoTask
<1>1. AgentInv => UnregisteredHasNoTask
  BY DEF AgentInv, TaskHasAgent, UnregisteredHasNoTask
<1>2. QED
  BY <1>1, AgentInvariant, PTL

-----------------------------------------------------------------------------
(***************************************************************************)
(* Two promises of the service about answers, for any set of requests.     *)
(*                                                                         *)
(* While a task runs, nothing is cached that a wait could take for its     *)
(* answer.  A cycle that begins makes every entry older than the target's  *)
(* generation (NoneIsNewer); a waiter is armed when nothing is cached; and *)
(* the only handlers that cache an outcome after the callbacks of its turn *)
(* have run answer with a turn of their own, and keep the head of the line *)
(* until they have (AnswererAlone).                                        *)
(*                                                                         *)
(* The outcome of a task is recorded once.  emittedCycles compares keys    *)
(* only, and a wait that arms a waiter shares the generation of the task   *)
(* before it: what has to be shown is that no key is taken before the      *)
(* outcome it is for is due to be recorded (DueIsNotRecorded).             *)
(***************************************************************************)

\* An entry of the cache is of the generation of its target, or of an older one.
NoneIsNewer(c) ==
  \E S : c.cache \in Seq(S) /\ \A e \in S : e.generation \in 0 .. c.generations[Target]

\* The cache has no answer to give.
NoAnswer(c) == C!CachedOutcome(c, Target, 0) = {}

\* Deleting an entry leaves the others.
LEMMA WithoutLemma ==
  ASSUME NEW S, NEW s \in Seq(S), NEW id
  PROVE  C!Without(s, id) \in Seq(S)
<1> DEFINE n == Len(s)
<1>1. n \in Nat /\ DOMAIN s = 1 .. n /\ \A i \in 1 .. n : s[i] \in S
  BY LenProperties, ElementOfSeq
<1>2. CASE \E i \in DOMAIN s : s[i].id = id
  <2>1. PICK k \in DOMAIN s : C!Without(s, id) = C!RemoveAt(s, k)
    BY <1>2 DEF C!Without
  <2> HIDE DEF n
  <2>2. SubSeq(s, 1, k - 1) \in Seq(S) /\ SubSeq(s, k + 1, n) \in Seq(S)
    BY <1>1, SubSeqProperties
  <2>3. C!RemoveAt(s, k) \in Seq(S)
    BY <2>2, ConcatProperties DEF C!RemoveAt, n
  <2>4. QED
    BY <2>1, <2>3
<1>3. CASE ~\E i \in DOMAIN s : s[i].id = id
  BY <1>3 DEF C!Without
<1>4. QED
  BY <1>2, <1>3

\* prune() keeps entries of the cache.
LEMMA PruneLemma ==
  ASSUME NEW S, NEW s \in Seq(S)
  PROVE  C!Prune(s) \in Seq(S)
<1> DEFINE n == Len(s)
<1> DEFINE m == IF n > 1 THEN n - 1 + 1 ELSE 1
<1>1. n \in Nat /\ DOMAIN s = 1 .. n /\ \A i \in 1 .. n : s[i] \in S
  BY LenProperties, ElementOfSeq
<1>2. C!Prune(s) = SubSeq(s, m, n)
  BY DEF C!Prune
<1> HIDE DEF n
<1>3. m \in Nat /\ m >= 1
  BY <1>1
<1> HIDE DEF m
<1>4. SubSeq(s, m, n) \in Seq(S)
  BY <1>1, <1>3, SubSeqProperties
<1>5. QED
  BY <1>2, <1>4

\* Map.set adds or replaces one entry.
LEMMA PutLemma ==
  ASSUME NEW S, NEW s \in Seq(S), NEW e \in S
  PROVE  C!Put(s, e) \in Seq(S)
<1>1. Len(s) \in Nat /\ DOMAIN s = 1 .. Len(s) /\ \A i \in 1 .. Len(s) : s[i] \in S
  BY LenProperties, ElementOfSeq
<1> DEFINE t == [i \in 1 .. Len(s) |-> IF s[i].id = e.id THEN e ELSE s[i]]
<1>2. C!Put(s, e) = t \/ C!Put(s, e) = Append(s, e)
  BY <1>1 DEF C!Put
<1>3. t \in Seq(S)
  BY <1>1
<1>4. QED
  BY <1>2, <1>3

\* No entry that may be used, no answer ...
LEMMA NoneUsable ==
  ASSUME NEW c, NEW S, c.cache \in Seq(S),
         \A e \in S : ~(e.id = Target /\ C!Usable(c, e, 0))
  PROVE  NoAnswer(c)
<1>1. \A e \in C!Range(c.cache) : e \in S
  BY LenProperties, ElementOfSeq DEF C!Range
<1>2. QED
  BY <1>1 DEF NoAnswer, C!CachedOutcome, C!Entries

\* ... and the other way round.
LEMMA UsableLemma ==
  ASSUME NEW c, NEW S, c.cache \in Seq(S), NoAnswer(c)
  PROVE  c.cache \in Seq({e \in S : ~(e.id = Target /\ C!Usable(c, e, 0))})
<1> DEFINE T == {e \in S : ~(e.id = Target /\ C!Usable(c, e, 0))}
<1> DEFINE s == c.cache
<1>1. Len(s) \in Nat /\ DOMAIN s = 1 .. Len(s) /\ \A i \in 1 .. Len(s) : s[i] \in S
  BY LenProperties, ElementOfSeq
<1>2. \A i \in 1 .. Len(s) : s[i] \in T
  <2>1. ASSUME NEW i \in 1 .. Len(s), s[i].id = Target, C!Usable(c, s[i], 0) PROVE FALSE
    <3>1. s[i] \in C!Range(s)
      BY <1>1 DEF C!Range
    <3>2. s[i].outcome \in C!CachedOutcome(c, Target, 0)
      BY <2>1, <3>1 DEF C!CachedOutcome, C!Entries
    <3>3. QED
      BY <3>2 DEF NoAnswer
  <2>2. QED
    BY <1>1, <2>1
<1> HIDE DEF T
<1>3. s \in Seq(T)
  <2>1. s = [i \in 1 .. Len(s) |-> s[i]]
    BY <1>1
  <2>2. QED
    BY <1>1, <1>2, <2>1
<1>4. QED
  BY <1>3 DEF T

\* The answers depend on the cache and the generations alone.
LEMMA SameCache ==
  ASSUME NEW c, NEW d, d.cache = c.cache, d.generations = c.generations
  PROVE  /\ NoneIsNewer(c) => NoneIsNewer(d)
         /\ NoAnswer(c) => NoAnswer(d)
BY DEF NoneIsNewer, NoAnswer, C!CachedOutcome, C!Entries, C!Usable, C!Generation

\* A record with another cache.
LEMMA CacheFields ==
  ASSUME NEW c, IsCycles(c), NEW cache
  PROVE  LET d == [c EXCEPT !.cache = cache]
         IN d.cache = cache /\ d.generations = c.generations
<1> PICK S : c \in Objects(S)
  BY DEF IsCycles
<1>1. QED
  BY DEF Objects

\* What concerns the pending entry leaves the cache alone.
LEMMA PendingFields ==
  ASSUME NEW c, IsCycles(c), NEW x
  PROVE  LET d == [c EXCEPT !.pending[Target] = x]
         IN d.cache = c.cache /\ d.generations = c.generations
<1> PICK S : c \in Objects(S)
  BY DEF IsCycles
<1>1. QED
  BY DEF Objects

\* begin(): whatever was cached is of an older cycle.
LEMMA BeginAnswers ==
  ASSUME NEW c, IsCycles(c), NoneIsNewer(c)
  PROVE  NoneIsNewer(C!Begin(c, Target)) /\ NoAnswer(C!Begin(c, Target))
<1> DEFINE g == c.generations[Target]
<1> DEFINE begun == [c EXCEPT !.generations[Target] = @ + 1]
<1> DEFINE d == C!Begin(c, Target)
<1> DEFINE cache == C!Without(c.cache, Target)
<1>1. PICK S : c.cache \in Seq(S) /\ \A e \in S : e.generation \in 0 .. g
  BY DEF NoneIsNewer
<1>2. g \in Nat /\ IsCycles(begun) /\ begun.generations[Target] = g + 1
  <2> PICK T : c \in Objects(T)
    BY DEF IsCycles
  <2>1. begun \in Objects(T) /\ begun.generations[Target] = g + 1 /\ g \in Nat
    BY DEF Objects
  <2>2. QED
    BY <2>1 DEF IsCycles
<1>3. d = [begun EXCEPT !.cache = cache]
  BY DEF C!Begin
<1> HIDE DEF begun, d
<1>4. cache \in Seq(S)
  BY <1>1, WithoutLemma
<1> HIDE DEF cache
<1>5. d.cache \in Seq(S) /\ d.generations[Target] = g + 1
  BY <1>2, <1>3, <1>4, CacheFields
<1> HIDE DEF g
<1>6. NoneIsNewer(d)
  BY <1>1, <1>2, <1>5 DEF NoneIsNewer
<1>7. NoAnswer(d)
  <2>1. \A e \in S : ~(e.id = Target /\ C!Usable(d, e, 0))
    BY <1>1, <1>2, <1>5 DEF C!Usable, C!Generation
  <2>2. QED
    BY <1>5, <2>1, NoneUsable
<1>8. QED
  BY <1>6, <1>7 DEF d

\* cachedOutcome() only deletes.
LEMMA LookedAnswers ==
  ASSUME NEW c, IsCycles(c), NoneIsNewer(c), NoAnswer(c)
  PROVE  NoneIsNewer(C!Looked(c, Target, 0)) /\ NoAnswer(C!Looked(c, Target, 0))
<1> DEFINE d == C!Looked(c, Target, 0)
<1> DEFINE cache == C!Without(c.cache, Target)
<1>1. PICK S : c.cache \in Seq(S) /\ \A e \in S : e.generation \in 0 .. c.generations[Target]
  BY DEF NoneIsNewer
<1> DEFINE T == {e \in S : ~(e.id = Target /\ C!Usable(c, e, 0))}
<1>2. c.cache \in Seq(T)
  BY <1>1, UsableLemma
<1>3. d = [c EXCEPT !.cache = cache]
  BY DEF C!Looked, NoAnswer
<1> HIDE DEF d
<1>4. cache \in Seq(T)
  BY <1>2, WithoutLemma
<1> HIDE DEF cache
<1>5. d.cache \in Seq(T) /\ d.generations = c.generations
  BY <1>3, <1>4, CacheFields
<1>6. NoneIsNewer(d)
  BY <1>1, <1>5 DEF NoneIsNewer
<1>7. \A e \in T : ~(e.id = Target /\ C!Usable(d, e, 0))
  BY <1>5 DEF C!Usable, C!Generation
<1>8. NoAnswer(d)
  BY <1>5, <1>7, NoneUsable
<1>9. QED
  BY <1>6, <1>8 DEF d

\* cacheOutcome() stores an entry of the current generation.
LEMMA CacheOutcomeAnswers ==
  ASSUME NEW c, IsCycles(c), NoneIsNewer(c), NEW g, NEW o
  PROVE  NoneIsNewer(C!CacheOutcome(c, Target, g, o, 0))
<1> DEFINE e == [id |-> Target, outcome |-> o, generation |-> g, expiresAt |-> 0 + 1]
<1> DEFINE cache == C!Prune(C!Put(c.cache, e))
<1> DEFINE d == [c EXCEPT !.cache = cache]
<1>1. PICK S : c.cache \in Seq(S) /\ \A x \in S : x.generation \in 0 .. c.generations[Target]
  BY DEF NoneIsNewer
<1>2. CASE g # C!Generation(c, Target)
  BY <1>2 DEF C!CacheOutcome
<1>3. CASE g = C!Generation(c, Target)
  <2>1. c.generations[Target] \in Nat
    BY DEF IsCycles, Objects
  <2>2. e.generation = g /\ g = c.generations[Target]
    BY <1>3 DEF C!Generation
  <2>3. C!CacheOutcome(c, Target, g, o, 0) = d
    BY <1>3 DEF C!CacheOutcome
  <2> HIDE DEF e
  <2>4. c.cache \in Seq(S \cup {e})
    <3>1. S \subseteq S \cup {e}
      OBVIOUS
    <3>2. QED
      BY <1>1, <3>1
  <2>5. cache \in Seq(S \cup {e})
    BY <2>4, PutLemma, PruneLemma
  <2> HIDE DEF cache
  <2>6. d.cache \in Seq(S \cup {e}) /\ d.generations = c.generations
    BY <2>5, CacheFields
  <2>7. \A x \in S \cup {e} : x.generation \in 0 .. c.generations[Target]
    BY <1>1, <2>1, <2>2
  <2>8. NoneIsNewer(d)
    BY <2>6, <2>7 DEF NoneIsNewer
  <2>9. QED
    BY <2>3, <2>8
<1>4. QED
  BY <1>2, <1>3

\* complete() does, too.
LEMMA CompleteAnswers ==
  ASSUME NEW c, IsCycles(c), NoneIsNewer(c), NEW g, NEW o
  PROVE  NoneIsNewer(C!Complete(c, Target, g, o, 0))
<1> DEFINE b == C!ClearPending(c, Target, g)
<1>1. IsCycles(b) /\ b.cache = c.cache /\ b.generations = c.generations
  BY ForgetLemma, PendingFields DEF C!ClearPending
<1> HIDE DEF b
<1>2. NoneIsNewer(b)
  BY <1>1, SameCache
<1>3. C!Complete(c, Target, g, o, 0) = C!CacheOutcome(b, Target, g, o, 0)
  BY DEF C!Complete, b
<1>4. QED
  BY <1>1, <1>2, <1>3, CacheOutcomeAnswers

------------------------------------------------------------------------------
\* While a handler waits for a turn of its own, no other turn is alive.
AnswererAlone ==
  \A q, r \in Requests : req[r].pc = "waiting" /\ req[r].awaits = r /\ Live(q) => q = r

\* The inductive invariant, with IInv and AgentInv.
AnswersInv == AnswererAlone /\ NoneIsNewer(cycles) /\ NoOldAnswerWhileRunning

\* No handler begins to wait for a turn of its own.
WaitersStay ==
  \A q \in Requests :
    req'[q].pc = "waiting" /\ req'[q].awaits = q => req[q].pc = "waiting" /\ req[q].awaits = q

SameAnswers == cycles'.cache = cycles.cache /\ cycles'.generations = cycles.generations

\* A step that arms nothing and lets no handler begin to wait.
LEMMA AnswererStays ==
  ASSUME IInv, AnswersInv, Settling, WaitersStay
  PROVE  AnswererAlone'
BY SettlingKeepsLive DEF AnswersInv, AnswererAlone, WaitersStay

\* A step that arms nothing and caches nothing.
LEMMA CacheStays ==
  ASSUME IInv, AnswersInv, Settling, SameAnswers
  PROVE  NoneIsNewer(cycles)' /\ NoOldAnswerWhileRunning'
<1>1. /\ NoneIsNewer(cycles')
      /\ NoAnswer(cycles) => NoAnswer(cycles')
  BY SameCache DEF AnswersInv, SameAnswers
<1>2. NoOldAnswerWhileRunning'
  BY <1>1, SettlingKeepsLive DEF AnswersInv, NoOldAnswerWhileRunning, Cached, NoAnswer
<1>3. QED
  BY <1>1, <1>2

\* The same for a step that only looks.
LEMMA CacheUnchanged ==
  ASSUME IInv, AnswersInv, Settling, WaitersStay, UNCHANGED cycles
  PROVE  AnswersInv'
BY AnswererStays, CacheStays DEF AnswersInv, SameAnswers

\* What Reply() does to the requests.
LEMMA ReplyFields ==
  ASSUME IInv, NEW r \in Requests, NEW reply, Reply(r, reply)
  PROVE  /\ req'[r].pc = "done" /\ req'[r].op = req[r].op /\ req'[r].reply = reply
         /\ \A q \in Requests : q # r => req'[q] = req[q]
<1> PICK S : req \in ReqsWith(S)
  BY DEF IInv, Shape, ReqShape
<1> DEFINE a == [req EXCEPT ![r].pc = "done"]
<1> DEFINE b == [a EXCEPT ![r].awaits = None]
<1> DEFINE c == [b EXCEPT ![r].reply = reply]
<1>1. /\ a \in ReqsWith(S) /\ a[r].pc = "done" /\ a[r].op = req[r].op
      /\ \A q \in Requests : q # r => a[q] = req[q]
  BY DEF ReqsWith, Stages
<1> HIDE DEF a
<1>2. /\ b \in ReqsWith(S) /\ b[r].pc = "done" /\ b[r].op = req[r].op
      /\ \A q \in Requests : q # r => b[q] = req[q]
  BY <1>1 DEF ReqsWith
<1> HIDE DEF b
<1>3. /\ c[r].pc = "done" /\ c[r].op = req[r].op /\ c[r].reply = reply
      /\ \A q \in Requests : q # r => c[q] = req[q]
  BY <1>2 DEF ReqsWith
<1> HIDE DEF c
<1>4. req' = c
  BY DEF Reply, c, b, a
<1>5. QED
  BY <1>3, <1>4

\* A handler that ends waits no more.
LEMMA ReplyWaiters ==
  ASSUME IInv, NEW r \in Requests, NEW reply, Reply(r, reply)
  PROVE  WaitersStay
BY ReplyFields DEF WaitersStay

\* cancelPending() leaves the cache alone.
LEMMA CancelAnswers ==
  ASSUME IInv, NEW t, CancelPending(t)
  PROVE  SameAnswers
BY PendingFields DEF CancelPending, C!CancelPending, IInv, Shape, SameAnswers

\* A request that is refused before a turn is armed has begun a cycle.
LEMMA RefuseUnreadyAnswers ==
  ASSUME IInv, AnswersInv, NEW r \in Requests, RefuseUnready(r)
  PROVE  AnswersInv'
<1>1. Settling /\ WaitersStay /\ cycles' = C!Begin(cycles, Target)
  BY RefuseUnreadyInvariant, ReplyWaiters DEF RefuseUnready
<1>2. NoneIsNewer(cycles') /\ NoAnswer(cycles')
  BY <1>1, BeginAnswers DEF IInv, Shape, AnswersInv
<1>3. QED
  BY <1>1, <1>2, AnswererStays DEF AnswersInv, NoOldAnswerWhileRunning, Cached, NoAnswer

\* A request that has its turn armed is at the head of the line: nobody waits there.
LEMMA ArmedAnswers ==
  ASSUME IInv, NEW r \in Requests, Armed(r), CanBegin(r), \A q \in Requests : Live(q)' <=> q = r
  PROVE  AnswererAlone'
<1> SUFFICES ASSUME NEW q \in Requests, NEW s \in Requests,
                    req'[s].pc = "waiting", req'[s].awaits = s, Live(q)'
             PROVE  q = s
  BY DEF AnswererAlone
<1>1. q = r
  OBVIOUS
<1>2. ASSUME s # r PROVE FALSE
  <2>1. req[s].pc = "waiting"
    BY <1>2 DEF Armed
  <2>2. Head(line) = s
    BY <2>1, HeadLemma
  <2>3. QED
    BY <1>2, <2>2 DEF CanBegin
<1>3. QED
  BY <1>1, <1>2

\* A turn begins a cycle: what is cached is older.
LEMMA StartTurnAnswers ==
  ASSUME IInv, AnswersInv, NEW r \in Requests, StartTurn(r)
  PROVE  AnswersInv'
<1> DEFINE begun == C!Begin(cycles, Target)
<1> DEFINE g == C!Generation(begun, Target)
<1>1. /\ IInv' /\ Armed(r) /\ \A q \in Requests : Live(q)' <=> q = r
  BY StartTurnInvariant
<1>2. AnswererAlone'
  BY <1>1, ArmedAnswers DEF StartTurn, Begins
<1>3. NoneIsNewer(begun) /\ NoAnswer(begun) /\ IsCycles(begun)
  BY BeginAnswers, BeginLemma DEF IInv, Shape, AnswersInv
<1> HIDE DEF begun
<1>4. cycles' = C!SetPending(begun, Target, g, r, TRUE) \/ cycles' = begun
  BY DEF StartTurn, Arm, begun
<1>5. cycles'.cache = begun.cache /\ cycles'.generations = begun.generations
  BY <1>3, <1>4, PendingFields DEF C!SetPending
<1>6. NoneIsNewer(cycles') /\ NoAnswer(cycles')
  BY <1>3, <1>5, SameCache
<1>7. QED
  BY <1>2, <1>6 DEF AnswersInv, NoOldAnswerWhileRunning, Cached, NoAnswer

\* A waiter is armed where nothing is cached.
LEMMA ArmWaiterAnswers ==
  ASSUME IInv, AnswersInv, NEW r \in Requests, ArmWaiter(r)
  PROVE  AnswersInv'
<1> DEFINE looked == C!Looked(cycles, Target, 0)
<1>1. /\ IInv' /\ Armed(r) /\ \A q \in Requests : Live(q)' <=> q = r
  BY ArmWaiterInvariant
<1>2. AnswererAlone'
  BY <1>1, ArmedAnswers DEF ArmWaiter, Begins
<1>3. NoAnswer(cycles) /\ cycles' = C!SetPending(looked, Target, Generation, r, FALSE)
  BY DEF ArmWaiter, NoAnswer, Cached
<1>4. NoneIsNewer(looked) /\ NoAnswer(looked) /\ IsCycles(looked)
  BY <1>3, LookedAnswers, LookedLemma DEF IInv, Shape, AnswersInv
<1> HIDE DEF looked
<1>5. cycles'.cache = looked.cache /\ cycles'.generations = looked.generations
  BY <1>3, <1>4, PendingFields DEF C!SetPending
<1>6. NoneIsNewer(cycles') /\ NoAnswer(cycles')
  BY <1>4, <1>5, SameCache
<1>7. QED
  BY <1>2, <1>6 DEF AnswersInv, NoOldAnswerWhileRunning, Cached, NoAnswer

\* A wait that joins a cycle awaits the turn of another request.
LEMMA JoinAnswers ==
  ASSUME IInv, AnswersInv, NEW r \in Requests, Join(r)
  PROVE  AnswersInv'
<1> DEFINE payload == PendingPayload
<1>1. /\ Settling /\ HasPending /\ req[r].pc = "queued" /\ NoAnswer(cycles)
      /\ cycles' = C!Looked(cycles, Target, 0)
      /\ req' = [req EXCEPT ![r].pc = "waiting", ![r].awaits = payload]
  BY JoinInvariant DEF Join, Begins, CanBegin, C!IsPendingFor, HasPending, NoAnswer, Cached
<1>2. payload \in Requests /\ payload # r
  <2>1. payload \in Requests /\ Live(payload)
    BY <1>1, PayloadLemma DEF IInv, Shape, PendingIsCurrent
  <2>2. ~Live(r)
    BY <1>1 DEF IInv, Fresh, Live, Unreacted, Settled, Failures
  <2>3. QED
    BY <2>1, <2>2
<1> HIDE DEF payload
<1>3. WaitersStay
  <2> PICK S : req \in ReqsWith(S)
    BY DEF IInv, Shape, ReqShape
  <2> DEFINE a == [req EXCEPT ![r].pc = "waiting"]
  <2> DEFINE b == [a EXCEPT ![r].awaits = payload]
  <2>1. a \in ReqsWith(S) /\ \A q \in Requests : q # r => a[q] = req[q]
    BY DEF ReqsWith, Stages
  <2>2. req' = b
    BY <1>1
  <2> HIDE DEF a
  <2>3. b[r].awaits = payload /\ \A q \in Requests : q # r => b[q] = req[q]
    BY <2>1 DEF ReqsWith
  <2> HIDE DEF b
  <2>4. QED
    BY <1>2, <2>2, <2>3 DEF WaitersStay
<1>4. NoneIsNewer(cycles') /\ NoAnswer(cycles')
  BY <1>1, LookedAnswers DEF IInv, Shape, AnswersInv
<1>5. QED
  BY <1>1, <1>3, <1>4, AnswererStays DEF AnswersInv, NoOldAnswerWhileRunning, Cached, NoAnswer

\* The callbacks of a turn cache its outcome when no turn is open.
LEMMA ReactAnswers ==
  ASSUME IInv, AnswersInv, NEW r \in Requests, React(r)
  PROVE  AnswersInv'
<1>1. \A q \in Requests : ~Live(q)' /\ turn'[q].promise # "open"
  BY ReactInvariant DEF Live
<1>2. NoneIsNewer(cycles')
  <2>1. \/ UNCHANGED cycles
        \/ cycles' = C!CancelPending(cycles, Target)
        \/ cycles' = C!Complete(cycles, Target, req[r].generation, Outcome(r), 0)
    BY DEF React, CycleOver
  <2>2. CASE UNCHANGED cycles
    BY <2>2 DEF AnswersInv
  <2>3. CASE cycles' = C!CancelPending(cycles, Target)
    BY <2>3, PendingFields, SameCache DEF C!CancelPending, IInv, Shape, AnswersInv
  <2>4. CASE cycles' = C!Complete(cycles, Target, req[r].generation, Outcome(r), 0)
    BY <2>4, CompleteAnswers DEF IInv, Shape, AnswersInv
  <2>5. QED
    BY <2>1, <2>2, <2>3, <2>4
<1>3. QED
  BY <1>1, <1>2 DEF AnswersInv, AnswererAlone, NoOldAnswerWhileRunning

\* An accepted ask goes on to wait: while it was delivered, no other turn was alive.
LEMMA AcceptAnswers ==
  ASSUME IInv, AgentInv, AnswersInv, NEW r \in Requests, Accept(r)
  PROVE  AnswersInv'
<1>1. /\ Settling /\ req[r].pc = "delivering" /\ UNCHANGED cycles
      /\ IF req[r].op = "send" THEN Reply(r, "accepted")
         ELSE req' = [req EXCEPT ![r].pc = "waiting", ![r].awaits = r]
  BY AcceptInvariant DEF Accept, CanConclude
<1>2. CASE req[r].op = "send"
  BY <1>1, <1>2, ReplyWaiters, CacheUnchanged
<1>3. CASE req[r].op # "send"
  <2>1. \A q \in Requests : q # r => req'[q] = req[q]
    BY <1>1, <1>3 DEF IInv, Shape, ReqShape, ReqsWith
  <2>2. \A q \in Requests : Live(q)' => Live(q)
    BY <1>1, SettlingKeepsLive
  <2>3. AnswererAlone'
    BY <1>1, <2>1, <2>2 DEF AnswersInv, AnswererAlone, AgentInv, DeliveringAlone
  <2>4. NoneIsNewer(cycles)' /\ NoOldAnswerWhileRunning'
    BY <1>1, CacheStays DEF SameAnswers
  <2>5. QED
    BY <2>3, <2>4 DEF AnswersInv
<1>4. QED
  BY <1>2, <1>3

\* A handler that answers with a turn of its own caches its outcome: nothing is open.
LEMMA AnswerOwnAnswers ==
  ASSUME IInv, AnswersInv, NEW r \in Requests, AnswerOwn(r)
  PROVE  AnswersInv'
<1>1. /\ Settling /\ WaitersStay
      /\ req[r].pc = "waiting" /\ req[r].awaits = r /\ turn[r].promise \in Settled
      /\ cycles' = IF req[r].aborted THEN cycles
                   ELSE C!CacheOutcome(cycles, Target, req[r].generation, Outcome(r), 0)
  BY AnswerOwnInvariant, ReplyWaiters DEF AnswerOwn, CanAnswer, Joined
<1>2. NoneIsNewer(cycles')
  BY <1>1, CacheOutcomeAnswers DEF IInv, Shape, AnswersInv
<1>3. \A q \in Requests : turn'[q].promise # "open"
  <2> SUFFICES ASSUME NEW q \in Requests, turn'[q].promise = "open" PROVE FALSE
    OBVIOUS
  <2>1. turn[q].promise = "open"
    BY <1>1, SettlingKeepsLive
  <2>2. q = r
    BY <1>1, <2>1 DEF AnswersInv, AnswererAlone, Live
  <2>3. QED
    BY <1>1, <2>1, <2>2 DEF Settled, Failures
<1>4. QED
  BY <1>1, <1>2, <1>3, AnswererStays DEF AnswersInv, NoOldAnswerWhileRunning

\* The cached outcome expires.
LEMMA ExpireAnswers ==
  ASSUME IInv, AnswersInv, Expire
  PROVE  AnswersInv'
<1>1. /\ Settling /\ WaitersStay
  BY ExpireInvariant DEF Expire, WaitersStay
<1>2. cycles'.cache = <<>> /\ cycles'.generations = cycles.generations
  BY CacheFields DEF Expire, IInv, Shape
<1>3. cycles'.cache \in Seq({})
  BY <1>2
<1>4. NoneIsNewer(cycles') /\ NoAnswer(cycles')
  BY <1>3, NoneUsable DEF NoneIsNewer
<1>5. QED
  BY <1>1, <1>4, AnswererStays DEF AnswersInv, NoOldAnswerWhileRunning, Cached, NoAnswer

\* Nothing is cached in the beginning ...
LEMMA InitAnswers == Init => AnswersInv
<1> SUFFICES ASSUME Init PROVE AnswersInv
  OBVIOUS
<1>1. \A q \in Requests : turn[q].promise = "none" /\ req[q].pc = "idle"
  BY DEF Init
<1>2. cycles.cache \in Seq({})
  BY DEF Init, C!NewCycles
<1>3. NoneIsNewer(cycles)
  BY <1>2 DEF NoneIsNewer
<1>4. QED
  BY <1>1, <1>3 DEF AnswersInv, AnswererAlone, NoOldAnswerWhileRunning

\* ... and no step breaks the invariant.
LEMMA StepAnswers == IInv /\ AgentInv /\ AnswersInv /\ [Next]_vars => AnswersInv'
<1> SUFFICES ASSUME IInv, AgentInv, AnswersInv, [Next]_vars PROVE AnswersInv'
  OBVIOUS
<1> PICK S : req \in ReqsWith(S)
  BY DEF IInv, Shape, ReqShape
<1>1. ASSUME NEW r \in Requests, Begin(r) PROVE AnswersInv'
  <2>1. ASSUME Skip(r) \/ RefuseBusy(r) \/ AnswerFromCache(r) \/ StartRun(r)
        PROVE  AnswersInv'
    <3>1. Settling /\ UNCHANGED cycles
      BY <2>1, SkipInvariant, RefuseBusyInvariant, AnswerFromCacheInvariant, StartRunInvariant
         DEF Skip, RefuseBusy, AnswerFromCache, StartRun
    <3>2. \/ \E reply : Reply(r, reply)
          \/ req' = [req EXCEPT ![r].pc = "headless"]
      BY <2>1 DEF Skip, RefuseBusy, AnswerFromCache, StartRun
    <3>3. WaitersStay
      <4>1. CASE \E reply : Reply(r, reply)
        BY <4>1, ReplyWaiters
      <4>2. CASE req' = [req EXCEPT ![r].pc = "headless"]
        BY <4>2 DEF ReqsWith, WaitersStay
      <4>3. QED
        BY <3>2, <4>1, <4>2
    <3>4. QED
      BY <3>1, <3>3, CacheUnchanged
  <2>2. QED
    BY <1>1, <2>1, RefuseUnreadyAnswers, StartTurnAnswers, JoinAnswers, ArmWaiterAnswers DEF Begin
<1>2. ASSUME NEW r \in Requests, Refuse(r) PROVE AnswersInv'
  <2>1. Settling /\ WaitersStay
    BY <1>2, RefuseInvariant, ReplyWaiters DEF Refuse
  <2>2. SameAnswers
    BY <1>2, CancelAnswers DEF Refuse, SameAnswers
  <2>3. QED
    BY <2>1, <2>2, AnswererStays, CacheStays DEF AnswersInv
<1>3. ASSUME NEW r \in Requests, AnswerJoined(r) PROVE AnswersInv'
  <2>1. Settling /\ UNCHANGED cycles /\ \E reply : Reply(r, reply)
    BY <1>3, AnswerJoinedInvariant DEF AnswerJoined
  <2>2. QED
    BY <2>1, ReplyWaiters, CacheUnchanged
<1>4. CASE Internal
  BY <1>1, <1>2, <1>3, <1>4, ReactAnswers, AcceptAnswers, AnswerOwnAnswers
     DEF Internal, Conclude, Answer
<1>5. ASSUME NEW r \in Requests, NEW class, RunEnds(r, class) PROVE AnswersInv'
  <2>1. Settling /\ UNCHANGED cycles /\ WaitersStay
    BY <1>5, RunEndsInvariant, ReplyWaiters DEF RunEnds
  <2>2. QED
    BY <2>1, CacheUnchanged
<1>6. ASSUME NEW r \in Requests, NEW op \in Ops, Arrive(r, op) PROVE AnswersInv'
  <2>1. WaitersStay
    <3> DEFINE a == [req EXCEPT ![r].op = op]
    <3> DEFINE b == [a EXCEPT ![r].pc = "queued"]
    <3>1. a \in ReqsWith(S) /\ \A q \in Requests : q # r => a[q] = req[q]
      BY DEF ReqsWith
    <3>2. req' = b
      BY <1>6 DEF Arrive
    <3> HIDE DEF a
    <3>3. b[r].pc = "queued" /\ \A q \in Requests : q # r => b[q] = req[q]
      BY <3>1 DEF ReqsWith
    <3> HIDE DEF b
    <3>4. QED
      BY <3>2, <3>3 DEF WaitersStay
  <2>2. Settling /\ UNCHANGED cycles
    BY <1>6, ArriveInvariant DEF Arrive
  <2>3. QED
    BY <2>1, <2>2, CacheUnchanged
<1>7. ASSUME NEW r \in Requests, RequestAbort(r) PROVE AnswersInv'
  <2>1. req' = [req EXCEPT ![r].aborted = TRUE]
    BY <1>7 DEF RequestAbort
  <2>2. WaitersStay
    BY <2>1 DEF ReqsWith, WaitersStay
  <2>3. Settling /\ UNCHANGED cycles
    BY <1>7, RequestAbortInvariant DEF RequestAbort
  <2>4. QED
    BY <2>2, <2>3, CacheUnchanged
<1>8. ASSUME UNCHANGED <<cycles, req>>, Settling PROVE AnswersInv'
  <2>1. WaitersStay
    BY <1>8 DEF WaitersStay
  <2>2. QED
    BY <1>8, <2>1, CacheUnchanged
<1>9. ASSUME NEW r \in Requests, DeliveryEnds(r) \/ TurnTimer(r) PROVE AnswersInv'
  <2>1. UNCHANGED <<cycles, req>> /\ Settling
    BY <1>9, DeliveryEndsInvariant, TurnTimerInvariant DEF DeliveryEnds, EndDelivery, TurnTimer
  <2>2. QED
    BY <2>1, <1>8
<1>10. ASSUME NEW text \in Texts, PtyData(text) PROVE AnswersInv'
  BY <1>8, <1>10, PtyDataInvariant DEF PtyData
<1>11. ASSUME NEW timedOut \in BOOLEAN, ReadinessCheck(timedOut) PROVE AnswersInv'
  BY <1>8, <1>11, ReadinessCheckInvariant DEF ReadinessCheck
<1>12. CASE PtyExit \/ PtyError \/ Launch \/ Register
  <2>1. UNCHANGED <<cycles, req>> /\ Settling
    BY <1>12, PtyExitInvariant, PtyErrorInvariant, LaunchInvariant, RegisterInvariant
       DEF PtyExit, PtyError, Launch, Register
  <2>2. QED
    BY <2>1, <1>8
<1>13. CASE Stop
  <2>1. Settling /\ UNCHANGED req /\ WaitersStay
    BY <1>13, StopInvariant DEF Stop, WaitersStay
  <2>2. SameAnswers
    BY <1>13, CancelAnswers DEF Stop
  <2>3. QED
    BY <2>1, <2>2, AnswererStays, CacheStays DEF AnswersInv
<1>14. CASE UNCHANGED vars
  BY <1>14 DEF vars, AnswersInv, AnswererAlone, Live, Unreacted, NoOldAnswerWhileRunning, Cached
<1>15. QED
  BY <1>4, <1>5, <1>6, <1>7, <1>9, <1>10, <1>11, <1>12, <1>13, <1>14, ExpireAnswers
     DEF Next, Timers

\* While a turn or a waiter is open, nothing that is cached can be taken for its
\* answer: a wait that comes meanwhile joins it or waits its turn.
THEOREM OldAnswersAreNotGiven == Spec => []NoOldAnswerWhileRunning
<1>1. Spec => []AnswersInv
  BY InitAnswers, StepAnswers, Invariant, AgentInvariant, PTL DEF Spec
<1>2. AnswersInv => NoOldAnswerWhileRunning
  BY DEF AnswersInv
<1>3. QED
  BY <1>1, <1>2, PTL

------------------------------------------------------------------------------
\* Every outcome has a key of its own: a task that was armed has a generation of
\* its own, and a wait that armed a waiter shares one with nothing that is due.
Task(q) == Delegated(q) /\ turn[q].promise # "none"

KeyOf(q) == IF req[q].op = "run" THEN <<"run", q>> ELSE <<"cycle", req[q].generation>>

HandlersFit ==
  \A q \in Requests :
    /\ req[q].pc = "headless" => req[q].op = "run"
    /\ req[q].pc # "done" => req[q].reply = None

TurnsFit ==
  \A q \in Requests :
    /\ turn[q].promise # "none" => req[q].op # "run"
    /\ req[q].generation <= Generation

OwnGenerations ==
  \A q, s \in Requests :
    Task(q) /\ Task(s) /\ req[q].generation = req[s].generation => q = s

\* An outcome is that of the turn of its request.
Logged(o) ==
  /\ o.outcome.of \in Requests /\ req[o.outcome.of].pc \notin {"idle", "queued"}
  /\ o.key = KeyOf(o.outcome.of)
  /\ o.outcome.class \in Settled \ {"cancelled"}
  /\ Delegated(o.outcome.of) => turn[o.outcome.of].promise = o.outcome.class

Distinct(log) ==
  /\ \E S : log \in Seq(S)
  /\ \A i, j \in DOMAIN log : log[i].key = log[j].key => i = j

Log == Distinct(outcomes) /\ \A i \in DOMAIN outcomes : Logged(outcomes[i])

\* The outcome of a sent task is recorded by the callbacks of its turn, that of an
\* ask by its handler; until then nothing has its key.
Due(q) ==
  /\ Task(q)
  /\ IF req[q].op = "send" THEN Live(q) ELSE req[q].pc \in {"delivering", "waiting"}

DueIsNotRecorded ==
  \A q \in Requests : Due(q) =>
    \A i \in DOMAIN outcomes : outcomes[i].key # <<"cycle", req[q].generation>>

Over(q) ==
  IF req[q].op = "ask" THEN req[q].reply \in Settled
  ELSE turn[q].promise \in Settled /\ turn[q].reacted

OverIsRecorded ==
  \A q \in Requests : Delegated(q) /\ Over(q) /\ turn[q].promise # "cancelled" =>
    \E i \in DOMAIN outcomes : outcomes[i].outcome.of = q

LogInv ==
  /\ HandlersFit /\ TurnsFit /\ OwnGenerations
  /\ Log /\ DueIsNotRecorded /\ OverIsRecorded

\* An ask does not begin to wait, and is not answered with an outcome.
GoesOn(q) ==
  req'[q].op = "ask" =>
    /\ req'[q].pc \in {"delivering", "waiting"} =>
         req[q].op = "ask" /\ req[q].pc \in {"delivering", "waiting"}
    /\ req'[q].reply \in Settled => req[q].op = "ask" /\ req[q].reply \in Settled

Records == HandlersFit' /\ \A q \in Requests : GoesOn(q)

GenerationGrows == Generation' \in Nat /\ Generation' >= Generation

\* Requests have natural generations.
LEMMA GenerationLemma ==
  ASSUME IInv
  PROVE  Generation \in Nat /\ \A q \in Requests : req[q].generation \in Nat
BY PayloadLemma DEF IInv, Shape, ReqShape, ReqsWith

\* While turns only settle, tasks stay tasks, with their generation.
LEMMA TasksStay ==
  ASSUME IInv, Settling
  PROVE  \A q \in Requests :
           /\ turn'[q].promise # "none" => turn[q].promise # "none" /\ req'[q].op = req[q].op
           /\ Task(q)' => Task(q)
           /\ req'[q].generation = req[q].generation
<1> SUFFICES ASSUME NEW q \in Requests
             PROVE  /\ turn'[q].promise # "none" => turn[q].promise # "none" /\ req'[q].op = req[q].op
                    /\ Task(q)' => Task(q)
                    /\ req'[q].generation = req[q].generation
  OBVIOUS
<1>1. req'[q].generation = req[q].generation
  BY DEF Settling, HandlersGoOn
<1>2. ASSUME turn'[q].promise # "none" PROVE turn[q].promise # "none" /\ req'[q].op = req[q].op
  <2>1. turn[q].promise # "none"
    BY <1>2 DEF Settling, OnlySettles, SettlesTo
  <2>2. req[q].pc # "idle"
    BY <2>1 DEF IInv, Fresh
  <2>3. QED
    BY <2>1, <2>2 DEF Settling, HandlersGoOn
<1>3. QED
  BY <1>1, <1>2 DEF Task, Delegated

\* What is logged stays true of its request.
LEMMA LoggedStays ==
  ASSUME IInv, Settling, NEW o, Logged(o)
  PROVE  Logged(o)'
<1> DEFINE q == o.outcome.of
<1>1. q \in Requests /\ req[q].pc \notin {"idle", "queued"}
  BY DEF Logged
<1>2. req'[q].pc \notin {"idle", "queued"} /\ req'[q].op = req[q].op
      /\ req'[q].generation = req[q].generation
  BY <1>1 DEF Settling, HandlersGoOn
<1>3. turn[q].promise \in Settled => turn'[q].promise = turn[q].promise
  BY <1>1 DEF Settling, OnlySettles, SettlesTo, Settled, Failures
<1>4. QED
  BY <1>1, <1>2, <1>3 DEF Logged, KeyOf, Delegated

\* The generations of tasks stay their own.
LEMMA FitStays ==
  ASSUME IInv, LogInv, Settling, GenerationGrows
  PROVE  TurnsFit' /\ OwnGenerations'
<1>1. ASSUME NEW q \in Requests, turn'[q].promise # "none" PROVE req'[q].op # "run"
  BY <1>1, TasksStay DEF LogInv, TurnsFit
<1>2. ASSUME NEW q \in Requests PROVE req'[q].generation <= Generation'
  <2>1. /\ req'[q].generation = req[q].generation /\ req[q].generation <= Generation
        /\ req[q].generation \in Nat /\ Generation \in Nat
    BY TasksStay, GenerationLemma DEF LogInv, TurnsFit
  <2>2. QED
    BY <2>1 DEF GenerationGrows
<1>3. OwnGenerations'
  BY TasksStay DEF LogInv, OwnGenerations
<1>4. QED
  BY <1>1, <1>2, <1>3 DEF TurnsFit

\* What is due was due ...
LEMMA DueStays ==
  ASSUME IInv, Settling, NEW q \in Requests, GoesOn(q), Due(q)'
  PROVE  Due(q)
<1>1. Task(q) /\ req'[q].op = req[q].op
  BY TasksStay DEF Due, Task
<1>2. Live(q)' <=> Live(q)
  BY SettlingKeepsLive
<1>3. CASE req[q].op = "send"
  BY <1>1, <1>2, <1>3 DEF Due
<1>4. CASE req[q].op = "ask"
  BY <1>1, <1>4 DEF Due, GoesOn
<1>5. QED
  BY <1>1, <1>3, <1>4 DEF Task, Delegated

\* ... and what is over was over.
LEMMA OverStays ==
  ASSUME IInv, Settling, NEW q \in Requests, GoesOn(q),
         Delegated(q)', Over(q)', turn'[q].promise # "cancelled"
  PROVE  Delegated(q) /\ Over(q) /\ turn[q].promise # "cancelled"
<1>1. CASE req'[q].op = "ask"
  <2>1. req[q].op = "ask" /\ req[q].reply \in Settled
    BY <1>1 DEF Over, GoesOn
  <2>2. turn[q].promise # "cancelled"
    BY DEF Settling, OnlySettles, SettlesTo, Settled, Failures
  <2>3. QED
    BY <2>1, <2>2 DEF Delegated, Over
<1>2. CASE req'[q].op = "send"
  <2>1. turn'[q].promise \in Settled /\ turn'[q].reacted
    BY <1>2 DEF Over
  <2>2. turn[q].reacted
    BY <2>1 DEF Settling, OnlySettles, SettlesTo
  <2>3. turn[q].promise \notin {"none", "open"} /\ turn'[q].promise = turn[q].promise
    BY <2>2 DEF IInv, Fresh, Settling, OnlySettles, SettlesTo
  <2>4. req[q].op = "send"
    BY <1>2, <2>3, TasksStay
  <2>5. QED
    BY <2>1, <2>2, <2>3, <2>4 DEF Delegated, Over
<1>3. QED
  BY <1>1, <1>2 DEF Delegated

\* A step that arms nothing and records nothing.
LEMMA LogStays ==
  ASSUME IInv, LogInv, Settling, Records, GenerationGrows, UNCHANGED outcomes
  PROVE  LogInv'
<1>1. TurnsFit' /\ OwnGenerations'
  BY FitStays
<1>2. Log'
  BY LoggedStays DEF LogInv, Log
<1>3. DueIsNotRecorded'
  BY DueStays, TasksStay DEF LogInv, DueIsNotRecorded, Records
<1>4. OverIsRecorded'
  BY OverStays DEF LogInv, OverIsRecorded, Records
<1>5. QED
  BY <1>1, <1>2, <1>3, <1>4 DEF LogInv, Records

\* emitOutcomeOnce(): the log grows by the outcome if that is no cancellation and
\* its key is new.
LEMMA EmitLemma ==
  ASSUME NEW key, NEW o, Distinct(outcomes), Emit(key, o)
  PROVE  LET e == [key |-> key, outcome |-> o]
         IN /\ Distinct(outcomes')
            /\ \A i \in DOMAIN outcomes' :
                 \/ i \in DOMAIN outcomes /\ outcomes'[i] = outcomes[i]
                 \/ outcomes'[i] = e /\ o.class # "cancelled"
            /\ \A i \in DOMAIN outcomes : i \in DOMAIN outcomes' /\ outcomes'[i] = outcomes[i]
            /\ \/ o.class = "cancelled"
               \/ \E i \in DOMAIN outcomes : outcomes[i].key = key
               \/ \E i \in DOMAIN outcomes' : outcomes'[i] = e
<1> DEFINE e == [key |-> key, outcome |-> o]
<1> DEFINE n == Len(outcomes)
<1>1. PICK S : outcomes \in Seq(S)
  BY DEF Distinct
<1>2. n \in Nat /\ DOMAIN outcomes = 1 .. n
  BY <1>1, LenProperties
<1>3. CASE o.class = "cancelled" \/ \E i \in DOMAIN outcomes : outcomes[i].key = key
  <2>1. outcomes' = outcomes
    BY <1>3 DEF Emit, Range
  <2>2. QED
    BY <1>3, <2>1
<1>4. CASE o.class # "cancelled" /\ \A i \in DOMAIN outcomes : outcomes[i].key # key
  <2>1. outcomes' = Append(outcomes, e)
    BY <1>4 DEF Emit, Range
  <2>2. e.key = key
    OBVIOUS
  <2> HIDE DEF e
  <2>3. outcomes \in Seq(S \cup {e})
    BY <1>1
  <2>4. /\ outcomes' \in Seq(S \cup {e}) /\ DOMAIN outcomes' = 1 .. n + 1
        /\ outcomes'[n + 1] = e /\ \A i \in 1 .. n : outcomes'[i] = outcomes[i]
    BY <1>2, <2>1, <2>3, AppendProperties
  <2> HIDE DEF n
  <2>5. \A i \in 1 .. n + 1 : i \in 1 .. n \/ i = n + 1
    BY <1>2
  <2>6. \A i, j \in DOMAIN outcomes' : outcomes'[i].key = outcomes'[j].key => i = j
    BY <1>2, <1>4, <2>2, <2>4, <2>5 DEF Distinct
  <2>7. QED
    BY <1>2, <1>4, <2>4, <2>5, <2>6 DEF Distinct, e
<1>5. QED
  BY <1>3, <1>4

\* The log stays one when the outcome that is emitted is its request's.
LEMMA EmitLog ==
  ASSUME Log, NEW key, NEW o, Emit(key, o),
         \A x : Logged(x) => Logged(x)',
         o.class # "cancelled" => Logged([key |-> key, outcome |-> o])'
  PROVE  Log'
<1> DEFINE e == [key |-> key, outcome |-> o]
<1>1. /\ Distinct(outcomes')
      /\ \A i \in DOMAIN outcomes' :
           \/ i \in DOMAIN outcomes /\ outcomes'[i] = outcomes[i]
           \/ outcomes'[i] = e /\ o.class # "cancelled"
  BY EmitLemma DEF Log
<1>2. o.class # "cancelled" => Logged(e)'
  OBVIOUS
<1> HIDE DEF e
<1>3. ASSUME NEW i \in DOMAIN outcomes' PROVE Logged(outcomes[i])'
  <2>1. CASE i \in DOMAIN outcomes /\ outcomes'[i] = outcomes[i]
    BY <2>1 DEF Log
  <2>2. CASE outcomes'[i] = e /\ o.class # "cancelled"
    BY <1>2, <2>2
  <2>3. QED
    BY <1>1, <2>1, <2>2
<1>4. QED
  BY <1>1, <1>3 DEF Log

\* What a turn that is armed means for the log.
LEMMA ArmedLog ==
  ASSUME IInv, LogInv, NEW r \in Requests, Armed(r), CanBegin(r), UNCHANGED outcomes,
         \A q \in Requests : Live(q)' <=> q = r,
         GenerationGrows, Delegated(r) => Generation' = Generation + 1,
         req[r].op # "run", req'[r].generation = Generation', req'[r].reply = req[r].reply
  PROVE  LogInv'
<1>1. /\ req[r].pc = "queued" /\ req[r].reply = None /\ None \notin Settled
      /\ Generation \in Nat /\ \A q \in Requests : req[q].generation \in Nat
      /\ \A q \in Requests : req[q].generation <= Generation
  BY GenerationLemma, NoneIsNoReply DEF CanBegin, LogInv, HandlersFit, TurnsFit
<1>2. HandlersFit'
  BY <1>1 DEF LogInv, HandlersFit, Armed
<1>3. TurnsFit'
  <2>1. \A q \in Requests : turn'[q].promise # "none" => req'[q].op # "run"
    BY DEF LogInv, TurnsFit, Armed
  <2>2. \A q \in Requests : req'[q].generation <= Generation'
    BY <1>1 DEF Armed, GenerationGrows
  <2>3. QED
    BY <2>1, <2>2 DEF TurnsFit
<1>4. \A q \in Requests : q # r => (Task(q)' <=> Task(q))
  BY DEF Armed, Task, Delegated
<1>5. Task(r)' => Generation' = Generation + 1
  BY DEF Armed, Task, Delegated
<1>6. OwnGenerations'
  <2> SUFFICES ASSUME NEW q \in Requests, NEW s \in Requests, Task(q)', Task(s)',
                      req'[q].generation = req'[s].generation
               PROVE  q = s
    BY DEF OwnGenerations
  <2>1. CASE q # r /\ s # r
    BY <1>4, <2>1 DEF Armed, LogInv, OwnGenerations
  <2>2. CASE q = r /\ s # r
    BY <1>1, <1>5, <2>2 DEF Armed
  <2>3. CASE q # r /\ s = r
    BY <1>1, <1>5, <2>3 DEF Armed
  <2>4. QED
    BY <2>1, <2>2, <2>3
<1>7. \A x : Logged(x) => Logged(x)'
  BY <1>1 DEF Logged, Armed, KeyOf, Delegated
<1>8. Log'
  BY <1>7 DEF LogInv, Log
<1>9. DueIsNotRecorded'
  <2> SUFFICES ASSUME NEW q \in Requests, Due(q)', NEW i \in DOMAIN outcomes
               PROVE  outcomes[i].key # <<"cycle", req'[q].generation>>
    BY DEF DueIsNotRecorded
  <2>1. CASE q = r
    <3>1. Generation' = Generation + 1
      BY <1>5, <2>1 DEF Due
    <3>2. PICK s \in Requests : outcomes[i].key = KeyOf(s)
      BY DEF LogInv, Log, Logged
    <3>3. req[s].generation # Generation'
      BY <1>1, <3>1
    <3>4. QED
      BY <2>1, <3>2, <3>3 DEF KeyOf
  <2>2. CASE q # r
    <3>1. Due(q)
      BY <1>4, <2>2 DEF Due, Armed
    <3>2. QED
      BY <2>2, <3>1 DEF LogInv, DueIsNotRecorded, Armed
  <2>3. QED
    BY <2>1, <2>2
<1>10. OverIsRecorded'
  <2>1. ~Over(r)'
    BY <1>1 DEF Over, Armed, Settled, Failures
  <2>2. \A q \in Requests : q # r => (Over(q)' <=> Over(q)) /\ (Delegated(q)' <=> Delegated(q))
    BY DEF Over, Armed, Delegated
  <2>3. QED
    BY <2>1, <2>2 DEF OverIsRecorded, LogInv, Armed
<1>11. QED
  BY <1>2, <1>3, <1>6, <1>8, <1>9, <1>10 DEF LogInv

\* begin() counts.
LEMMA BeginCounts ==
  ASSUME NEW c, IsCycles(c)
  PROVE  C!Generation(C!Begin(c, Target), Target) = C!Generation(c, Target) + 1
<1> DEFINE begun == [c EXCEPT !.generations[Target] = @ + 1]
<1>1. IsCycles(begun) /\ begun.generations[Target] = c.generations[Target] + 1
  <2> PICK T : c \in Objects(T)
    BY DEF IsCycles
  <2>1. begun \in Objects(T) /\ begun.generations[Target] = c.generations[Target] + 1
    BY DEF Objects
  <2>2. QED
    BY <2>1 DEF IsCycles
<1>2. C!Begin(c, Target) = [begun EXCEPT !.cache = C!Without(c.cache, Target)]
  BY DEF C!Begin
<1> HIDE DEF begun
<1>3. QED
  BY <1>1, <1>2, CacheFields DEF C!Generation

\* A turn gets a generation of its own.
LEMMA StartTurnLog ==
  ASSUME IInv, LogInv, NEW r \in Requests, StartTurn(r)
  PROVE  LogInv'
<1> DEFINE begun == C!Begin(cycles, Target)
<1> DEFINE g == C!Generation(begun, Target)
<1>1. /\ Armed(r) /\ req[r].op \in {"send", "ask"} /\ \A q \in Requests : Live(q)' <=> q = r
  BY StartTurnInvariant
<1>2. /\ CanBegin(r) /\ UNCHANGED outcomes
      /\ cycles' = C!SetPending(begun, Target, g, r, TRUE) \/ cycles' = begun
      /\ req' = [req EXCEPT ![r].pc = "delivering", ![r].generation = g]
  BY DEF StartTurn, Begins, Arm, logs
<1>3. IsCycles(begun) /\ g = Generation + 1 /\ Generation \in Nat
  BY BeginLemma, BeginCounts, GenerationLemma DEF IInv, Shape, Generation
<1> HIDE DEF begun
<1>4. Generation' = g
  BY <1>2, <1>3, PendingFields DEF C!SetPending, C!Generation, Generation
<1> HIDE DEF g
<1>5. req'[r].generation = g /\ req'[r].reply = req[r].reply
  <2> PICK S : req \in ReqsWith(S)
    BY DEF IInv, Shape, ReqShape
  <2> DEFINE a == [req EXCEPT ![r].pc = "delivering"]
  <2> DEFINE b == [a EXCEPT ![r].generation = g]
  <2>1. a \in ReqsWith(S) /\ a[r].reply = req[r].reply
    BY DEF ReqsWith, Stages
  <2>2. req' = b
    BY <1>2
  <2> HIDE DEF a
  <2>3. b[r].generation = g /\ b[r].reply = a[r].reply
    BY <2>1 DEF ReqsWith
  <2>4. QED
    BY <2>1, <2>2, <2>3
<1>6. GenerationGrows /\ Generation' = Generation + 1
  BY <1>3, <1>4 DEF GenerationGrows
<1>7. QED
  BY <1>1, <1>2, <1>4, <1>5, <1>6, ArmedLog

\* A waiter shares the current generation.
LEMMA ArmWaiterLog ==
  ASSUME IInv, LogInv, NEW r \in Requests, ArmWaiter(r)
  PROVE  LogInv'
<1> DEFINE looked == C!Looked(cycles, Target, 0)
<1> DEFINE g == Generation
<1>1. /\ Armed(r) /\ req[r].op = "wait" /\ \A q \in Requests : Live(q)' <=> q = r
  BY ArmWaiterInvariant
<1>2. /\ CanBegin(r) /\ UNCHANGED outcomes
      /\ cycles' = C!SetPending(looked, Target, Generation, r, FALSE)
      /\ req' = [req EXCEPT ![r].pc = "waiting", ![r].awaits = r, ![r].generation = g]
  BY DEF ArmWaiter, Begins, logs
<1>3. /\ IsCycles(looked) /\ looked.generations = cycles.generations /\ g \in Nat
  BY LookedLemma, GenerationLemma DEF IInv, Shape, SamePending
<1> HIDE DEF looked
<1>4. Generation' = g
  BY <1>2, <1>3, PendingFields DEF C!SetPending, C!Generation, Generation
<1>5. GenerationGrows
  BY <1>3, <1>4 DEF GenerationGrows
<1> HIDE DEF g
<1>6. req'[r].generation = g /\ req'[r].reply = req[r].reply
  <2> PICK S : req \in ReqsWith(S)
    BY DEF IInv, Shape, ReqShape
  <2> DEFINE a == [req EXCEPT ![r].pc = "waiting"]
  <2> DEFINE b == [a EXCEPT ![r].awaits = r]
  <2> DEFINE c == [b EXCEPT ![r].generation = g]
  <2>1. a \in ReqsWith(S) /\ a[r].reply = req[r].reply
    BY DEF ReqsWith, Stages
  <2>2. req' = c
    BY <1>2
  <2> HIDE DEF a
  <2>3. b \in ReqsWith(S) /\ b[r].reply = a[r].reply
    BY <2>1 DEF ReqsWith
  <2> HIDE DEF b
  <2>4. c[r].generation = g /\ c[r].reply = b[r].reply
    BY <2>3 DEF ReqsWith
  <2>5. QED
    BY <2>1, <2>2, <2>3, <2>4
<1>7. QED
  BY <1>1, <1>2, <1>4, <1>5, <1>6, ArmedLog DEF Delegated

\* The callbacks of a turn: its outcome was due.
LEMMA ReactLog ==
  ASSUME IInv, AgentInv, AnswersInv, LogInv, NEW r \in Requests, React(r)
  PROVE  LogInv'
<1>1. /\ UNCHANGED req /\ Live(r) /\ turn[r].promise \in Settled
      /\ \A q \in Requests : ~Live(q)' /\ turn'[q].promise = turn[q].promise
      /\ \A q \in Requests : Live(q) => q = r
  BY ReactInvariant DEF React, Unreacted
<1>2. \A q \in Requests : q # r => turn'[q] = turn[q]
  <2> DEFINE a == [turn EXCEPT ![r].reacted = TRUE]
  <2> DEFINE stopped == a[r].stopped \/ (Delegated(r) /\ turn[r].promise \in Failures)
  <2> DEFINE b == [a EXCEPT ![r].stopped = stopped]
  <2>1. a \in Turns /\ \A q \in Requests : q # r => a[q] = turn[q]
    BY DEF IInv, Shape, TurnShape, Turns
  <2>2. turn' = b
    BY DEF React
  <2> HIDE DEF a
  <2> HIDE DEF stopped
  <2>3. \A q \in Requests : q # r => b[q] = a[q]
    BY <2>1 DEF Turns
  <2>4. QED
    BY <2>1, <2>2, <2>3
<1>3. Generation' = Generation
  <2>1. cycles'.generations = cycles.generations
    BY CancelPendingLemma, CompleteLemma DEF React, CycleOver, IInv, Shape
  <2>2. QED
    BY <2>1 DEF Generation, C!Generation
<1>4. HandlersFit' /\ TurnsFit' /\ OwnGenerations'
  BY <1>1, <1>3 DEF LogInv, HandlersFit, TurnsFit, OwnGenerations, Task, Delegated
<1>5. \A x : Logged(x) => Logged(x)'
  BY <1>1 DEF Logged, KeyOf, Delegated
<1>6. CASE req[r].op = "ask"
  <2>1. UNCHANGED outcomes
    BY <1>6 DEF React, logs
  <2>2. Log'
    BY <1>5, <2>1 DEF LogInv, Log
  <2>3. DueIsNotRecorded'
    BY <1>1, <2>1 DEF LogInv, DueIsNotRecorded, Due, Task, Delegated
  <2>4. OverIsRecorded'
    BY <1>1, <1>2, <1>6, <2>1 DEF LogInv, OverIsRecorded, Over, Delegated
  <2>5. QED
    BY <1>4, <2>2, <2>3, <2>4 DEF LogInv
<1>7. CASE req[r].op # "ask"
  <2> PICK key : key = <<"cycle", req[r].generation>>
    OBVIOUS
  <2> PICK o : o = Outcome(r)
    OBVIOUS
  <2> DEFINE e == [key |-> key, outcome |-> o]
  <2>0. turn[r].promise # "none" /\ req[r].pc \notin {"idle", "queued"} /\ KeyOf(r) = key
    BY <1>1 DEF Settled, Failures, IInv, Fresh, LogInv, TurnsFit, KeyOf
  <2>1. UNCHANGED outcomes \/ Emit(key, o)
    BY <1>7 DEF React, CycleOver, logs
  <2>2. turn[r].promise # "cancelled" => Emit(key, o)
    BY <1>7 DEF React, CycleOver
  <2>3. o.of = r /\ o.class = turn[r].promise
    BY DEF Outcome
  <2>4. turn[r].promise # "cancelled" => Logged(e)'
    BY <1>1, <2>0, <2>3 DEF Logged, KeyOf
  <2>5. Log'
    <3>1. CASE UNCHANGED outcomes
      BY <1>5, <3>1 DEF LogInv, Log
    <3>2. CASE Emit(key, o)
      BY <1>5, <2>3, <2>4, <3>2, EmitLog DEF LogInv
    <3>3. QED
      BY <2>1, <3>1, <3>2
  <2>6. DueIsNotRecorded'
    <3> SUFFICES ASSUME NEW q \in Requests, Due(q)' PROVE FALSE
      BY DEF DueIsNotRecorded
    <3>1. req[q].op = "ask" /\ req[q].pc \in {"delivering", "waiting"}
      BY <1>1 DEF Due, Task, Delegated
    <3>2. r = q
      BY <1>1, <3>1 DEF AgentInv, DeliveringAlone, AnswersInv, AnswererAlone, IInv,
                        AsksAwaitThemselves
    <3>3. QED
      BY <1>7, <3>1, <3>2
  <2>7. OverIsRecorded'
    <3> SUFFICES ASSUME NEW q \in Requests, Delegated(q), Over(q)', turn[q].promise # "cancelled"
                 PROVE  \E i \in DOMAIN outcomes' : outcomes'[i].outcome.of = q
      BY <1>1 DEF OverIsRecorded, Delegated
    <3>1. \A i \in DOMAIN outcomes : i \in DOMAIN outcomes' /\ outcomes'[i] = outcomes[i]
      BY <2>1, EmitLemma DEF LogInv, Log
    <3>2. CASE q # r
      <4>1. Over(q)
        BY <1>1, <1>2, <3>2 DEF Over
      <4>2. QED
        BY <3>1, <4>1 DEF LogInv, OverIsRecorded
    <3>3. CASE q = r
      <4>1. Due(r)
        BY <1>1, <1>7, <2>0, <3>3 DEF Due, Task, Delegated
      <4>2. \A i \in DOMAIN outcomes : outcomes[i].key # key
        BY <4>1 DEF LogInv, DueIsNotRecorded
      <4>3. \E i \in DOMAIN outcomes' : outcomes'[i] = e
        BY <2>2, <2>3, <3>3, <4>2, EmitLemma DEF LogInv, Log
      <4>4. QED
        BY <2>3, <3>3, <4>3
    <3>4. QED
      BY <3>2, <3>3
  <2>8. QED
    BY <1>4, <2>5, <2>6, <2>7 DEF LogInv
<1>8. QED
  BY <1>6, <1>7

\* A handler that ends does not go on.
LEMMA ReplyRecords ==
  ASSUME IInv, LogInv, NEW r \in Requests, NEW reply, Reply(r, reply)
  PROVE  /\ HandlersFit' /\ \A q \in Requests : q # r => GoesOn(q)
         /\ req[r].op # "ask" \/ reply \notin Settled => Records
<1>1. /\ req'[r].pc = "done" /\ req'[r].op = req[r].op /\ req'[r].reply = reply
      /\ \A q \in Requests : q # r => req'[q] = req[q]
  BY ReplyFields
<1>2. HandlersFit'
  BY <1>1 DEF LogInv, HandlersFit
<1>3. \A q \in Requests : q # r => GoesOn(q)
  BY <1>1 DEF GoesOn
<1>4. req[r].op # "ask" \/ reply \notin Settled => GoesOn(r)
  BY <1>1 DEF GoesOn
<1>5. QED
  BY <1>2, <1>3, <1>4 DEF Records

\* The handler of an ask records what it answers.
LEMMA AnswerOwnLog ==
  ASSUME IInv, LogInv, NEW r \in Requests, AnswerOwn(r)
  PROVE  LogInv'
<1> PICK key : key = <<"cycle", req[r].generation>>
  OBVIOUS
<1> PICK o : o = Outcome(r)
  OBVIOUS
<1> DEFINE e == [key |-> key, outcome |-> o]
<1>1. /\ Settling /\ req[r].pc = "waiting" /\ turn[r].promise \in Settled
      /\ Reply(r, turn[r].promise)
      /\ IF req[r].op = "ask" THEN Emit(key, o) ELSE UNCHANGED outcomes
  BY AnswerOwnInvariant DEF AnswerOwn, CanAnswer, Joined
<1>2. Generation' = Generation
  <2>1. cycles'.generations = cycles.generations
    BY CacheOutcomeLemma DEF AnswerOwn, IInv, Shape, SamePending
  <2>2. QED
    BY <2>1 DEF Generation, C!Generation
<1>3. GenerationGrows
  BY <1>2, GenerationLemma DEF GenerationGrows
<1>4. CASE req[r].op # "ask"
  BY <1>1, <1>3, <1>4, ReplyRecords, LogStays
<1>5. CASE req[r].op = "ask"
  <2>1. /\ HandlersFit' /\ \A q \in Requests : q # r => GoesOn(q)
        /\ req'[r].pc = "done" /\ req'[r].op = "ask"
    BY <1>1, <1>5, ReplyRecords, ReplyFields
  <2>2. /\ o.of = r /\ o.class = turn[r].promise
        /\ req'[r].generation = req[r].generation /\ turn'[r].promise = turn[r].promise
    BY <1>1, TasksStay DEF Outcome, Settling, OnlySettles, SettlesTo, Settled, Failures
  <2>3. Due(r) /\ Task(r)
    BY <1>1, <1>5 DEF Due, Task, Delegated, Settled, Failures
  <2>4. turn[r].promise # "cancelled" => Logged(e)'
    BY <1>1, <2>1, <2>2 DEF Logged, KeyOf
  <2>5. Emit(key, o) /\ \A i \in DOMAIN outcomes : outcomes[i].key # key
    BY <1>1, <1>5, <2>3 DEF LogInv, DueIsNotRecorded
  <2>6. \A q \in Requests : q # r /\ Task(q) => <<"cycle", req[q].generation>> # key
    BY <2>3 DEF LogInv, OwnGenerations
  <2>7. /\ \A i \in DOMAIN outcomes' :
             \/ i \in DOMAIN outcomes /\ outcomes'[i] = outcomes[i]
             \/ outcomes'[i] = e
        /\ \A i \in DOMAIN outcomes : i \in DOMAIN outcomes' /\ outcomes'[i] = outcomes[i]
        /\ turn[r].promise # "cancelled" => \E i \in DOMAIN outcomes' : outcomes'[i] = e
    BY <2>2, <2>5, EmitLemma DEF LogInv, Log
  <2>8. Log'
    BY <1>1, <2>2, <2>4, <2>5, LoggedStays, EmitLog DEF LogInv
  <2>9. DueIsNotRecorded'
    <3> SUFFICES ASSUME NEW q \in Requests, Due(q)', NEW i \in DOMAIN outcomes'
                 PROVE  outcomes'[i].key # <<"cycle", req'[q].generation>>
      BY DEF DueIsNotRecorded
    <3>1. q # r
      BY <2>1 DEF Due
    <3>2. Due(q) /\ Task(q) /\ req'[q].generation = req[q].generation
      BY <1>1, <2>1, <3>1, DueStays, TasksStay DEF Due
    <3>3. CASE i \in DOMAIN outcomes /\ outcomes'[i] = outcomes[i]
      BY <3>2, <3>3 DEF LogInv, DueIsNotRecorded
    <3>4. CASE outcomes'[i] = e
      BY <2>6, <3>1, <3>2, <3>4
    <3>5. QED
      BY <2>7, <3>3, <3>4
  <2>10. OverIsRecorded'
    <3> SUFFICES ASSUME NEW q \in Requests, Delegated(q)', Over(q)', turn'[q].promise # "cancelled"
                 PROVE  \E i \in DOMAIN outcomes' : outcomes'[i].outcome.of = q
      BY DEF OverIsRecorded
    <3>1. CASE q # r
      <4>1. Delegated(q) /\ Over(q) /\ turn[q].promise # "cancelled"
        BY <1>1, <2>1, <3>1, OverStays
      <4>2. QED
        BY <2>7, <4>1 DEF LogInv, OverIsRecorded
    <3>2. CASE q = r
      BY <2>2, <2>7, <3>2
    <3>3. QED
      BY <3>1, <3>2
  <2>11. QED
    BY <1>1, <1>3, <2>1, <2>8, <2>9, <2>10, FitStays DEF LogInv
<1>6. QED
  BY <1>4, <1>5

\* A headless run has a key of its own.
LEMMA RunEndsLog ==
  ASSUME IInv, LogInv, NEW r \in Requests, NEW class \in {"answered", "failed", "error"},
         RunEnds(r, class)
  PROVE  LogInv'
<1> DEFINE key == <<"run", r>>
<1> DEFINE o == [class |-> class, of |-> r]
<1> DEFINE e == [key |-> key, outcome |-> o]
<1>1. /\ Settling /\ req[r].pc = "headless" /\ Reply(r, class) /\ UNCHANGED cycles
      /\ IF class = "error" THEN UNCHANGED outcomes ELSE Emit(key, o)
  BY RunEndsInvariant DEF RunEnds
<1>2. GenerationGrows
  BY <1>1, GenerationLemma DEF GenerationGrows, Generation
<1>3. req[r].op = "run"
  BY <1>1 DEF LogInv, HandlersFit
<1>4. Records
  BY <1>1, <1>3, ReplyRecords
<1>5. CASE class = "error"
  BY <1>1, <1>2, <1>4, <1>5, LogStays
<1>6. CASE class # "error"
  <2>1. req'[r].pc = "done" /\ req'[r].op = "run"
    BY <1>1, <1>3, ReplyFields
  <2>2. Logged(e)'
    BY <1>6, <2>1 DEF Logged, KeyOf, Delegated, Settled, Failures
  <2>3. \A g : key # <<"cycle", g>>
    OBVIOUS
  <2> HIDE DEF key, o
  <2>4. /\ \A i \in DOMAIN outcomes' :
             \/ i \in DOMAIN outcomes /\ outcomes'[i] = outcomes[i]
             \/ outcomes'[i] = e
        /\ \A i \in DOMAIN outcomes : i \in DOMAIN outcomes' /\ outcomes'[i] = outcomes[i]
    BY <1>1, <1>6, EmitLemma DEF LogInv, Log
  <2>5. Log'
    BY <1>1, <1>6, <2>2, LoggedStays, EmitLog DEF LogInv
  <2>6. DueIsNotRecorded'
    <3> SUFFICES ASSUME NEW q \in Requests, Due(q)', NEW i \in DOMAIN outcomes'
                 PROVE  outcomes'[i].key # <<"cycle", req'[q].generation>>
      BY DEF DueIsNotRecorded
    <3>1. Due(q) /\ req'[q].generation = req[q].generation
      BY <1>1, <1>4, DueStays, TasksStay DEF Records
    <3>2. CASE i \in DOMAIN outcomes /\ outcomes'[i] = outcomes[i]
      BY <3>1, <3>2 DEF LogInv, DueIsNotRecorded
    <3>3. CASE outcomes'[i] = e
      BY <2>3, <3>3
    <3>4. QED
      BY <2>4, <3>2, <3>3
  <2>7. OverIsRecorded'
    BY <1>1, <1>4, <2>4, OverStays DEF LogInv, OverIsRecorded, Records
  <2>8. QED
    BY <1>1, <1>2, <1>4, <2>5, <2>6, <2>7, FitStays DEF LogInv, Records
<1>7. QED
  BY <1>5, <1>6

\* A step that changes no cycle, arms nothing and records nothing.
LEMMA NothingLogged ==
  ASSUME IInv, LogInv, Settling, Records, UNCHANGED outcomes, cycles'.generations = cycles.generations
  PROVE  LogInv'
<1>1. Generation' = Generation
  BY DEF Generation, C!Generation
<1>2. QED
  BY <1>1, GenerationLemma, LogStays DEF GenerationGrows

\* A step that leaves the requests alone.
LEMMA SameRequests ==
  ASSUME LogInv, UNCHANGED req
  PROVE  Records
BY DEF LogInv, HandlersFit, Records, GoesOn

\* The log is empty in the beginning ...
LEMMA InitLog == Init => LogInv
<1> SUFFICES ASSUME Init PROVE LogInv
  OBVIOUS
<1>1. /\ outcomes = <<>> /\ outcomes \in Seq({}) /\ DOMAIN outcomes = {}
      /\ \A q \in Requests : /\ turn[q].promise = "none" /\ ~turn[q].reacted
                              /\ req[q].pc = "idle" /\ req[q].reply = None
                              /\ req[q].generation = 0
      /\ Generation = 0
  BY DEF Init, Generation, C!Generation, C!NewCycles
<1>2. HandlersFit /\ TurnsFit /\ OwnGenerations
  BY <1>1 DEF HandlersFit, TurnsFit, OwnGenerations, Task
<1>3. Log
  <2>1. \E S : outcomes \in Seq(S)
    BY <1>1
  <2>2. QED
    BY <1>1, <2>1 DEF Log, Distinct
<1>4. DueIsNotRecorded
  BY <1>1 DEF DueIsNotRecorded, Due, Task
<1>5. OverIsRecorded
  BY <1>1, NoneIsNoReply DEF OverIsRecorded, Over
<1>6. QED
  BY <1>2, <1>3, <1>4, <1>5 DEF LogInv

\* ... and no step breaks the invariant.
LEMMA StepLog == IInv /\ AgentInv /\ AnswersInv /\ LogInv /\ [Next]_vars => LogInv'
<1> SUFFICES ASSUME IInv, AgentInv, AnswersInv, LogInv, [Next]_vars PROVE LogInv'
  OBVIOUS
<1> PICK S : req \in ReqsWith(S)
  BY DEF IInv, Shape, ReqShape
<1>1. "error" \notin Settled /\ "accepted" \notin Settled /\ None \notin Settled
  BY NoneIsNoReply DEF Settled, Failures
<1>2. ASSUME NEW r \in Requests, Begin(r) PROVE LogInv'
  <2>1. ASSUME Skip(r) \/ RefuseBusy(r) \/ AnswerFromCache(r) PROVE LogInv'
    <3>1. Settling /\ UNCHANGED <<cycles, outcomes>>
      BY <2>1, SkipInvariant, RefuseBusyInvariant, AnswerFromCacheInvariant
         DEF Skip, RefuseBusy, AnswerFromCache, logs
    <3>2. \E reply : Reply(r, reply) /\ (req[r].op # "ask" \/ reply \notin Settled)
      BY <1>1, <2>1 DEF Skip, RefuseBusy, AnswerFromCache, Begins
    <3>3. QED
      BY <3>1, <3>2, ReplyRecords, NothingLogged
  <2>2. CASE RefuseUnready(r)
    <3>1. /\ Settling /\ Records /\ UNCHANGED outcomes /\ cycles' = C!Begin(cycles, Target)
      BY <1>1, <2>2, RefuseUnreadyInvariant, ReplyRecords DEF RefuseUnready, logs
    <3>2. Generation' = Generation + 1
      BY <3>1, BeginCounts DEF IInv, Shape, Generation
    <3>3. GenerationGrows
      BY <3>2, GenerationLemma DEF GenerationGrows
    <3>4. QED
      BY <3>1, <3>3, LogStays
  <2>3. CASE StartRun(r)
    <3>1. Settling /\ UNCHANGED <<cycles, outcomes>> /\ req[r].op = "run" /\ req[r].pc = "queued"
      BY <2>3, StartRunInvariant DEF StartRun, Begins, CanBegin, logs
    <3>2. CASE Reply(r, "error")
      BY <1>1, <3>1, <3>2, ReplyRecords, NothingLogged
    <3>3. CASE req' = [req EXCEPT ![r].pc = "headless"]
      <4>1. /\ req'[r].op = "run" /\ req'[r].reply = req[r].reply
            /\ \A q \in Requests : q # r => req'[q] = req[q]
        BY <3>1, <3>3 DEF ReqsWith
      <4>2. Records
        BY <3>1, <4>1 DEF LogInv, HandlersFit, Records, GoesOn
      <4>3. QED
        BY <3>1, <4>2, NothingLogged
    <3>4. QED
      BY <2>3, <3>2, <3>3 DEF StartRun
  <2>4. CASE Join(r)
    <3> PICK payload : payload = PendingPayload
      OBVIOUS
    <3>1. /\ Settling /\ UNCHANGED outcomes /\ req[r].op = "wait" /\ req[r].pc = "queued"
          /\ cycles'.generations = cycles.generations
          /\ req' = [req EXCEPT ![r].pc = "waiting", ![r].awaits = payload]
      BY <2>4, JoinInvariant, LookedLemma
         DEF Join, Begins, CanBegin, logs, IInv, Shape, SamePending
    <3>2. /\ req'[r].op = "wait" /\ req'[r].pc = "waiting" /\ req'[r].reply = req[r].reply
          /\ \A q \in Requests : q # r => req'[q] = req[q]
      <4> DEFINE a == [req EXCEPT ![r].pc = "waiting"]
      <4> DEFINE b == [a EXCEPT ![r].awaits = payload]
      <4>1. /\ a \in ReqsWith(S) /\ a[r].op = "wait" /\ a[r].pc = "waiting"
            /\ a[r].reply = req[r].reply /\ \A q \in Requests : q # r => a[q] = req[q]
        BY <3>1 DEF ReqsWith, Stages
      <4>2. req' = b
        BY <3>1
      <4> HIDE DEF a
      <4>3. /\ b[r].op = "wait" /\ b[r].pc = "waiting" /\ b[r].reply = a[r].reply
            /\ \A q \in Requests : q # r => b[q] = a[q]
        BY <4>1 DEF ReqsWith
      <4> HIDE DEF b
      <4>4. QED
        BY <4>1, <4>2, <4>3
    <3>3. Records
      BY <3>1, <3>2 DEF LogInv, HandlersFit, Records, GoesOn
    <3>4. QED
      BY <3>1, <3>3, NothingLogged
  <2>5. QED
    BY <1>2, <2>1, <2>2, <2>3, <2>4, StartTurnLog, ArmWaiterLog DEF Begin
<1>3. ASSUME NEW r \in Requests, Refuse(r) PROVE LogInv'
  <2>1. Settling /\ Records /\ UNCHANGED outcomes
    BY <1>1, <1>3, RefuseInvariant, ReplyRecords DEF Refuse, logs
  <2>2. cycles'.generations = cycles.generations
    BY <1>3, CancelAnswers DEF Refuse, SameAnswers
  <2>3. QED
    BY <2>1, <2>2, NothingLogged
<1>4. ASSUME NEW r \in Requests, Accept(r) PROVE LogInv'
  <2>1. Settling /\ UNCHANGED <<cycles, outcomes>> /\ req[r].pc = "delivering"
    BY <1>4, AcceptInvariant DEF Accept, CanConclude, logs
  <2>2. CASE Reply(r, "accepted")
    BY <1>1, <2>1, <2>2, ReplyRecords, NothingLogged
  <2>3. CASE req' = [req EXCEPT ![r].pc = "waiting", ![r].awaits = r]
    <3>1. /\ req'[r].op = req[r].op /\ req'[r].pc = "waiting" /\ req'[r].reply = req[r].reply
          /\ \A q \in Requests : q # r => req'[q] = req[q]
      <4> DEFINE a == [req EXCEPT ![r].pc = "waiting"]
      <4> DEFINE b == [a EXCEPT ![r].awaits = r]
      <4>1. /\ a \in ReqsWith(S) /\ a[r].op = req[r].op /\ a[r].pc = "waiting"
            /\ a[r].reply = req[r].reply /\ \A q \in Requests : q # r => a[q] = req[q]
        BY DEF ReqsWith, Stages
      <4>2. req' = b
        BY <2>3
      <4> HIDE DEF a
      <4>3. /\ b[r].op = a[r].op /\ b[r].pc = "waiting" /\ b[r].reply = a[r].reply
            /\ \A q \in Requests : q # r => b[q] = a[q]
        BY <4>1 DEF ReqsWith
      <4> HIDE DEF b
      <4>4. QED
        BY <4>1, <4>2, <4>3
    <3>2. Records
      BY <2>1, <3>1 DEF LogInv, HandlersFit, Records, GoesOn
    <3>3. QED
      BY <2>1, <3>2, NothingLogged
  <2>4. QED
    BY <1>4, <2>2, <2>3 DEF Accept
<1>5. ASSUME NEW r \in Requests, AnswerJoined(r) PROVE LogInv'
  <2>1. /\ Settling /\ UNCHANGED <<cycles, outcomes>> /\ req[r].op # "ask"
        /\ \E reply : Reply(r, reply)
    BY <1>5, AnswerJoinedInvariant
       DEF AnswerJoined, CanAnswer, Joined, IInv, AsksAwaitThemselves
  <2>2. QED
    BY <2>1, ReplyRecords, NothingLogged
<1>6. CASE Internal
  BY <1>2, <1>3, <1>4, <1>5, <1>6, ReactLog, AnswerOwnLog DEF Internal, Conclude, Answer
<1>7. ASSUME NEW r \in Requests, NEW op \in Ops, Arrive(r, op) PROVE LogInv'
  <2>1. Settling /\ UNCHANGED <<cycles, outcomes>> /\ req[r].pc = "idle"
    BY <1>7, ArriveInvariant DEF Arrive, logs
  <2>2. /\ req'[r].pc = "queued" /\ req'[r].reply = req[r].reply
        /\ \A q \in Requests : q # r => req'[q] = req[q]
    <3> DEFINE a == [req EXCEPT ![r].op = op]
    <3> DEFINE b == [a EXCEPT ![r].pc = "queued"]
    <3>1. /\ a \in ReqsWith(S) /\ a[r].reply = req[r].reply
          /\ \A q \in Requests : q # r => a[q] = req[q]
      BY DEF ReqsWith
    <3>2. req' = b
      BY <1>7 DEF Arrive
    <3> HIDE DEF a
    <3>3. /\ b[r].pc = "queued" /\ b[r].reply = a[r].reply
          /\ \A q \in Requests : q # r => b[q] = a[q]
      BY <3>1 DEF ReqsWith
    <3> HIDE DEF b
    <3>4. QED
      BY <3>1, <3>2, <3>3
  <2>3. Records
    BY <1>1, <2>1, <2>2 DEF LogInv, HandlersFit, Records, GoesOn
  <2>4. QED
    BY <2>1, <2>3, NothingLogged
<1>8. ASSUME NEW r \in Requests, RequestAbort(r) PROVE LogInv'
  <2>1. Settling /\ UNCHANGED <<cycles, outcomes>> /\ req' = [req EXCEPT ![r].aborted = TRUE]
    BY <1>8, RequestAbortInvariant DEF RequestAbort, logs
  <2>2. /\ req'[r].op = req[r].op /\ req'[r].pc = req[r].pc /\ req'[r].reply = req[r].reply
        /\ \A q \in Requests : q # r => req'[q] = req[q]
    BY <2>1 DEF ReqsWith
  <2>3. Records
    BY <2>2 DEF LogInv, HandlersFit, Records, GoesOn
  <2>4. QED
    BY <2>1, <2>3, NothingLogged
<1>9. ASSUME UNCHANGED <<cycles, req, outcomes>>, Settling PROVE LogInv'
  BY <1>9, SameRequests, NothingLogged
<1>10. ASSUME NEW r \in Requests, DeliveryEnds(r) \/ TurnTimer(r) PROVE LogInv'
  <2>1. UNCHANGED <<cycles, req, outcomes>> /\ Settling
    BY <1>10, DeliveryEndsInvariant, TurnTimerInvariant
       DEF DeliveryEnds, EndDelivery, TurnTimer, logs
  <2>2. QED
    BY <2>1, <1>9
<1>11. ASSUME NEW text \in Texts, PtyData(text) PROVE LogInv'
  BY <1>9, <1>11, PtyDataInvariant DEF PtyData, logs
<1>12. ASSUME NEW timedOut \in BOOLEAN, ReadinessCheck(timedOut) PROVE LogInv'
  BY <1>9, <1>12, ReadinessCheckInvariant DEF ReadinessCheck, logs
<1>13. CASE PtyExit \/ PtyError \/ Launch \/ Register
  <2>1. UNCHANGED <<cycles, req, outcomes>> /\ Settling
    BY <1>13, PtyExitInvariant, PtyErrorInvariant, LaunchInvariant, RegisterInvariant
       DEF PtyExit, PtyError, Launch, Register, logs
  <2>2. QED
    BY <2>1, <1>9
<1>14. CASE Stop
  <2>1. Settling /\ UNCHANGED <<req, outcomes>> /\ cycles'.generations = cycles.generations
    BY <1>14, StopInvariant, CancelAnswers DEF Stop, logs, SameAnswers
  <2>2. QED
    BY <2>1, SameRequests, NothingLogged
<1>15. CASE Expire
  <2>1. Settling /\ UNCHANGED <<req, outcomes>> /\ cycles'.generations = cycles.generations
    BY <1>15, ExpireInvariant, CacheFields DEF Expire, logs, IInv, Shape
  <2>2. QED
    BY <2>1, SameRequests, NothingLogged
<1>16. CASE UNCHANGED vars
  <2>1. UNCHANGED <<cycles, req, outcomes, turn>>
    BY <1>16 DEF vars, logs
  <2>2. Settling
    BY <2>1 DEF Settling, OnlySettles, SettlesTo, HandlersGoOn, IInv, AsksAwaitThemselves
  <2>3. QED
    BY <2>1, <2>2, <1>9
<1>17. QED
  BY <1>6, <1>7, <1>8, <1>10, <1>11, <1>12, <1>13, <1>14, <1>15, <1>16, RunEndsLog
     DEF Next, Timers

\* onOutcome() gets the outcome of every task that is over and was not cancelled,
\* and no outcome twice, whoever else waits for it.
THEOREM OutcomesAreRecordedOnce == Spec => []OutcomeRecordedOnce
<1>1. Spec => []AnswersInv
  BY InitAnswers, StepAnswers, Invariant, AgentInvariant, PTL DEF Spec
<1>2. Spec => []LogInv
  BY InitLog, StepLog, Invariant, AgentInvariant, <1>1, PTL DEF Spec
<1>3. IInv /\ LogInv => OutcomeRecordedOnce
  <2> SUFFICES ASSUME IInv, LogInv, Quiet, NEW r \in Requests
               PROVE  /\ Times(r) <= 1
                      /\ Delegated(r) /\ Concluded(r) =>
                           Times(r) = IF turn[r].promise = "cancelled" THEN 0 ELSE 1
    BY DEF OutcomeRecordedOnce
  <2> DEFINE T == {i \in DOMAIN outcomes : outcomes[i].outcome.of = r}
  <2>1. Times(r) = Cardinality(T)
    BY DEF Times
  <2>2. \A i, j \in T : i = j
    BY DEF LogInv, Log, Distinct, Logged
  <2>3. CASE T = {}
    <3>1. Times(r) = 0
      BY <2>1, <2>3, FS_EmptySet
    <3>2. Delegated(r) /\ Concluded(r) => turn[r].promise = "cancelled"
      <4> SUFFICES ASSUME Delegated(r), Concluded(r), turn[r].promise # "cancelled" PROVE FALSE
        OBVIOUS
      <4>1. Over(r)
        BY DEF Over, Concluded, Quiet, Unreacted
      <4>2. QED
        BY <2>3, <4>1 DEF LogInv, OverIsRecorded
    <3>3. QED
      BY <3>1, <3>2
  <2>4. CASE T # {}
    <3>1. PICK i \in T : T = {i}
      BY <2>2, <2>4
    <3>2. Times(r) = 1
      BY <2>1, <3>1, FS_Singleton
    <3>3. Delegated(r) => turn[r].promise # "cancelled"
      BY <3>1 DEF LogInv, Log, Logged
    <3>4. QED
      BY <3>2, <3>3
  <2>5. QED
    BY <2>3, <2>4
<1>4. QED
  BY <1>2, <1>3, Invariant, PTL
==============================================================================
