--------------------------- MODULE SemaphoreProofs ---------------------------
(***************************************************************************)
(* Proofs about the semaphore for any finite set of requests and any       *)
(* limit.  The four invariants are proved together: conservation of        *)
(* permits alone is not inductive, because what pump() grants depends on   *)
(* the queue, and WorkConserving is what bounds a pump to one grant.  From *)
(* them follows that no step overtakes anybody who waits (KeepsOrder).     *)
(***************************************************************************)
EXTENDS Semaphore, FiniteSetTheorems, SequenceTheorems, TLAPS

IInv == TypeOK /\ PermitsConserved /\ QueueIsTheWaiting /\ WorkConserving

\* splice(i, 1) leaves every other entry of the queue, and in the same order.
LEMMA SpliceProperties ==
  ASSUME NEW q \in Seq(Requests), NEW i \in 1 .. Len(q)
  PROVE  /\ Splice(q, i) \in Seq(Requests)
         /\ Len(Splice(q, i)) = Len(q) - 1
         /\ \A j \in 1 .. Len(q) - 1 : Splice(q, i)[j] = IF j < i THEN q[j] ELSE q[j + 1]
<1>1. Len(q) - 1 \in Nat
  OBVIOUS
<1>2. \A j \in 1 .. Len(q) - 1 : (IF j < i THEN q[j] ELSE q[j + 1]) \in Requests
  OBVIOUS
<1>3. Splice(q, i) \in [1 .. Len(q) - 1 -> Requests]
  BY <1>2 DEF Splice
<1>4. QED
  BY <1>1, <1>3 DEF Splice

\* The permits in use are a subset of the finite set of requests.
LEMMA HoldersFinite == IsFiniteSet(Holders) /\ Cardinality(Holders) \in Nat
<1>1. Holders \in SUBSET Requests
  BY DEF Holders
<1>2. QED
  BY <1>1, RequestsAssumption, FS_Subset, FS_CardinalityType

\* A pump that grants nobody just installs the queue it was given.
LEMMA PumpNobody ==
  ASSUME NEW act \in Nat, NEW q \in Seq(Requests), NEW st \in [Requests -> States],
         NEW armed \in [Requests -> SUBSET Options],
         Pump(act, q, st, armed), act >= Limit \/ closed \/ q = <<>>
  PROVE  active' = act /\ waiters' = q /\ state' = st /\ opts' = armed
<1>1. Granted(act, q) = 0
  BY LimitAssumption DEF Granted
<1>2. SubSeq(q, 1, Len(q)) = q
  BY SubSeqFull
<1>3. {q[i] : i \in 1 .. 0} = {}
  OBVIOUS
<1>4. /\ active' = act + 0
      /\ waiters' = SubSeq(q, 0 + 1, Len(q))
      /\ state' = [r \in Requests |-> IF r \in {q[i] : i \in 1 .. 0} THEN "granted" ELSE st[r]]
      /\ opts' = [r \in Requests |-> IF r \in {q[i] : i \in 1 .. 0} THEN {} ELSE armed[r]]
  BY <1>1 DEF Pump
<1>5. QED
  BY <1>2, <1>3, <1>4

\* A pump with exactly one free slot and a queue grants the head.
LEMMA PumpHead ==
  ASSUME NEW act \in Nat, NEW q \in Seq(Requests), NEW st \in [Requests -> States],
         NEW armed \in [Requests -> SUBSET Options],
         Pump(act, q, st, armed), act = Limit - 1, ~closed, q # <<>>
  PROVE  /\ active' = act + 1
         /\ waiters' = SubSeq(q, 2, Len(q))
         /\ state' = [st EXCEPT ![q[1]] = "granted"]
         /\ opts' = [armed EXCEPT ![q[1]] = {}]
<1>1. Granted(act, q) = 1
  <2>1. Limit - act = 1 /\ ~ (act >= Limit)
    BY LimitAssumption
  <2>2. Len(q) \in Nat /\ Len(q) # 0
    BY EmptySeq
  <2>3. Granted(act, q) = IF Len(q) <= 1 THEN Len(q) ELSE 1
    BY <2>1, Zenon DEF Granted
  <2>4. QED
    BY <2>2, <2>3
<1>2. {q[i] : i \in 1 .. 1} = {q[1]}
  OBVIOUS
<1>3. q[1] \in Requests
  OBVIOUS
<1>4. /\ active' = act + 1
      /\ waiters' = SubSeq(q, 1 + 1, Len(q))
      /\ state' = [r \in Requests |-> IF r \in {q[i] : i \in 1 .. 1} THEN "granted" ELSE st[r]]
      /\ opts' = [r \in Requests |-> IF r \in {q[i] : i \in 1 .. 1} THEN {} ELSE armed[r]]
  BY <1>1 DEF Pump
<1>5. state' = [st EXCEPT ![q[1]] = "granted"] /\ opts' = [armed EXCEPT ![q[1]] = {}]
  BY <1>2, <1>3, <1>4
<1>6. 1 + 1 = 2
  OBVIOUS
<1>7. QED
  BY <1>4, <1>5, <1>6


------------------------------------------------------------------------------
\* The invariant holds of a new semaphore.
LEMMA InitInvariant == Init => IInv
<1> SUFFICES ASSUME Init PROVE IInv
  OBVIOUS
<1>1. TypeOK
  <2>1. active \in Nat /\ closed \in BOOLEAN
    BY DEF Init
  <2>2. waiters \in Seq(Requests)
    BY EmptySeq DEF Init
  <2>3. state \in [Requests -> States] /\ opts \in [Requests -> SUBSET Options]
    BY DEF Init, States
  <2>4. QED
    BY <2>1, <2>2, <2>3 DEF TypeOK
<1>2. PermitsConserved
  <2>1. Holders = {}
    BY DEF Init, Holders
  <2>2. QED
    BY <2>1, FS_EmptySet, LimitAssumption DEF Init, PermitsConserved
<1>3. QueueIsTheWaiting
  BY DEF Init, QueueIsTheWaiting
<1>4. WorkConserving
  BY DEF Init, WorkConserving
<1>5. QED
  BY <1>1, <1>2, <1>3, <1>4 DEF IInv

\* A step that settles a promise which held no permit and was not queued.
LEMMA RejectedInvariant ==
  ASSUME IInv, NEW r \in Requests, NEW s \in Rejected, state[r] = "idle",
         state' = Settle(r, s), UNCHANGED <<active, waiters, closed, opts>>
  PROVE  IInv'
<1> USE DEF IInv
<1>1. s \in States /\ s # "waiting" /\ s # "granted"
  BY DEF Rejected, States
<1>2. TypeOK'
  BY <1>1 DEF TypeOK, Settle
<1>3. Holders' = Holders
  BY <1>1 DEF Holders, Settle, TypeOK
<1>4. PermitsConserved'
  BY <1>3 DEF PermitsConserved
<1>5. QueueIsTheWaiting'
  BY <1>1 DEF QueueIsTheWaiting, Settle, TypeOK
<1>6. WorkConserving'
  BY DEF WorkConserving
<1>7. QED
  BY <1>2, <1>4, <1>5, <1>6

\* A step that grants a free slot to a new request, with nobody queued.
LEMMA GrantNowInvariant ==
  ASSUME IInv, NEW r \in Requests, state[r] = "idle", waiters = <<>>, active < Limit,
         active' = active + 1, state' = Settle(r, "granted"),
         UNCHANGED <<waiters, closed, opts>>
  PROVE  IInv'
<1> USE DEF IInv
<1>1. TypeOK'
  BY DEF TypeOK, Settle, States
<1>2. Holders' = Holders \cup {r} /\ r \notin Holders
  BY DEF Holders, Settle, TypeOK
<1>3. Cardinality(Holders') = Cardinality(Holders) + 1
  BY <1>2, HoldersFinite, FS_AddElement
<1>4. PermitsConserved'
  BY <1>3, LimitAssumption DEF PermitsConserved, TypeOK
<1>5. QueueIsTheWaiting'
  BY DEF QueueIsTheWaiting, Settle, TypeOK
<1>6. WorkConserving'
  BY DEF WorkConserving
<1>7. QED
  BY <1>1, <1>4, <1>5, <1>6

\* Joining the queue: every permit is in use, so the pump grants nobody.
LEMMA QueuedInvariant ==
  ASSUME IInv, NEW r \in Requests, NEW o \in SUBSET Options, AcquireQueued(r, o)
  PROVE  IInv'
<1> DEFINE q == Append(waiters, r)
<1> USE DEF IInv
<1>1. active \in Nat /\ waiters \in Seq(Requests) /\ q \in Seq(Requests)
  BY DEF TypeOK
<1>2. active = Limit /\ ~closed
  BY <1>1, LimitAssumption DEF AcquireQueued, WorkConserving, PermitsConserved
<1>3. Settle(r, "waiting") \in [Requests -> States]
  BY DEF TypeOK, Settle, States
<1>4. [opts EXCEPT ![r] = o] \in [Requests -> SUBSET Options]
  BY DEF TypeOK
<1>5. /\ active' = active /\ waiters' = q /\ state' = Settle(r, "waiting")
      /\ opts' = [opts EXCEPT ![r] = o] /\ closed' = closed /\ state[r] = "idle"
  <2>1. Pump(active, q, Settle(r, "waiting"), [opts EXCEPT ![r] = o])
    BY DEF AcquireQueued
  <2>2. active >= Limit
    BY <1>1, <1>2
  <2>3. QED
    BY <1>1, <1>3, <1>4, <2>1, <2>2, PumpNobody DEF AcquireQueued
<1>6. TypeOK'
  BY <1>1, <1>3, <1>4, <1>5 DEF TypeOK
<1>7. Holders' = Holders
  BY <1>5 DEF Holders, Settle, TypeOK
<1>8. PermitsConserved'
  BY <1>5, <1>7 DEF PermitsConserved
<1>9. QueueIsTheWaiting'
  <2>1. /\ Len(q) = Len(waiters) + 1 /\ q[Len(waiters) + 1] = r
        /\ \A i \in 1 .. Len(waiters) : q[i] = waiters[i]
    BY <1>1
  <2>2. \A i \in DOMAIN waiters : waiters[i] # r
    BY <1>5 DEF QueueIsTheWaiting
  <2>3. DOMAIN waiters = 1 .. Len(waiters) /\ DOMAIN q = 1 .. Len(waiters) + 1
    BY <1>1, <2>1
  <2>4. Len(waiters) \in Nat
    BY <1>1
  <2>5. ASSUME NEW x \in Requests
        PROVE  (state'[x] = "waiting") <=> (\E i \in DOMAIN q : q[i] = x)
    <3>1. CASE x = r
      <4>1. Len(waiters) + 1 \in DOMAIN q
        BY <2>3, <2>4
      <4>2. QED
        BY <1>5, <3>1, <4>1, <2>1 DEF Settle, TypeOK
    <3>2. CASE x # r
      <4>1. state'[x] = state[x]
        BY <1>5, <3>2 DEF Settle, TypeOK
      <4>2. (\E i \in DOMAIN q : q[i] = x) <=> (\E i \in DOMAIN waiters : waiters[i] = x)
        BY <2>1, <2>3, <2>4, <3>2
      <4>3. QED
        BY <4>1, <4>2 DEF QueueIsTheWaiting
    <3>3. QED
      BY <3>1, <3>2
  <2>6. \A i, j \in DOMAIN q : q[i] = q[j] => i = j
    BY <2>1, <2>2, <2>3, <2>4 DEF QueueIsTheWaiting
  <2>7. QED
    BY <1>5, <2>5, <2>6 DEF QueueIsTheWaiting
<1>10. WorkConserving'
  BY <1>2, <1>5 DEF WorkConserving
<1>11. QED
  BY <1>6, <1>8, <1>9, <1>10

\* rejectWaiter(): somebody was waiting, so every permit is in use and the
\* pump at its end grants nobody.
LEMMA RejectInvariant ==
  ASSUME IInv, NEW r \in Requests, NEW option, NEW s \in Rejected, Reject(r, option, s)
  PROVE  IInv'
<1> USE DEF IInv
<1>1. s \in States /\ s # "waiting" /\ s # "granted"
  BY DEF Rejected, States
<1>2. active \in Nat /\ waiters \in Seq(Requests)
  BY DEF TypeOK
<1>3. PICK i \in 1 .. Len(waiters) :
        waiters[i] = r /\ Pump(active, Splice(waiters, i), Settle(r, s), Disarm(r))
  BY <1>2 DEF Reject
<1> DEFINE q == Splice(waiters, i)
<1>4. /\ q \in Seq(Requests) /\ Len(q) = Len(waiters) - 1
      /\ \A j \in 1 .. Len(waiters) - 1 : q[j] = IF j < i THEN waiters[j] ELSE waiters[j + 1]
  BY <1>2, SpliceProperties
<1>5. waiters # <<>> /\ active = Limit /\ ~closed /\ state[r] = "waiting"
  BY <1>2 DEF Reject, WorkConserving
<1>6. Settle(r, s) \in [Requests -> States] /\ Disarm(r) \in [Requests -> SUBSET Options]
  BY <1>1 DEF TypeOK, Settle, Disarm
<1>7. /\ active' = active /\ waiters' = q /\ state' = Settle(r, s)
      /\ opts' = Disarm(r) /\ closed' = closed
  <2>1. active >= Limit
    BY <1>2, <1>5
  <2>2. QED
    BY <1>2, <1>3, <1>4, <1>6, <2>1, PumpNobody DEF Reject
<1> HIDE DEF q
<1>8. TypeOK'
  BY <1>2, <1>4, <1>6, <1>7 DEF TypeOK
<1>9. Holders' = Holders
  BY <1>1, <1>5, <1>7 DEF Holders, Settle, TypeOK
<1>10. PermitsConserved'
  BY <1>7, <1>9 DEF PermitsConserved
<1>11. QueueIsTheWaiting'
  <2>1. DOMAIN q = 1 .. Len(waiters) - 1 /\ DOMAIN waiters = 1 .. Len(waiters) /\ Len(waiters) \in Nat
    BY <1>2, <1>4
  <2>2. \A j, k \in DOMAIN waiters : waiters[j] = waiters[k] => j = k
    BY DEF QueueIsTheWaiting
  <2>3. \A j \in DOMAIN q : q[j] # r
    BY <1>3, <1>4, <2>1, <2>2
  <2>4. ASSUME NEW x \in Requests
        PROVE  (state'[x] = "waiting") <=> (\E j \in DOMAIN q : q[j] = x)
    <3>1. CASE x = r
      BY <1>1, <1>7, <2>3, <3>1 DEF Settle, TypeOK
    <3>2. CASE x # r
      <4>1. state'[x] = state[x]
        BY <1>7, <3>2 DEF Settle, TypeOK
      <4>2. ASSUME NEW j \in DOMAIN q, q[j] = x
            PROVE  \E k \in DOMAIN waiters : waiters[k] = x
        <5>1. CASE j < i
          BY <1>4, <2>1, <4>2, <5>1
        <5>2. CASE ~ (j < i)
          <6>1. j + 1 \in DOMAIN waiters /\ waiters[j + 1] = x
            BY <1>4, <2>1, <4>2, <5>2
          <6>2. QED
            BY <6>1
        <5>3. QED
          BY <5>1, <5>2
      <4>3. ASSUME NEW k \in DOMAIN waiters, waiters[k] = x
            PROVE  \E j \in DOMAIN q : q[j] = x
        <5>1. k # i
          BY <1>3, <3>2, <4>3
        <5>2. CASE k < i
          <6>1. k \in 1 .. Len(waiters) - 1
            BY <2>1, <5>2
          <6>2. q[k] = waiters[k]
            BY <1>4, <5>2, <6>1
          <6>3. QED
            BY <2>1, <4>3, <6>1, <6>2
        <5>3. CASE k > i
          <6>1. k - 1 \in 1 .. Len(waiters) - 1 /\ ~ (k - 1 < i) /\ (k - 1) + 1 = k
            BY <2>1, <5>3
          <6>2. q[k - 1] = waiters[k]
            BY <1>4, <6>1
          <6>3. QED
            BY <2>1, <4>3, <6>1, <6>2
        <5>4. QED
          BY <2>1, <5>1, <5>2, <5>3
      <4>4. QED
        BY <4>1, <4>2, <4>3 DEF QueueIsTheWaiting
    <3>3. QED
      BY <3>1, <3>2
  <2>5. ASSUME NEW j \in DOMAIN q, NEW k \in DOMAIN q, q[j] = q[k]
        PROVE  j = k
    <3> DEFINE up(n) == IF n < i THEN n ELSE n + 1
    <3>1. up(j) \in DOMAIN waiters /\ up(k) \in DOMAIN waiters
      BY <2>1
    <3>2. q[j] = waiters[up(j)] /\ q[k] = waiters[up(k)]
      BY <1>4, <2>1
    <3>3. up(j) = up(k)
      BY <2>2, <2>5, <3>1, <3>2
    <3>4. QED
      BY <2>1, <3>3
  <2>6. QED
    BY <1>7, <2>4, <2>5 DEF QueueIsTheWaiting
<1>12. WorkConserving'
  BY <1>5, <1>7 DEF WorkConserving
<1>13. QED
  BY <1>8, <1>10, <1>11, <1>12

\* close(): the queue is emptied and its members are rejected.
LEMMA CloseInvariant ==
  ASSUME IInv, Close
  PROVE  IInv'
<1> USE DEF IInv
<1>1. active' = active /\ closed' = TRUE /\ waiters' = <<>>
  BY DEF Close
<1>2. \A x \in Requests : state'[x] = IF state[x] = "waiting" THEN "closed" ELSE state[x]
  BY DEF Close
<1>3. TypeOK'
  <2>1. state' \in [Requests -> States]
    BY DEF Close, TypeOK, States, Rejected
  <2>2. opts' \in [Requests -> SUBSET Options]
    BY DEF Close, TypeOK
  <2>3. <<>> \in Seq(Requests)
    BY EmptySeq
  <2>4. QED
    BY <1>1, <2>1, <2>2, <2>3 DEF TypeOK
<1>4. Holders' = Holders
  BY <1>2 DEF Holders
<1>5. PermitsConserved'
  BY <1>1, <1>4 DEF PermitsConserved
<1>6. QueueIsTheWaiting'
  BY <1>1, <1>2 DEF QueueIsTheWaiting
<1>7. WorkConserving'
  BY <1>1 DEF WorkConserving
<1>8. QED
  BY <1>3, <1>5, <1>6, <1>7

\* release(): either nobody waits, and a slot becomes free, or the slot goes
\* to the head of the queue at once.
LEMMA ReleaseInvariant ==
  ASSUME IInv, NEW r \in Requests, Release(r)
  PROVE  IInv'
<1> USE DEF IInv
<1> DEFINE st == Settle(r, "released")
<1>1. active \in Nat /\ waiters \in Seq(Requests) /\ closed \in BOOLEAN
  BY DEF TypeOK
<1>2. r \in Holders /\ state[r] = "granted" /\ closed' = closed
  BY DEF Release, Holders
<1>3. Cardinality(Holders) # 0
  BY <1>2, HoldersFinite, FS_EmptySet
<1>4. active > 0 /\ active - 1 \in Nat
  BY <1>1, <1>3 DEF PermitsConserved
<1>5. Pump(active - 1, waiters, st, opts)
  BY <1>4 DEF Release
<1>6. st \in [Requests -> States] /\ opts \in [Requests -> SUBSET Options]
  BY DEF TypeOK, Settle, States
<1>7. \A x \in Requests : st[x] = IF x = r THEN "released" ELSE state[x]
  BY DEF Settle, TypeOK
<1> HIDE DEF st
<1> DEFINE freed == Holders \ {r}
<1>8. IsFiniteSet(freed) /\ Cardinality(freed) = active - 1
  BY <1>2, HoldersFinite, FS_RemoveElement DEF PermitsConserved
<1>9. CASE waiters = <<>>
  <2>1. active' = active - 1 /\ waiters' = waiters /\ state' = st /\ opts' = opts
    BY <1>1, <1>4, <1>5, <1>6, <1>9, PumpNobody
  <2>2. TypeOK'
    BY <1>1, <1>2, <1>4, <1>6, <2>1 DEF TypeOK
  <2>3. Holders' = freed
    BY <1>7, <2>1 DEF Holders
  <2>4. PermitsConserved'
    BY <1>1, <1>8, <2>1, <2>3, LimitAssumption DEF PermitsConserved
  <2>5. QueueIsTheWaiting'
    BY <1>2, <1>7, <1>9, <2>1 DEF QueueIsTheWaiting
  <2>6. WorkConserving'
    BY <1>9, <2>1 DEF WorkConserving
  <2>7. QED
    BY <2>2, <2>4, <2>5, <2>6
<1>10. CASE waiters # <<>>
  <2> DEFINE h == waiters[1]
  <2> DEFINE q == SubSeq(waiters, 2, Len(waiters))
  <2>1. active = Limit /\ ~closed
    BY <1>10 DEF WorkConserving
  <2>2. Len(waiters) \in Nat \ {0} /\ DOMAIN waiters = 1 .. Len(waiters)
    BY <1>1, <1>10, EmptySeq
  <2>3. h \in Requests /\ state[h] = "waiting" /\ h # r
    <3>1. 1 \in DOMAIN waiters
      BY <2>2
    <3>2. h \in Requests
      BY <1>1, <3>1
    <3>3. QED
      BY <1>2, <3>1, <3>2 DEF QueueIsTheWaiting
  <2>4. /\ active' = (active - 1) + 1 /\ waiters' = q
        /\ state' = [st EXCEPT ![h] = "granted"] /\ opts' = [opts EXCEPT ![h] = {}]
    <3>1. active - 1 = Limit - 1
      BY <2>1
    <3>2. QED
      BY <1>1, <1>4, <1>5, <1>6, <1>10, <2>1, <3>1, PumpHead
  <2>5. active' = active
    BY <1>1, <2>4
  <2>6. /\ q \in Seq(Requests) /\ Len(q) = Len(waiters) - 1
        /\ \A j \in 1 .. Len(waiters) - 1 : q[j] = waiters[j + 1]
    <3>1. Tail(waiters) = q
      BY <1>1, <1>10, TailIsSubSeq
    <3>2. QED
      BY <1>1, <1>10, <3>1, HeadTailProperties
  <2> HIDE DEF q, h
  <2>7. \A x \in Requests :
          state'[x] = IF x = h THEN "granted" ELSE IF x = r THEN "released" ELSE state[x]
    BY <1>6, <1>7, <2>3, <2>4
  <2>8. TypeOK'
    <3>1. state' \in [Requests -> States]
      BY <1>6, <2>3, <2>4 DEF States
    <3>2. opts' \in [Requests -> SUBSET Options]
      BY <1>6, <2>4
    <3>3. QED
      BY <1>1, <1>2, <2>4, <2>5, <2>6, <3>1, <3>2 DEF TypeOK
  <2>9. Holders' = freed \cup {h} /\ h \notin freed
    BY <2>3, <2>7 DEF Holders
  <2>10. PermitsConserved'
    <3>1. Cardinality(Holders') = Cardinality(freed) + 1
      BY <1>8, <2>9, FS_AddElement
    <3>2. Cardinality(Holders') = active
      BY <1>1, <1>8, <3>1
    <3>3. QED
      BY <2>5, <3>2 DEF PermitsConserved
  <2>11. QueueIsTheWaiting'
    <3>1. DOMAIN q = 1 .. Len(waiters) - 1
      BY <2>2, <2>6
    <3>2. \A j, k \in DOMAIN waiters : waiters[j] = waiters[k] => j = k
      BY DEF QueueIsTheWaiting
    <3>3. \A j \in DOMAIN q : j + 1 \in DOMAIN waiters /\ q[j] = waiters[j + 1]
      BY <2>2, <2>6, <3>1
    <3>4. \A j, k \in DOMAIN q : q[j] = q[k] => j = k
      BY <3>1, <3>2, <3>3
    <3>5. ASSUME NEW x \in Requests
          PROVE  (state'[x] = "waiting") <=> (\E j \in DOMAIN q : q[j] = x)
      <4>1. ASSUME NEW j \in DOMAIN q, q[j] = x PROVE state'[x] = "waiting"
        <5>1. x # h
          <6>1. j + 1 # 1 /\ 1 \in DOMAIN waiters
            BY <2>2, <3>1
          <6>2. QED
            BY <3>2, <3>3, <4>1, <6>1 DEF h
        <5>2. state[x] = "waiting"
          BY <3>3, <4>1 DEF QueueIsTheWaiting
        <5>3. QED
          BY <1>2, <2>7, <5>1, <5>2
      <4>2. ASSUME state'[x] = "waiting" PROVE \E j \in DOMAIN q : q[j] = x
        <5>1. state[x] = "waiting" /\ x # h
          BY <2>7, <4>2
        <5>2. PICK k \in DOMAIN waiters : waiters[k] = x
          BY <5>1 DEF QueueIsTheWaiting
        <5>3. k # 1
          BY <5>1, <5>2 DEF h
        <5>4. k - 1 \in DOMAIN q /\ (k - 1) + 1 = k
          BY <2>2, <3>1, <5>2, <5>3
        <5>5. q[k - 1] = x
          BY <3>3, <5>2, <5>4
        <5>6. QED
          BY <5>4, <5>5
      <4>3. QED
        BY <4>1, <4>2
    <3>6. QED
      BY <2>4, <3>4, <3>5 DEF QueueIsTheWaiting
  <2>12. WorkConserving'
    BY <1>2, <2>1, <2>5 DEF WorkConserving
  <2>13. QED
    BY <2>8, <2>10, <2>11, <2>12
<1>11. QED
  BY <1>9, <1>10

------------------------------------------------------------------------------
\* Every step of the semaphore, and every stuttering step, keeps the invariant.
LEMMA NextInvariant == IInv /\ [Next]_vars => IInv'
<1> SUFFICES ASSUME IInv, [Next]_vars PROVE IInv'
  OBVIOUS
<1>1. CASE UNCHANGED vars
  BY <1>1 DEF IInv, TypeOK, PermitsConserved, QueueIsTheWaiting, WorkConserving, Holders, vars
<1>2. ASSUME NEW r \in Requests, AcquireRejected(r) PROVE IInv'
  <2>1. PICK s \in Rejected : state' = Settle(r, s)
    BY <1>2 DEF AcquireRejected, Rejected
  <2>2. QED
    BY <1>2, <2>1, RejectedInvariant DEF AcquireRejected
<1>3. ASSUME NEW r \in Requests, AcquireNow(r) PROVE IInv'
  BY <1>3, GrantNowInvariant DEF AcquireNow
<1>4. ASSUME NEW r \in Requests, TryAcquire(r) PROVE IInv'
  <2>1. CASE closed \/ active >= Limit \/ waiters # <<>>
    <3>1. state' = Settle(r, "refused") /\ UNCHANGED active /\ "refused" \in Rejected
      BY <1>4, <2>1 DEF TryAcquire, Rejected
    <3>2. QED
      BY <1>4, <3>1, RejectedInvariant DEF TryAcquire
  <2>2. CASE ~ (closed \/ active >= Limit \/ waiters # <<>>)
    <3>1. waiters = <<>> /\ active < Limit
      BY <2>2, LimitAssumption DEF IInv, TypeOK
    <3>2. state' = Settle(r, "granted") /\ active' = active + 1
      BY <1>4, <2>2 DEF TryAcquire
    <3>3. QED
      BY <1>4, <3>1, <3>2, GrantNowInvariant DEF TryAcquire
  <2>3. QED
    BY <2>1, <2>2
<1>5. ASSUME NEW r \in Requests, NEW o \in SUBSET Options, AcquireQueued(r, o) PROVE IInv'
  BY <1>5, QueuedInvariant
<1>6. ASSUME NEW r \in Requests, Release(r) PROVE IInv'
  BY <1>6, ReleaseInvariant
<1>7. ASSUME NEW r \in Requests, Timeout(r) \/ Abort(r) PROVE IInv'
  <2>1. "timeout" \in Rejected /\ "aborted" \in Rejected
    BY DEF Rejected
  <2>2. QED
    BY <1>7, <2>1, RejectInvariant DEF Timeout, Abort
<1>8. CASE Close
  BY <1>8, CloseInvariant
<1>9. QED
  BY <1>1, <1>2, <1>3, <1>4, <1>5, <1>6, <1>7, <1>8 DEF Next

\* The four invariants hold in every reachable state, for any limit and any
\* number of requests, timers, aborts and closes.
THEOREM SemaphoreInvariant == Spec => []IInv
<1>1. Init => IInv
  BY InitInvariant
<1>2. IInv /\ [Next]_vars => IInv'
  BY NextInvariant
<1>3. QED
  BY <1>1, <1>2, PTL DEF Spec

\* The variables of Semaphore keep their types.
THEOREM SemaphoreTypeOK == Spec => []TypeOK
<1>1. IInv => TypeOK
  BY DEF IInv
<1>2. QED
  BY <1>1, SemaphoreInvariant, PTL

\* The permits in use are exactly the granted and unreleased ones, and never
\* more than the limit (activeCount of src/main/semaphore.ts).
THEOREM SemaphorePermitsConserved == Spec => []PermitsConserved
<1>1. IInv => PermitsConserved
  BY DEF IInv
<1>2. QED
  BY <1>1, SemaphoreInvariant, PTL

\* Nobody waits while a permit is free: no wake-up is ever lost.
THEOREM SemaphoreWorkConserving == Spec => []WorkConserving
<1>1. IInv => WorkConserving
  BY DEF IInv
<1>2. QED
  BY <1>1, SemaphoreInvariant, PTL

------------------------------------------------------------------------------
\* What NoOvertaking demands of one step.
KeepsOrder ==
  \A a, b \in Requests :
    /\ state[a] = "waiting" /\ state'[a] = "waiting"
    /\ state[b] = "idle" \/ Before(waiters, a, b)
    => /\ state'[b] # "granted"
       /\ state'[b] = "waiting" => Before(waiters', a, b)

\* Whoever stands in the queue is waiting, and whoever waits stands in it.
LEMMA BeforeIsWaiting ==
  ASSUME IInv, NEW a \in Requests, NEW b \in Requests, Before(waiters, a, b)
  PROVE  state[a] = "waiting" /\ state[b] = "waiting"
BY DEF IInv, QueueIsTheWaiting, Before

\* A step that leaves the queue alone and settles one idle request, granting it
\* only when nobody waits, overtakes nobody.
LEMMA SettleKeepsOrder ==
  ASSUME IInv, NEW r \in Requests, NEW s \in States \ {"waiting"}, state' = Settle(r, s),
         waiters' = waiters, s = "granted" => waiters = <<>>
  PROVE  KeepsOrder
<1> SUFFICES ASSUME NEW a \in Requests, NEW b \in Requests,
                    state[a] = "waiting", state[b] = "idle" \/ Before(waiters, a, b)
             PROVE  /\ state'[b] # "granted"
                    /\ state'[b] = "waiting" => Before(waiters', a, b)
  BY DEF KeepsOrder
<1>1. s # "granted"
  BY DEF IInv, QueueIsTheWaiting
<1>2. state'[b] = IF b = r THEN s ELSE state[b]
  BY DEF IInv, TypeOK, Settle
<1>3. CASE state[b] = "idle"
  BY <1>1, <1>2, <1>3
<1>4. CASE Before(waiters, a, b)
  <2>1. state[b] = "waiting"
    BY <1>4, BeforeIsWaiting
  <2>2. QED
    BY <1>1, <1>2, <1>4, <2>1 DEF Before
<1>5. QED
  BY <1>3, <1>4

\* Joining the queue puts the newcomer behind everybody who waits.
LEMMA QueuedKeepsOrder ==
  ASSUME IInv, NEW r \in Requests, NEW o \in SUBSET Options, AcquireQueued(r, o)
  PROVE  KeepsOrder
<1> DEFINE q == Append(waiters, r)
<1>1. active \in Nat /\ waiters \in Seq(Requests) /\ q \in Seq(Requests)
  BY DEF IInv, TypeOK
<1>2. active >= Limit
  BY <1>1, LimitAssumption DEF IInv, AcquireQueued, WorkConserving, PermitsConserved
<1>3. /\ Settle(r, "waiting") \in [Requests -> States]
      /\ [opts EXCEPT ![r] = o] \in [Requests -> SUBSET Options]
  BY DEF IInv, TypeOK, Settle, States
<1>4. waiters' = q /\ state' = Settle(r, "waiting")
  BY <1>1, <1>2, <1>3, PumpNobody DEF AcquireQueued
<1>5. /\ DOMAIN waiters = 1 .. Len(waiters) /\ DOMAIN q = 1 .. Len(waiters) + 1
      /\ Len(waiters) \in Nat /\ q[Len(waiters) + 1] = r
      /\ \A i \in DOMAIN waiters : q[i] = waiters[i]
  BY <1>1
<1> HIDE DEF q
<1> SUFFICES ASSUME NEW a \in Requests, NEW b \in Requests,
                    state[a] = "waiting", state[b] = "idle" \/ Before(waiters, a, b)
             PROVE  /\ state'[b] # "granted"
                    /\ state'[b] = "waiting" => Before(waiters', a, b)
  BY DEF KeepsOrder
<1>6. state'[b] = IF b = r THEN "waiting" ELSE state[b]
  BY <1>4 DEF IInv, TypeOK, Settle
<1>7. CASE b = r
  <2>1. PICK i \in DOMAIN waiters : waiters[i] = a
    BY DEF IInv, QueueIsTheWaiting
  <2>2. i \in DOMAIN q /\ Len(waiters) + 1 \in DOMAIN q /\ i < Len(waiters) + 1 /\ q[i] = a
    BY <1>5, <2>1
  <2>3. Before(q, a, b)
    BY <1>5, <1>7, <2>2 DEF Before
  <2>4. QED
    BY <1>4, <1>6, <1>7, <2>3
<1>8. CASE b # r /\ state[b] = "idle"
  BY <1>6, <1>8
<1>9. CASE b # r /\ Before(waiters, a, b)
  <2>1. state[b] = "waiting"
    BY <1>9, BeforeIsWaiting
  <2>2. PICK i, j \in DOMAIN waiters : i < j /\ waiters[i] = a /\ waiters[j] = b
    BY <1>9 DEF Before
  <2>3. i \in DOMAIN q /\ j \in DOMAIN q /\ q[i] = a /\ q[j] = b
    BY <1>5, <2>2
  <2>4. Before(q, a, b)
    BY <2>2, <2>3 DEF Before
  <2>5. QED
    BY <1>4, <1>6, <1>9, <2>1, <2>4
<1>10. QED
  BY <1>7, <1>8, <1>9

\* Taking one waiter out, from the middle too, keeps the order of the others.
LEMMA RejectKeepsOrder ==
  ASSUME IInv, NEW r \in Requests, NEW option, NEW s \in Rejected, Reject(r, option, s)
  PROVE  KeepsOrder
<1>1. s \in States /\ s # "waiting" /\ s # "granted"
  BY DEF Rejected, States
<1>2. active \in Nat /\ waiters \in Seq(Requests)
  BY DEF IInv, TypeOK
<1>3. PICK i \in 1 .. Len(waiters) :
        waiters[i] = r /\ Pump(active, Splice(waiters, i), Settle(r, s), Disarm(r))
  BY <1>2 DEF Reject
<1> DEFINE q == Splice(waiters, i)
<1>4. /\ q \in Seq(Requests) /\ Len(q) = Len(waiters) - 1
      /\ \A j \in 1 .. Len(waiters) - 1 : q[j] = IF j < i THEN waiters[j] ELSE waiters[j + 1]
  BY <1>2, SpliceProperties
<1>5. active >= Limit
  <2>1. waiters # <<>>
    BY <1>2
  <2>2. QED
    BY <1>2, <2>1, LimitAssumption DEF IInv, WorkConserving
<1>6. Settle(r, s) \in [Requests -> States] /\ Disarm(r) \in [Requests -> SUBSET Options]
  BY <1>1 DEF IInv, TypeOK, Settle, Disarm
<1>7. waiters' = q /\ state' = Settle(r, s)
  BY <1>2, <1>3, <1>4, <1>5, <1>6, PumpNobody
<1> HIDE DEF q
<1> SUFFICES ASSUME NEW a \in Requests, NEW b \in Requests,
                    state[a] = "waiting", state'[a] = "waiting",
                    state[b] = "idle" \/ Before(waiters, a, b)
             PROVE  /\ state'[b] # "granted"
                    /\ state'[b] = "waiting" => Before(waiters', a, b)
  BY DEF KeepsOrder
<1>8. \A x \in Requests : state'[x] = IF x = r THEN s ELSE state[x]
  BY <1>7 DEF IInv, TypeOK, Settle
<1>9. CASE b = r \/ state[b] = "idle"
  BY <1>1, <1>8, <1>9
<1>10. CASE b # r /\ Before(waiters, a, b)
  <2>1. state[b] = "waiting" /\ a # r
    BY <1>1, <1>8, <1>10, BeforeIsWaiting
  <2>2. PICK j, k \in DOMAIN waiters : j < k /\ waiters[j] = a /\ waiters[k] = b
    BY <1>10 DEF Before
  <2>3. DOMAIN q = 1 .. Len(waiters) - 1 /\ DOMAIN waiters = 1 .. Len(waiters) /\ Len(waiters) \in Nat
    BY <1>2, <1>4
  <2> DEFINE down(n) == IF n < i THEN n ELSE n - 1
  <2>4. j # i /\ k # i
    BY <1>3, <1>10, <2>1, <2>2
  <2>5. down(j) \in DOMAIN q /\ down(k) \in DOMAIN q /\ down(j) < down(k)
    BY <2>2, <2>3, <2>4
  <2>6. \A n \in DOMAIN waiters : n # i => q[down(n)] = waiters[n]
    <3> SUFFICES ASSUME NEW n \in DOMAIN waiters, n # i PROVE q[down(n)] = waiters[n]
      OBVIOUS
    <3>1. CASE n < i
      BY <1>4, <2>3, <3>1
    <3>2. CASE ~ (n < i)
      <4>1. n - 1 \in 1 .. Len(waiters) - 1 /\ ~ (n - 1 < i) /\ (n - 1) + 1 = n
        BY <2>3, <3>2
      <4>2. q[n - 1] = waiters[n]
        BY <1>4, <4>1
      <4>3. QED
        BY <3>2, <4>2
    <3>3. QED
      BY <3>1, <3>2
  <2>7. q[down(j)] = a /\ q[down(k)] = b
    BY <2>2, <2>4, <2>6
  <2> HIDE DEF down
  <2>8. Before(q, a, b)
    BY <2>5, <2>7 DEF Before
  <2>9. QED
    BY <1>7, <1>8, <1>10, <2>1, <2>8
<1>11. QED
  BY <1>9, <1>10

\* A released permit goes to the head of the queue, whom nobody is in front of.
LEMMA ReleaseKeepsOrder ==
  ASSUME IInv, NEW r \in Requests, Release(r)
  PROVE  KeepsOrder
<1> SUFFICES ASSUME NEW a \in Requests, NEW b \in Requests,
                    state[a] = "waiting", state'[a] = "waiting",
                    state[b] = "idle" \/ Before(waiters, a, b)
             PROVE  /\ state'[b] # "granted"
                    /\ state'[b] = "waiting" => Before(waiters', a, b)
  BY DEF KeepsOrder
<1> DEFINE st == Settle(r, "released")
<1> DEFINE h == waiters[1]
<1> DEFINE q == SubSeq(waiters, 2, Len(waiters))
<1>1. active \in Nat /\ waiters \in Seq(Requests) /\ waiters # <<>>
  BY DEF IInv, TypeOK, QueueIsTheWaiting
<1>2. active = Limit /\ ~closed /\ active > 0 /\ active - 1 \in Nat /\ active - 1 = Limit - 1
  BY <1>1, LimitAssumption DEF IInv, WorkConserving
<1>3. st \in [Requests -> States] /\ opts \in [Requests -> SUBSET Options]
  BY DEF IInv, TypeOK, Settle, States
<1>4. Pump(active - 1, waiters, st, opts) /\ state[r] = "granted"
  BY <1>2 DEF Release
<1>5. waiters' = q /\ state' = [st EXCEPT ![h] = "granted"]
  BY <1>1, <1>2, <1>3, <1>4, PumpHead
<1>6. /\ DOMAIN waiters = 1 .. Len(waiters) /\ Len(waiters) \in Nat \ {0}
      /\ DOMAIN q = 1 .. Len(waiters) - 1
      /\ \A j \in DOMAIN q : q[j] = waiters[j + 1]
  <2>1. Tail(waiters) = q
    BY <1>1, TailIsSubSeq
  <2>2. q \in Seq(Requests) /\ Len(q) = Len(waiters) - 1
    BY <1>1, <2>1, HeadTailProperties
  <2>3. \A j \in 1 .. Len(waiters) - 1 : q[j] = waiters[j + 1]
    BY <1>1, <2>1, HeadTailProperties
  <2>4. QED
    BY <1>1, <2>2, <2>3, EmptySeq
<1>7. h \in Requests /\ state[h] = "waiting"
  <2>1. 1 \in DOMAIN waiters
    BY <1>6
  <2>2. h \in Requests
    BY <1>1, <2>1
  <2>3. QED
    BY <2>1, <2>2 DEF IInv, QueueIsTheWaiting
<1>8. \A x \in Requests :
        state'[x] = IF x = h THEN "granted" ELSE IF x = r THEN "released" ELSE state[x]
  BY <1>3, <1>5, <1>7 DEF IInv, TypeOK, Settle
<1> HIDE DEF q, st
<1>9. CASE state[b] = "idle"
  BY <1>4, <1>7, <1>8, <1>9
<1>10. CASE Before(waiters, a, b)
  <2>1. PICK j, k \in DOMAIN waiters : j < k /\ waiters[j] = a /\ waiters[k] = b
    BY <1>10 DEF Before
  <2>2. a # h
    BY <1>8
  <2>3. j # 1 /\ k # 1
    BY <1>6, <2>1, <2>2
  <2>4. b # h
    <3>1. 1 \in DOMAIN waiters
      BY <1>6
    <3>2. QED
      BY <2>1, <2>3, <3>1 DEF IInv, QueueIsTheWaiting
  <2>5. state[b] = "waiting" /\ state'[b] = "waiting"
    BY <1>4, <1>8, <1>10, <2>4, BeforeIsWaiting
  <2>6. j - 1 \in DOMAIN q /\ k - 1 \in DOMAIN q /\ j - 1 < k - 1 /\ (j - 1) + 1 = j /\ (k - 1) + 1 = k
    BY <1>6, <2>1, <2>3
  <2>7. q[j - 1] = a /\ q[k - 1] = b
    BY <1>6, <2>1, <2>6
  <2>8. Before(q, a, b)
    BY <2>6, <2>7 DEF Before
  <2>9. QED
    BY <1>5, <2>5, <2>8
<1>11. QED
  BY <1>9, <1>10

\* Every operation of the semaphore keeps the order of those who wait.
LEMMA NextKeepsOrder == IInv /\ Next => KeepsOrder
<1> SUFFICES ASSUME IInv, Next PROVE KeepsOrder
  OBVIOUS
<1>1. ASSUME NEW r \in Requests, AcquireRejected(r) PROVE KeepsOrder
  <2>1. PICK s \in Rejected : state' = Settle(r, s)
    BY <1>1 DEF AcquireRejected, Rejected
  <2>2. s \in States \ {"waiting"} /\ s # "granted"
    BY DEF Rejected, States
  <2>3. QED
    BY <1>1, <2>1, <2>2, SettleKeepsOrder DEF AcquireRejected
<1>2. ASSUME NEW r \in Requests, AcquireNow(r) PROVE KeepsOrder
  BY <1>2, SettleKeepsOrder DEF AcquireNow, States
<1>3. ASSUME NEW r \in Requests, TryAcquire(r) PROVE KeepsOrder
  <2>1. "refused" \in States \ {"waiting"} /\ "granted" \in States \ {"waiting"}
    BY DEF States, Rejected
  <2>2. waiters' = waiters
    BY <1>3 DEF TryAcquire
  <2>3. state' = Settle(r, "refused") \/ (state' = Settle(r, "granted") /\ waiters = <<>>)
    BY <1>3 DEF TryAcquire
  <2>4. QED
    BY <2>1, <2>2, <2>3, SettleKeepsOrder
<1>4. ASSUME NEW r \in Requests, NEW o \in SUBSET Options, AcquireQueued(r, o) PROVE KeepsOrder
  BY <1>4, QueuedKeepsOrder
<1>5. ASSUME NEW r \in Requests, Release(r) PROVE KeepsOrder
  BY <1>5, ReleaseKeepsOrder
<1>6. ASSUME NEW r \in Requests, Timeout(r) \/ Abort(r) PROVE KeepsOrder
  <2>1. "timeout" \in Rejected /\ "aborted" \in Rejected
    BY DEF Rejected
  <2>2. QED
    BY <1>6, <2>1, RejectKeepsOrder DEF Timeout, Abort
<1>7. CASE Close
  BY <1>7 DEF Close, KeepsOrder
<1>8. QED
  BY <1>1, <1>2, <1>3, <1>4, <1>5, <1>6, <1>7 DEF Next

\* First come, first served: while a request waits in the queue of
\* src/main/semaphore.ts, no later one gets a permit or passes it, whatever
\* timeouts, aborts and releases come in between.
THEOREM SemaphoreNoOvertaking == Spec => NoOvertaking
<1>1. IInv /\ [Next]_vars => [KeepsOrder]_vars
  BY NextKeepsOrder
<1>2. Spec => [][KeepsOrder]_vars
  BY <1>1, SemaphoreInvariant, PTL DEF Spec
<1>3. QED
  BY <1>2, PTL DEF KeepsOrder, NoOvertaking
==============================================================================
