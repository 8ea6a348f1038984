-------------------------- MODULE TargetLocksProofs --------------------------
(***************************************************************************)
(* The promise chain implements the abstract lock, for any set of calls    *)
(* and keys.  Chained is the heart of the argument: a call waits for one   *)
(* promise only, and that is enough because that promise belongs to the    *)
(* call made just before it, unless all earlier calls had settled already. *)
(***************************************************************************)
EXTENDS TargetLocks, SequenceTheorems, TLAPS

\* The history holds exactly the calls made, each once, under its own target.
History ==
  /\ \A k \in Keys : \A i \in DOMAIN arrived[k] :
       Target[arrived[k][i]] = k /\ pc[arrived[k][i]] # "idle"
  /\ \A k \in Keys : \A i, j \in DOMAIN arrived[k] : arrived[k][i] = arrived[k][j] => i = j
  /\ \A r \in Calls : pc[r] # "idle" => \E i \in DOMAIN arrived[Target[r]] : arrived[Target[r]][i] = r

\* The lock of a target is its last call, or no earlier call is unsettled.
LockIsLast ==
  \A k \in Keys :
    /\ locks[k] = None => \A i \in DOMAIN arrived[k] : pc[arrived[k][i]] = "settled"
    /\ locks[k] # None => Len(arrived[k]) > 0 /\ locks[k] = arrived[k][Len(arrived[k])]

\* A call is chained on the one before it, or every earlier one has settled.
Chained ==
  \A k \in Keys : \A i \in DOMAIN arrived[k] :
    \/ \A j \in 1 .. i - 1 : pc[arrived[k][j]] = "settled"
    \/ i > 1 /\ previous[arrived[k][i]] = arrived[k][i - 1]

\* A call that has begun has only settled calls before it.
Ordered ==
  \A k \in Keys : \A i, j \in DOMAIN arrived[k] :
    i < j /\ pc[arrived[k][j]] \in {"running", "settled"} => pc[arrived[k][i]] = "settled"

CleanedAreSettled == \A r \in Calls : cleaned[r] => pc[r] = "settled"

IInv ==
  TypeOK /\ History /\ LockIsLast /\ Chained /\ Ordered /\ CleanedAreSettled /\ NoLockLeak

------------------------------------------------------------------------------
\* The invariant holds before any call is made.
LEMMA InitInvariant == Init => IInv
<1> SUFFICES ASSUME Init PROVE IInv
  OBVIOUS
<1>1. TypeOK
  BY EmptySeq DEF Init, TypeOK, Stages
<1>2. History /\ LockIsLast /\ Chained /\ Ordered
  BY DEF Init, History, LockIsLast, Chained, Ordered
<1>3. CleanedAreSettled /\ NoLockLeak
  BY DEF Init, CleanedAreSettled, NoLockLeak
<1>4. QED
  BY <1>1, <1>2, <1>3 DEF IInv

\* A new call goes to the end of its target's line and becomes its lock.
LEMMA CallInvariant ==
  ASSUME IInv, NEW r \in Calls, Call(r)
  PROVE  IInv'
<1> DEFINE k == Target[r]
<1> DEFINE n == Len(arrived[k])
<1> USE DEF IInv
<1>1. k \in Keys /\ arrived[k] \in Seq(Calls) /\ n \in Nat /\ DOMAIN arrived[k] = 1 .. n
  BY TargetAssumption DEF TypeOK
<1>2. /\ arrived'[k] = Append(arrived[k], r)
      /\ \A l \in Keys : l # k => arrived'[l] = arrived[l]
      /\ DOMAIN arrived'[k] = 1 .. n + 1 /\ arrived'[k][n + 1] = r
      /\ \A i \in 1 .. n : arrived'[k][i] = arrived[k][i]
      /\ Len(arrived'[k]) = n + 1
  <2>1. arrived'[k] = Append(arrived[k], r) /\ \A l \in Keys : l # k => arrived'[l] = arrived[l]
    BY <1>1 DEF Call, TypeOK
  <2>2. QED
    BY <1>1, <2>1
<1>3. /\ \A x \in Calls : pc'[x] = IF x = r THEN "queued" ELSE pc[x]
      /\ \A x \in Calls : previous'[x] = IF x = r THEN locks[k] ELSE previous[x]
      /\ \A l \in Keys : locks'[l] = IF l = k THEN r ELSE locks[l]
      /\ pc[r] = "idle" /\ cleaned' = cleaned /\ aborted' = aborted
  BY <1>1 DEF Call, TypeOK
<1>4. \A l \in Keys : \A i \in DOMAIN arrived[l] :
        arrived[l][i] \in Calls /\ arrived[l][i] # r /\ pc'[arrived[l][i]] = pc[arrived[l][i]]
  BY <1>3 DEF History, TypeOK
<1>5. TypeOK'
  <2>1. arrived' \in [Keys -> Seq(Calls)]
    BY <1>1 DEF Call, TypeOK
  <2>2. locks' \in [Keys -> Calls \cup {None}] /\ previous' \in [Calls -> Calls \cup {None}]
    BY <1>1 DEF Call, TypeOK
  <2>3. pc' \in [Calls -> Stages]
    BY DEF Call, TypeOK, Stages
  <2>4. QED
    BY <1>3, <2>1, <2>2, <2>3 DEF TypeOK
<1> HIDE DEF k, n
<1>6. History'
  <2>1. \A l \in Keys : \A i \in DOMAIN arrived'[l] :
          Target[arrived'[l][i]] = l /\ pc'[arrived'[l][i]] # "idle"
    <3> SUFFICES ASSUME NEW l \in Keys, NEW i \in DOMAIN arrived'[l]
                 PROVE  Target[arrived'[l][i]] = l /\ pc'[arrived'[l][i]] # "idle"
      OBVIOUS
    <3>1. CASE l = k /\ i = n + 1
      BY <1>2, <1>3, <3>1 DEF k
    <3>2. CASE ~ (l = k /\ i = n + 1)
      <4>1. i \in DOMAIN arrived[l] /\ arrived'[l][i] = arrived[l][i]
        BY <1>1, <1>2, <3>2
      <4>2. QED
        BY <1>4, <4>1 DEF History
    <3>3. QED
      BY <3>1, <3>2
  <2>2. \A l \in Keys : \A i, j \in DOMAIN arrived'[l] : arrived'[l][i] = arrived'[l][j] => i = j
    <3> SUFFICES ASSUME NEW l \in Keys, NEW i \in DOMAIN arrived'[l], NEW j \in DOMAIN arrived'[l],
                        arrived'[l][i] = arrived'[l][j]
                 PROVE  i = j
      OBVIOUS
    <3>1. CASE l # k
      BY <1>2, <3>1 DEF History
    <3>2. CASE l = k
      <4>1. \A m \in 1 .. n : arrived'[k][m] # r
        BY <1>1, <1>2, <1>4
      <4>2. \A p, m \in 1 .. n : arrived[k][p] = arrived[k][m] => p = m
        BY <1>1 DEF History
      <4>3. i \in 1 .. n + 1 /\ j \in 1 .. n + 1
        BY <1>2, <3>2
      <4>4. CASE i = n + 1 \/ j = n + 1
        BY <1>1, <1>2, <3>2, <4>1, <4>3, <4>4
      <4>5. CASE i \in 1 .. n /\ j \in 1 .. n
        BY <1>2, <3>2, <4>2, <4>5
      <4>6. QED
        BY <1>1, <4>3, <4>4, <4>5
    <3>3. QED
      BY <3>1, <3>2
  <2>3. \A x \in Calls : pc'[x] # "idle" => \E i \in DOMAIN arrived'[Target[x]] : arrived'[Target[x]][i] = x
    <3> SUFFICES ASSUME NEW x \in Calls, pc'[x] # "idle"
                 PROVE  \E i \in DOMAIN arrived'[Target[x]] : arrived'[Target[x]][i] = x
      OBVIOUS
    <3>1. CASE x = r
      <4>1. n + 1 \in DOMAIN arrived'[k] /\ arrived'[k][n + 1] = r
        BY <1>1, <1>2
      <4>2. QED
        BY <3>1, <4>1 DEF k
    <3>2. CASE x # r
      <4>1. PICK i \in DOMAIN arrived[Target[x]] : arrived[Target[x]][i] = x
        BY <1>3, <3>2 DEF History
      <4>2. i \in DOMAIN arrived'[Target[x]] /\ arrived'[Target[x]][i] = x
        BY <1>1, <1>2, <4>1, TargetAssumption
      <4>3. QED
        BY <4>2
    <3>3. QED
      BY <3>1, <3>2
  <2>4. QED
    BY <2>1, <2>2, <2>3 DEF History
<1>7. LockIsLast'
  <2> SUFFICES ASSUME NEW l \in Keys
               PROVE  /\ locks'[l] = None => \A i \in DOMAIN arrived'[l] : pc'[arrived'[l][i]] = "settled"
                      /\ locks'[l] # None => Len(arrived'[l]) > 0 /\ locks'[l] = arrived'[l][Len(arrived'[l])]
    BY DEF LockIsLast
  <2>1. CASE l = k
    BY <1>1, <1>2, <1>3, <2>1, NoneAssumption
  <2>2. CASE l # k
    BY <1>2, <1>3, <1>4, <2>2 DEF LockIsLast
  <2>3. QED
    BY <2>1, <2>2
<1>8. Chained'
  <2> SUFFICES ASSUME NEW l \in Keys, NEW i \in DOMAIN arrived'[l]
               PROVE  \/ \A j \in 1 .. i - 1 : pc'[arrived'[l][j]] = "settled"
                      \/ i > 1 /\ previous'[arrived'[l][i]] = arrived'[l][i - 1]
    BY DEF Chained
  <2>1. CASE l = k /\ i = n + 1
    <3>1. CASE locks[k] = None
      <4>1. \A j \in 1 .. n : pc[arrived[k][j]] = "settled"
        BY <1>1, <3>1 DEF LockIsLast
      <4>2. \A j \in 1 .. n : pc'[arrived'[k][j]] = "settled"
        BY <1>1, <1>2, <1>4, <4>1
      <4>3. 1 .. i - 1 = 1 .. n
        BY <1>1, <2>1
      <4>4. QED
        BY <2>1, <4>2, <4>3
    <3>2. CASE locks[k] # None
      <4>1. n > 0 /\ locks[k] = arrived[k][n]
        BY <1>1, <3>2 DEF LockIsLast, n
      <4>2. previous'[r] = arrived'[k][n] /\ n + 1 > 1 /\ (n + 1) - 1 = n
        BY <1>1, <1>2, <1>3, <4>1
      <4>3. QED
        BY <1>2, <2>1, <4>2
    <3>3. QED
      BY <3>1, <3>2
  <2>2. CASE ~ (l = k /\ i = n + 1)
    <3>1. DOMAIN arrived[l] = 1 .. Len(arrived[l]) /\ Len(arrived[l]) \in Nat
      BY DEF TypeOK
    <3>2. i \in DOMAIN arrived[l] /\ i \in 1 .. Len(arrived[l])
      BY <1>1, <1>2, <2>2, <3>1
    <3>3. \A j \in 1 .. i : j \in DOMAIN arrived[l] /\ arrived'[l][j] = arrived[l][j]
      BY <1>1, <1>2, <3>1, <3>2
    <3>4. CASE \A j \in 1 .. i - 1 : pc[arrived[l][j]] = "settled"
      BY <1>4, <3>2, <3>3, <3>4
    <3>5. CASE i > 1 /\ previous[arrived[l][i]] = arrived[l][i - 1]
      <4>1. i \in 1 .. i /\ i - 1 \in 1 .. i
        BY <3>2, <3>5
      <4>2. previous'[arrived[l][i]] = previous[arrived[l][i]]
        BY <1>3, <1>4, <3>2
      <4>3. QED
        BY <3>3, <3>5, <4>1, <4>2
    <3>6. QED
      BY <3>2, <3>4, <3>5 DEF Chained
  <2>3. QED
    BY <2>1, <2>2
<1>9. Ordered'
  <2> SUFFICES ASSUME NEW l \in Keys, NEW i \in DOMAIN arrived'[l], NEW j \in DOMAIN arrived'[l],
                      i < j, pc'[arrived'[l][j]] \in {"running", "settled"}
               PROVE  pc'[arrived'[l][i]] = "settled"
    BY DEF Ordered
  <2>1. ~ (l = k /\ j = n + 1)
    BY <1>2, <1>3
  <2>2. DOMAIN arrived[l] = 1 .. Len(arrived[l]) /\ Len(arrived[l]) \in Nat
    BY DEF TypeOK
  <2>3. /\ j \in DOMAIN arrived[l] /\ arrived'[l][j] = arrived[l][j]
        /\ i \in DOMAIN arrived[l] /\ arrived'[l][i] = arrived[l][i]
    BY <1>1, <1>2, <2>1, <2>2
  <2>4. QED
    BY <1>4, <2>3 DEF Ordered
<1>10. CleanedAreSettled' /\ NoLockLeak'
  <2>1. ~ cleaned[r]
    BY <1>3 DEF CleanedAreSettled
  <2>2. QED
    BY <1>3, <2>1 DEF CleanedAreSettled, NoLockLeak
<1>11. QED
  BY <1>5, <1>6, <1>7, <1>8, <1>9, <1>10

\* What a call that is about to begin knows: every earlier call has settled.
LEMMA EarlierSettled ==
  ASSUME IInv, NEW r \in Calls, pc[r] = "queued", previous[r] # None => pc[previous[r]] = "settled",
         NEW k \in Keys, NEW i \in DOMAIN arrived[k], NEW j \in DOMAIN arrived[k],
         i < j, arrived[k][j] = r
  PROVE  pc[arrived[k][i]] = "settled"
<1> USE DEF IInv
<1>1. DOMAIN arrived[k] = 1 .. Len(arrived[k]) /\ Len(arrived[k]) \in Nat
  BY DEF TypeOK
<1>2. CASE \A m \in 1 .. j - 1 : pc[arrived[k][m]] = "settled"
  BY <1>1, <1>2
<1>3. CASE j > 1 /\ previous[r] = arrived[k][j - 1]
  <2>1. j - 1 \in DOMAIN arrived[k] /\ previous[r] \in Calls
    BY <1>1, <1>3 DEF TypeOK
  <2>2. pc[arrived[k][j - 1]] = "settled"
    BY <1>3, <2>1, NoneAssumption
  <2>3. CASE i = j - 1
    BY <2>2, <2>3
  <2>4. CASE i < j - 1
    BY <2>1, <2>2, <2>4 DEF Ordered
  <2>5. QED
    BY <1>1, <2>3, <2>4
<1>4. QED
  BY <1>2, <1>3 DEF Chained

\* A promise that settles or a task that begins: only pc[r] changes, to a
\* later stage, and the calls before r have settled.
LEMMA ProgressInvariant ==
  ASSUME IInv, NEW r \in Calls, NEW stage \in {"running", "settled"},
         pc[r] \in {"queued", "running"},
         pc' = [pc EXCEPT ![r] = stage],
         UNCHANGED <<locks, previous, aborted, cleaned, arrived>>,
         \A k \in Keys : \A i, j \in DOMAIN arrived[k] :
           i < j /\ arrived[k][j] = r => pc[arrived[k][i]] = "settled"
  PROVE  IInv'
<1> USE DEF IInv
<1>1. \A x \in Calls : pc'[x] = IF x = r THEN stage ELSE pc[x]
  BY DEF TypeOK
<1>2. \A k \in Keys : \A i \in DOMAIN arrived[k] : arrived[k][i] \in Calls
  BY DEF TypeOK
<1>3. \A k \in Keys : \A i \in DOMAIN arrived[k] :
        pc[arrived[k][i]] = "settled" => pc'[arrived[k][i]] = "settled"
  BY <1>1, <1>2
<1>4. TypeOK'
  BY DEF TypeOK, Stages
<1>5. History'
  BY <1>1, <1>2 DEF History
<1>6. LockIsLast'
  BY <1>3 DEF LockIsLast
<1>7. Chained'
  <2> SUFFICES ASSUME NEW k \in Keys, NEW i \in DOMAIN arrived[k]
               PROVE  \/ \A j \in 1 .. i - 1 : pc'[arrived[k][j]] = "settled"
                      \/ i > 1 /\ previous[arrived[k][i]] = arrived[k][i - 1]
    BY DEF Chained
  <2>1. \A j \in 1 .. i - 1 : j \in DOMAIN arrived[k]
    BY DEF TypeOK
  <2>2. QED
    BY <1>3, <2>1 DEF Chained
<1>8. Ordered'
  <2> SUFFICES ASSUME NEW k \in Keys, NEW i \in DOMAIN arrived[k], NEW j \in DOMAIN arrived[k],
                      i < j, pc'[arrived[k][j]] \in {"running", "settled"}
               PROVE  pc'[arrived[k][i]] = "settled"
    BY DEF Ordered
  <2>1. CASE arrived[k][j] = r
    BY <1>3, <2>1
  <2>2. CASE arrived[k][j] # r
    <3>1. pc[arrived[k][j]] \in {"running", "settled"}
      BY <1>1, <1>2, <2>2
    <3>2. QED
      BY <1>3, <3>1 DEF Ordered
  <2>3. QED
    BY <2>1, <2>2
<1>9. CleanedAreSettled' /\ NoLockLeak'
  BY <1>1 DEF CleanedAreSettled, NoLockLeak
<1>10. QED
  BY <1>4, <1>5, <1>6, <1>7, <1>8, <1>9

\* The turn of a call comes.
LEMMA BeginInvariant ==
  ASSUME IInv, NEW r \in Calls, Begin(r)
  PROVE  IInv'
<1> DEFINE stage == IF aborted[r] THEN "settled" ELSE "running"
<1>1. pc[r] = "queued" /\ (previous[r] # None => pc[previous[r]] = "settled")
  BY DEF Begin
<1>2. \A k \in Keys : \A i, j \in DOMAIN arrived[k] :
        i < j /\ arrived[k][j] = r => pc[arrived[k][i]] = "settled"
  BY <1>1, EarlierSettled
<1>3. stage \in {"running", "settled"} /\ pc' = [pc EXCEPT ![r] = stage]
      /\ UNCHANGED <<locks, previous, aborted, cleaned, arrived>>
  BY DEF Begin
<1>4. QED
  BY <1>1, <1>2, <1>3, ProgressInvariant

\* A task settles; the calls before it settled before it began.
LEMMA SettleInvariant ==
  ASSUME IInv, NEW r \in Calls, Settle(r)
  PROVE  IInv'
<1>1. \A k \in Keys : \A i, j \in DOMAIN arrived[k] :
        i < j /\ arrived[k][j] = r => pc[arrived[k][i]] = "settled"
  BY DEF Settle, IInv, Ordered
<1>2. QED
  BY <1>1, ProgressInvariant DEF Settle

\* The clean-up of the last call of a target finds every call settled.
LEMMA CleanUpInvariant ==
  ASSUME IInv, NEW r \in Calls, CleanUp(r)
  PROVE  IInv'
<1> DEFINE k == Target[r]
<1> USE DEF IInv
<1>1. k \in Keys
  BY TargetAssumption
<1>2. /\ \A l \in Keys : locks'[l] = IF l = k /\ locks[k] = r THEN None ELSE locks[l]
      /\ \A x \in Calls : cleaned'[x] = (x = r \/ cleaned[x])
      /\ UNCHANGED <<previous, pc, aborted, arrived>> /\ pc[r] = "settled"
  BY <1>1 DEF CleanUp, TypeOK
<1>3. TypeOK'
  BY <1>1 DEF CleanUp, TypeOK
<1>4. History' /\ Chained' /\ Ordered'
  BY <1>2 DEF History, Chained, Ordered
<1>5. LockIsLast'
  <2> SUFFICES ASSUME NEW l \in Keys
               PROVE  /\ locks'[l] = None => \A i \in DOMAIN arrived[l] : pc[arrived[l][i]] = "settled"
                      /\ locks'[l] # None => Len(arrived[l]) > 0 /\ locks'[l] = arrived[l][Len(arrived[l])]
    BY <1>2 DEF LockIsLast
  <2>1. CASE l = k /\ locks[k] = r
    <3>1. Len(arrived[l]) > 0 /\ r = arrived[l][Len(arrived[l])]
      BY <1>1, <2>1, NoneAssumption DEF LockIsLast
    <3>2. DOMAIN arrived[l] = 1 .. Len(arrived[l]) /\ Len(arrived[l]) \in Nat
      BY DEF TypeOK
    <3>3. ASSUME NEW i \in DOMAIN arrived[l] PROVE pc[arrived[l][i]] = "settled"
      <4>1. CASE i = Len(arrived[l])
        BY <1>2, <3>1, <4>1
      <4>2. CASE i < Len(arrived[l])
        BY <1>2, <3>1, <3>2, <4>2 DEF Ordered
      <4>3. QED
        BY <3>2, <4>1, <4>2
    <3>4. QED
      BY <1>2, <2>1, <3>3
  <2>2. CASE ~ (l = k /\ locks[k] = r)
    BY <1>2, <2>2 DEF LockIsLast
  <2>3. QED
    BY <2>1, <2>2
<1>6. CleanedAreSettled'
  BY <1>2 DEF CleanedAreSettled
<1>7. NoLockLeak'
  <2> SUFFICES ASSUME NEW l \in Keys, locks'[l] # None PROVE ~ cleaned'[locks'[l]]
    BY DEF NoLockLeak
  <2>1. locks'[l] = locks[l] /\ locks[l] # None /\ locks[l] \in Calls
    BY <1>2 DEF TypeOK
  <2>2. locks[l] # r
    <3>1. Len(arrived[l]) > 0 /\ locks[l] = arrived[l][Len(arrived[l])]
      BY <2>1 DEF LockIsLast
    <3>2. Len(arrived[l]) \in DOMAIN arrived[l]
      BY <3>1 DEF TypeOK
    <3>3. Target[locks[l]] = l
      BY <3>1, <3>2 DEF History
    <3>4. QED
      BY <1>2, <2>1, <3>3
  <2>3. QED
    BY <1>2, <2>1, <2>2 DEF NoLockLeak
<1>8. QED
  BY <1>3, <1>4, <1>5, <1>6, <1>7

------------------------------------------------------------------------------
\* Every step keeps the invariant.
LEMMA NextInvariant == IInv /\ [Next]_vars => IInv'
<1> SUFFICES ASSUME IInv, [Next]_vars PROVE IInv'
  OBVIOUS
<1>1. CASE UNCHANGED vars
  BY <1>1 DEF IInv, TypeOK, History, LockIsLast, Chained, Ordered, CleanedAreSettled, NoLockLeak, vars
<1>2. ASSUME NEW r \in Calls, Abort(r) PROVE IInv'
  <2>1. TypeOK'
    BY <1>2 DEF Abort, IInv, TypeOK
  <2>2. QED
    BY <1>2, <2>1 DEF Abort, IInv, History, LockIsLast, Chained, Ordered, CleanedAreSettled, NoLockLeak
<1>3. QED
  BY <1>1, <1>2, CallInvariant, BeginInvariant, SettleInvariant, CleanUpInvariant DEF Next

\* The inductive invariant holds in every reachable state.
THEOREM TargetLocksInvariant == Spec => []IInv
<1>1. QED
  BY InitInvariant, NextInvariant, PTL DEF Spec

\* Two tasks of one target never run at the same time, for any set of calls.
THEOREM TargetLocksMutualExclusion == Spec => []MutualExclusion
<1>1. ASSUME IInv PROVE MutualExclusion
  <2> SUFFICES ASSUME NEW r \in Calls, NEW s \in Calls,
                      pc[r] = "running", pc[s] = "running", Target[r] = Target[s]
               PROVE  r = s
    BY DEF MutualExclusion
  <2> DEFINE line == arrived[Target[r]]
  <2>1. Target[r] \in Keys /\ DOMAIN line = 1 .. Len(line) /\ Len(line) \in Nat
    BY <1>1, TargetAssumption DEF IInv, TypeOK
  <2>2. PICK i \in DOMAIN line : line[i] = r
    BY <1>1 DEF IInv, History
  <2>3. PICK j \in DOMAIN line : line[j] = s
    BY <1>1 DEF IInv, History
  <2>4. ~ (i < j) /\ ~ (j < i)
    BY <1>1, <2>1, <2>2, <2>3 DEF IInv, Ordered
  <2>5. QED
    BY <2>1, <2>2, <2>3, <2>4
<1>2. QED
  BY <1>1, TargetLocksInvariant, PTL

\* Type correctness of the promise chain, for any targets and calls.
THEOREM TargetLocksTypeOK == Spec => []TypeOK
<1>1. IInv => TypeOK
  BY DEF IInv
<1>2. QED
  BY <1>1, TargetLocksInvariant, PTL

\* No target keeps a lock after its last call was cleaned up.
THEOREM TargetLocksNoLockLeak == Spec => []NoLockLeak
<1>1. IInv => NoLockLeak
  BY DEF IInv
<1>2. QED
  BY <1>1, TargetLocksInvariant, PTL

\* The promise chain of runTargetSerial implements the abstract serial lock.
THEOREM TargetLocksImplementsSerialQueue == Spec => SerialSpec
<1>1. Init => Serial!Init
  BY DEF Init, Serial!Init
<1>2. ASSUME IInv, [Next]_vars PROVE [Serial!Next]_(Serial!sqVars)
  <2>1. ASSUME NEW r \in Calls, Call(r) PROVE Serial!Call(r)
    BY <2>1 DEF Call, Serial!Call
  <2>2. ASSUME NEW r \in Calls, Begin(r) PROVE Serial!Turn(r)
    <3>1. pc[r] = "queued" /\ UNCHANGED arrived /\ Target[r] \in Keys
      BY <2>2, TargetAssumption DEF Begin
    <3>2. \A i, j \in DOMAIN arrived[Target[r]] :
            i < j /\ arrived[Target[r]][j] = r => pc[arrived[Target[r]][i]] = "settled"
      BY <1>2, <2>2, <3>1, EarlierSettled DEF Begin
    <3>3. \/ pc' = [pc EXCEPT ![r] = "running"]
          \/ pc' = [pc EXCEPT ![r] = "settled"]
      BY <2>2 DEF Begin
    <3>4. QED
      BY <3>1, <3>2, <3>3 DEF Serial!Turn, Serial!Enter
  <2>3. ASSUME NEW r \in Calls, Settle(r) PROVE Serial!Leave(r)
    BY <2>3 DEF Settle, Serial!Leave
  <2>4. ASSUME NEW r \in Calls, CleanUp(r) \/ Abort(r) PROVE UNCHANGED Serial!sqVars
    BY <2>4 DEF CleanUp, Abort, Serial!sqVars
  <2>5. CASE UNCHANGED vars
    BY <2>5 DEF vars, Serial!sqVars
  <2>6. QED
    BY <1>2, <2>1, <2>2, <2>3, <2>4, <2>5 DEF Next, Serial!Next
<1>3. QED
  BY <1>1, <1>2, TargetLocksInvariant, PTL DEF Spec, SerialSpec, Serial!Spec
==============================================================================
