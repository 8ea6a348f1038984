--------------------------- MODULE TaskCyclesProofs ---------------------------
(***************************************************************************)
(* For any targets, limit and TTL: what the cache of outcomes answers is   *)
(* current, and what it forgets it had to.  The methods of the class are   *)
(* lemmas about sequences first: each of them leaves the entries that stay *)
(* in their order (Thins).                                                 *)
(***************************************************************************)
EXTENDS TaskCycles, SequenceTheorems, FiniteSetTheorems, TLAPS

\* t is s without some of its elements.
Thins(t, s) ==
  /\ \A i \in DOMAIN t : \E p \in DOMAIN s : t[i] = s[p]
  /\ \A i, j \in DOMAIN t : i < j => \E p, q \in DOMAIN s : p < q /\ t[i] = s[p] /\ t[j] = s[q]

\* At most one entry per id, as in a Map.
Distinct(s) == \A i, j \in DOMAIN s : s[i].id = s[j].id => i = j

\* Removing an element keeps the order of the others.
LEMMA RemoveLemma ==
  ASSUME NEW S, NEW s \in Seq(S), NEW k \in DOMAIN s
  PROVE  LET t == RemoveAt(s, k)
         IN /\ t \in Seq(S) /\ Len(t) = Len(s) - 1 /\ DOMAIN t = 1 .. Len(s) - 1
            /\ \A i \in DOMAIN t : t[i] = s[IF i < k THEN i ELSE i + 1]
<1> DEFINE n == Len(s)
<1> DEFINE a == SubSeq(s, 1, k - 1)
<1> DEFINE b == SubSeq(s, k + 1, n)
<1>1. n \in Nat /\ k \in 1 .. n /\ DOMAIN s = 1 .. n /\ \A i \in 1 .. n : s[i] \in S
  BY LenProperties, ElementOfSeq
<1> HIDE DEF n
<1>2. a \in Seq(S) /\ Len(a) = k - 1 /\ \A i \in 1 .. k - 1 : a[i] = s[i]
  BY <1>1, SubSeqProperties
<1>3. b \in Seq(S) /\ Len(b) = n - k /\ \A i \in 1 .. n - k : b[i] = s[i + k]
  BY <1>1, SubSeqProperties
<1> HIDE DEF a, b
<1>4. a \o b \in Seq(S) /\ Len(a \o b) = n - 1
      /\ \A i \in 1 .. n - 1 : (a \o b)[i] = IF i <= k - 1 THEN a[i] ELSE b[i - (k - 1)]
  BY <1>1, <1>2, <1>3, ConcatProperties
<1>5. ASSUME NEW i \in 1 .. n - 1 PROVE (a \o b)[i] = s[IF i < k THEN i ELSE i + 1]
  <2>1. CASE i < k
    BY <1>1, <1>2, <1>4, <2>1
  <2>2. CASE ~(i < k)
    <3>1. i - (k - 1) \in 1 .. n - k /\ (i - (k - 1)) + k = i + 1
      BY <1>1, <2>2
    <3>2. (a \o b)[i] = b[i - (k - 1)]
      BY <1>1, <1>4, <2>2
    <3>3. QED
      BY <1>3, <2>2, <3>1, <3>2
  <2>3. QED
    BY <2>1, <2>2
<1>6. RemoveAt(s, k) = a \o b
  BY DEF RemoveAt, a, b, n
<1>7. QED
  BY <1>1, <1>4, <1>5, <1>6, LenProperties DEF n

\* Map.delete: the entry of id is gone, and the others are there.
LEMMA WithoutLemma ==
  ASSUME NEW S, NEW s \in Seq(S), NEW id, Distinct(s)
  PROVE  LET t == Without(s, id)
         IN /\ t \in Seq(S) /\ Len(t) <= Len(s) /\ Thins(t, s)
            /\ \A i \in DOMAIN t : t[i].id # id
            /\ \A p \in DOMAIN s : s[p].id # id => \E i \in DOMAIN t : t[i] = s[p]
<1>0. Len(s) \in Nat /\ DOMAIN s = 1 .. Len(s)
  BY LenProperties
<1>1. CASE \E i \in DOMAIN s : s[i].id = id
  <2> DEFINE k == CHOOSE i \in DOMAIN s : s[i].id = id
  <2> DEFINE t == RemoveAt(s, k)
  <2>1. k \in DOMAIN s /\ s[k].id = id
    BY <1>1
  <2> HIDE DEF k
  <2>2. /\ t \in Seq(S) /\ Len(t) = Len(s) - 1 /\ DOMAIN t = 1 .. Len(s) - 1
        /\ \A i \in DOMAIN t : t[i] = s[IF i < k THEN i ELSE i + 1]
    BY <2>1, RemoveLemma
  <2> HIDE DEF t
  <2>3. Thins(t, s)
    <3>1. ASSUME NEW i \in DOMAIN t PROVE \E p \in DOMAIN s : t[i] = s[p]
      BY <1>0, <2>1, <2>2
    <3>2. ASSUME NEW i \in DOMAIN t, NEW j \in DOMAIN t, i < j
          PROVE  \E p, q \in DOMAIN s : p < q /\ t[i] = s[p] /\ t[j] = s[q]
      <4> DEFINE p == IF i < k THEN i ELSE i + 1
      <4> DEFINE q == IF j < k THEN j ELSE j + 1
      <4>1. p \in DOMAIN s /\ q \in DOMAIN s /\ p < q
        BY <1>0, <2>1, <2>2, <3>2
      <4>2. t[i] = s[p] /\ t[j] = s[q]
        BY <2>2
      <4>3. QED
        BY <4>1, <4>2
    <3>3. QED
      BY <3>1, <3>2 DEF Thins
  <2>4. ASSUME NEW i \in DOMAIN t PROVE t[i].id # id
    <3> DEFINE p == IF i < k THEN i ELSE i + 1
    <3>1. p \in DOMAIN s /\ p # k
      BY <1>0, <2>1, <2>2
    <3>2. t[i] = s[p]
      BY <2>2
    <3>3. QED
      BY <2>1, <3>1, <3>2 DEF Distinct
  <2>5. ASSUME NEW p \in DOMAIN s, s[p].id # id PROVE \E i \in DOMAIN t : t[i] = s[p]
    <3>1. p # k
      BY <2>1, <2>5
    <3>2. CASE p < k
      BY <1>0, <2>1, <2>2, <3>2
    <3>3. CASE p > k
      <4>1. p - 1 \in DOMAIN t /\ ~(p - 1 < k) /\ (p - 1) + 1 = p
        BY <1>0, <2>1, <2>2, <3>3
      <4>2. QED
        BY <2>2, <4>1
    <3>4. QED
      BY <1>0, <2>1, <3>1, <3>2, <3>3
  <2>6. Without(s, id) = t
    BY <1>1 DEF Without, t, k
  <2>7. QED
    BY <1>0, <2>2, <2>3, <2>4, <2>5, <2>6
<1>2. CASE ~\E i \in DOMAIN s : s[i].id = id
  <2>1. Without(s, id) = s
    BY <1>2 DEF Without
  <2>2. Thins(s, s)
    BY DEF Thins
  <2>3. QED
    BY <1>0, <1>2, <2>1, <2>2
<1>3. QED
  BY <1>1, <1>2

\* What stays keeps its ids apart.
LEMMA ThinsDistinct ==
  ASSUME NEW S, NEW s \in Seq(S), NEW t \in Seq(S), Thins(t, s), Distinct(s)
  PROVE  Distinct(t)
<1> SUFFICES ASSUME NEW i \in DOMAIN t, NEW j \in DOMAIN t, i < j, t[i].id = t[j].id
             PROVE  FALSE
  BY LenProperties DEF Distinct
<1>1. PICK p, q \in DOMAIN s : p < q /\ t[i] = s[p] /\ t[j] = s[q]
  BY DEF Thins
<1>2. p = q
  BY <1>1 DEF Distinct
<1>3. QED
  BY <1>1, <1>2, LenProperties

\* prune(): the newest MaxEntries entries stay.
LEMMA PruneLemma ==
  ASSUME NEW S, NEW s \in Seq(S), Len(s) <= MaxEntries + 1
  PROVE  LET t == Prune(s)
         IN /\ t \in Seq(S) /\ Len(t) <= MaxEntries /\ Thins(t, s)
            /\ \A p \in DOMAIN s : p > 1 => \E i \in DOMAIN t : t[i] = s[p]
            /\ Len(s) <= MaxEntries => t = s
<1> DEFINE n == Len(s)
<1> DEFINE m == IF n > MaxEntries THEN n - MaxEntries + 1 ELSE 1
<1> DEFINE t == SubSeq(s, m, n)
<1>1. n \in Nat /\ DOMAIN s = 1 .. n /\ \A i \in 1 .. n : s[i] \in S
  BY LenProperties, ElementOfSeq
<1>2. MaxEntries \in Nat \ {0}
  BY BoundsAssumption
<1>3. Prune(s) = t /\ n <= MaxEntries + 1
  BY DEF Prune
<1> HIDE DEF n
<1>4. m \in {1, 2} /\ (n <= MaxEntries => m = 1) /\ (n > MaxEntries => m = 2 /\ n = MaxEntries + 1)
  BY <1>1, <1>2, <1>3
<1> HIDE DEF m
<1>5. /\ t \in Seq(S) /\ Len(t) = (IF m <= n THEN n - m + 1 ELSE 0)
      /\ \A i \in 1 .. n - m + 1 : t[i] = s[m + i - 1]
  BY <1>1, <1>4, SubSeqProperties
<1> HIDE DEF t
<1>6. DOMAIN t = 1 .. n - m + 1 /\ Len(t) <= MaxEntries
  BY <1>1, <1>2, <1>4, <1>5, LenProperties
<1>7. Thins(t, s)
  <2>1. ASSUME NEW i \in DOMAIN t PROVE m + i - 1 \in DOMAIN s /\ t[i] = s[m + i - 1]
    BY <1>1, <1>4, <1>5, <1>6
  <2>2. ASSUME NEW i \in DOMAIN t, NEW j \in DOMAIN t, i < j PROVE m + i - 1 < m + j - 1
    BY <1>1, <1>4, <1>6, <2>2
  <2>3. QED
    BY <2>1, <2>2 DEF Thins
<1>8. ASSUME NEW p \in DOMAIN s, p > 1 PROVE \E i \in DOMAIN t : t[i] = s[p]
  <2>1. p - m + 1 \in DOMAIN t /\ m + (p - m + 1) - 1 = p
    BY <1>1, <1>4, <1>6, <1>8
  <2>2. t[p - m + 1] = s[p]
    BY <1>5, <1>6, <2>1
  <2>3. QED
    BY <2>1, <2>2
<1>9. n <= MaxEntries => t = s
  <2> SUFFICES ASSUME n <= MaxEntries PROVE t = s
    OBVIOUS
  <2>1. m = 1
    BY <1>4
  <2>2. Len(t) = n
    BY <1>1, <1>5, <2>1
  <2>3. \A i \in 1 .. n : t[i] = s[i]
    BY <1>1, <1>5, <2>1
  <2>4. QED
    BY <1>5, <2>2, <2>3, SeqEqual DEF n
<1>10. QED
  BY <1>3, <1>5, <1>6, <1>7, <1>8, <1>9 DEF n

\* Map.set: the entry of an id that is present keeps its place ...
LEMMA PutPresent ==
  ASSUME NEW S, NEW s \in Seq(S), NEW e \in S, \E i \in DOMAIN s : s[i].id = e.id
  PROVE  LET t == Put(s, e)
         IN /\ t \in Seq(S) /\ Len(t) = Len(s) /\ DOMAIN t = DOMAIN s
            /\ \A i \in DOMAIN s : t[i] = IF s[i].id = e.id THEN e ELSE s[i]
<1>1. Len(s) \in Nat /\ DOMAIN s = 1 .. Len(s) /\ \A i \in 1 .. Len(s) : s[i] \in S
  BY LenProperties, ElementOfSeq
<1> DEFINE t == [i \in 1 .. Len(s) |-> IF s[i].id = e.id THEN e ELSE s[i]]
<1>2. Put(s, e) = t
  BY <1>1 DEF Put, Range
<1>3. t \in Seq(S)
  BY <1>1
<1>4. Len(t) = Len(s) /\ DOMAIN t = 1 .. Len(s)
  BY <1>1, <1>3
<1>5. QED
  BY <1>1, <1>2, <1>3, <1>4

\* ... and that of another comes last.
LEMMA PutAbsent ==
  ASSUME NEW S, NEW s \in Seq(S), NEW e \in S, ~\E i \in DOMAIN s : s[i].id = e.id
  PROVE  LET t == Put(s, e)
         IN /\ t \in Seq(S) /\ Len(t) = Len(s) + 1 /\ DOMAIN t = 1 .. Len(s) + 1
            /\ t[Len(s) + 1] = e /\ \A i \in DOMAIN s : t[i] = s[i]
<1>1. Put(s, e) = Append(s, e)
  BY DEF Put, Range
<1>2. Len(s) \in Nat /\ DOMAIN s = 1 .. Len(s)
  BY LenProperties
<1>3. QED
  BY <1>1, <1>2

\* n different members make a set of at least n.
LEMMA AtLeast ==
  ASSUME NEW T, IsFiniteSet(T), NEW n \in Nat, NEW f \in [1 .. n -> T],
         \A i, j \in 1 .. n : f[i] = f[j] => i = j
  PROVE  Cardinality(T) >= n
<1>1. f \in Injection(1 .. n, T)
  BY DEF Injection, IsInjective
<1>2. Cardinality(1 .. n) = n /\ IsFiniteSet(1 .. n)
  BY FS_Interval
<1>3. Cardinality(T) \in Nat
  BY FS_CardinalityType
<1>4. QED
  BY <1>1, <1>2, <1>3, FS_Injection

------------------------------------------------------------------------------
Record == [id : Ids, outcome : Outcomes, generation : Nat, expiresAt : Nat]
Given == [outcome : Outcomes, at : 0 .. MaxNow]

Objects ==
  [generations : [Ids -> 0 .. MaxGeneration],
   pending : [Ids -> [generation : Nat, payload : Nat, persistent : BOOLEAN] \cup {None}],
   cache : Seq(Record)]

Shape ==
  /\ cycles \in Objects
  /\ now \in 0 .. MaxNow
  /\ given \in [Ids -> Given \cup {None}]
  /\ ahead \in [Ids -> SUBSET Ids]

PendingIsKnown ==
  \A id \in Ids : HasPending(cycles, id) => cycles.pending[id].generation \in Known(id)

\* An entry is what was given last, and its cycle is the current one.
IsCurrent(e) ==
  /\ e.generation = Generation(cycles, e.id)
  /\ given[e.id] # None
  /\ e.outcome = given[e.id].outcome /\ e.expiresAt = given[e.id].at + Ttl

EntriesAreCurrent == \A i \in DOMAIN cycles.cache : IsCurrent(cycles.cache[i])

\* Entries are in the order in which their ids entered the cache.
InOrder ==
  \A i, j \in DOMAIN cycles.cache : i < j => cycles.cache[j].id \in ahead[cycles.cache[i].id]

Holds(id) == \E i \in DOMAIN cycles.cache : cycles.cache[i].id = id

\* What is not in the cache any more had its time, or made place for others.
Excused(id) == now >= given[id].at + Ttl \/ Cardinality(ahead[id]) >= MaxEntries

ForgottenIsExcused == \A id \in Ids : given[id] # None => Holds(id) \/ Excused(id)

CacheInv ==
  /\ Distinct(cycles.cache) /\ Len(cycles.cache) <= MaxEntries
  /\ EntriesAreCurrent /\ InOrder

\* The inductive invariant.
IInv == Shape /\ PendingIsKnown /\ CacheInv /\ ForgottenIsExcused

\* The cache as a sequence.
LEMMA CacheLemma ==
  ASSUME Shape
  PROVE  /\ cycles.cache \in Seq(Record)
         /\ Len(cycles.cache) \in Nat /\ DOMAIN cycles.cache = 1 .. Len(cycles.cache)
         /\ \A i \in DOMAIN cycles.cache : cycles.cache[i] \in Record
<1>1. cycles.cache \in Seq(Record)
  BY DEF Shape, Objects
<1>2. QED
  BY <1>1, LenProperties, ElementOfSeq

\* Who entered the cache later only grows in number.
LEMMA ExcusedStays ==
  ASSUME Shape, Shape', NEW id \in Ids, given'[id] = given[id], ahead[id] \subseteq ahead'[id],
         now' >= now, given[id] # None, Excused(id)
  PROVE  Excused(id)'
<1>1. given[id].at \in Nat /\ now \in Nat /\ now' \in Nat /\ Ttl \in Nat /\ MaxEntries \in Nat
  BY BoundsAssumption DEF Shape, Given
<1>2. CASE now >= given[id].at + Ttl
  BY <1>1, <1>2 DEF Excused
<1>3. CASE Cardinality(ahead[id]) >= MaxEntries
  <2>1. ahead'[id] \subseteq Ids
    BY DEF Shape
  <2>2. IsFiniteSet(ahead'[id])
    BY <2>1, IdsAssumption, FS_Subset
  <2>3. IsFiniteSet(ahead[id]) /\ Cardinality(ahead[id]) <= Cardinality(ahead'[id])
    BY <2>2, FS_Subset
  <2>4. Cardinality(ahead[id]) \in Nat /\ Cardinality(ahead'[id]) \in Nat
    BY <2>2, <2>3, FS_CardinalityType
  <2>5. QED
    BY <1>1, <1>3, <2>3, <2>4 DEF Excused
<1>4. QED
  BY <1>2, <1>3 DEF Excused

\* A step that takes entries away, and leaves what the others stand for alone.
LEMMA ThinningStep ==
  ASSUME Shape, CacheInv, Shape', Thins(cycles'.cache, cycles.cache),
         Len(cycles'.cache) <= Len(cycles.cache),
         \A i \in DOMAIN cycles'.cache :
           LET id == cycles'.cache[i].id
           IN /\ cycles'.generations[id] = cycles.generations[id] /\ given'[id] = given[id]
              /\ ahead[id] \subseteq ahead'[id]
  PROVE  CacheInv'
<1>1. /\ cycles.cache \in Seq(Record) /\ cycles'.cache \in Seq(Record)
      /\ Len(cycles.cache) \in Nat /\ Len(cycles'.cache) \in Nat /\ MaxEntries \in Nat
  BY CacheLemma, BoundsAssumption DEF Shape, Objects
<1>2. Distinct(cycles'.cache)
  BY <1>1, ThinsDistinct DEF CacheInv
<1>3. EntriesAreCurrent'
  BY DEF CacheInv, EntriesAreCurrent, IsCurrent, Thins, Generation
<1>4. InOrder'
  <2> SUFFICES ASSUME NEW i \in DOMAIN cycles'.cache, NEW j \in DOMAIN cycles'.cache, i < j
               PROVE  cycles'.cache[j].id \in ahead'[cycles'.cache[i].id]
    BY DEF InOrder
  <2>1. PICK p, q \in DOMAIN cycles.cache :
          p < q /\ cycles'.cache[i] = cycles.cache[p] /\ cycles'.cache[j] = cycles.cache[q]
    BY DEF Thins
  <2>2. cycles'.cache[j].id \in ahead[cycles'.cache[i].id]
    BY <2>1 DEF CacheInv, InOrder
  <2>3. QED
    BY <2>2
<1>5. QED
  BY <1>1, <1>2, <1>3, <1>4 DEF CacheInv

\* An entry that is not touched is still there.
LEMMA ForgottenStep ==
  ASSUME Shape, Shape', ForgottenIsExcused, now' >= now,
         NEW id \in Ids, given'[id] = given[id], ahead[id] \subseteq ahead'[id],
         given'[id] # None,
         Holds(id) => Holds(id)' \/ Excused(id)
  PROVE  Holds(id)' \/ Excused(id)'
BY ExcusedStays DEF ForgottenIsExcused

\* What the methods leave, field by field.
LEMMA FieldsLemma ==
  ASSUME NEW c \in Objects, NEW id \in Ids
  PROVE  /\ \A s \in Seq(Record) :
              LET d == [c EXCEPT !.cache = s]
              IN d \in Objects /\ d.cache = s /\ d.generations = c.generations /\ d.pending = c.pending
         /\ LET d == [c EXCEPT !.pending[id] = None]
            IN /\ d \in Objects /\ d.cache = c.cache /\ d.generations = c.generations
               /\ d.pending = [c.pending EXCEPT ![id] = None]
BY DEF Objects

\* begin(id)
LEMMA BeginStep ==
  ASSUME IInv, NEW id \in Ids, CallBegin(id)
  PROVE  IInv'
<1> DEFINE b == [cycles EXCEPT !.generations[id] = @ + 1]
<1>1. /\ b \in Objects /\ b.cache = cycles.cache /\ b.pending = cycles.pending
      /\ b.generations = [cycles.generations EXCEPT ![id] = @ + 1]
  <2> DEFINE g == [cycles.generations EXCEPT ![id] = @ + 1]
  <2>1. cycles \in Objects /\ cycles.generations[id] < MaxGeneration
    BY DEF CallBegin, IInv, Shape, Generation
  <2>2. g \in [Ids -> 0 .. MaxGeneration]
    BY <2>1, BoundsAssumption DEF Objects
  <2>3. b = [cycles EXCEPT !.generations = g]
    OBVIOUS
  <2> HIDE DEF g, b
  <2>4. b \in Objects /\ b.cache = cycles.cache /\ b.pending = cycles.pending /\ b.generations = g
    BY <2>1, <2>2, <2>3 DEF Objects
  <2>5. QED
    BY <2>4 DEF g
<1>2. /\ cycles' = [b EXCEPT !.cache = Without(cycles.cache, id)]
      /\ given' = [given EXCEPT ![id] = None] /\ UNCHANGED <<now, ahead>>
  BY DEF CallBegin, Begin
<1> HIDE DEF b
<1>3. /\ cycles.cache \in Seq(Record) /\ Distinct(cycles.cache)
      /\ \A i \in DOMAIN cycles.cache : cycles.cache[i] \in Record
  BY CacheLemma DEF IInv, CacheInv
<1> DEFINE s == cycles.cache
<1> DEFINE t == Without(s, id)
<1>4. /\ t \in Seq(Record) /\ Len(t) <= Len(cycles.cache) /\ Thins(t, cycles.cache)
      /\ \A i \in DOMAIN t : t[i].id # id /\ t[i].id \in Ids
      /\ \A p \in DOMAIN cycles.cache : cycles.cache[p].id # id => \E i \in DOMAIN t : t[i] = cycles.cache[p]
  <2>1. /\ t \in Seq(Record) /\ Len(t) <= Len(cycles.cache) /\ Thins(t, cycles.cache)
        /\ \A i \in DOMAIN t : t[i].id # id
        /\ \A p \in DOMAIN cycles.cache : cycles.cache[p].id # id => \E i \in DOMAIN t : t[i] = cycles.cache[p]
    <3> HIDE DEF s
    <3>1. s \in Seq(Record) /\ Distinct(s)
      BY <1>3 DEF s
    <3>2. /\ t \in Seq(Record) /\ Len(t) <= Len(s) /\ Thins(t, s)
          /\ \A i \in DOMAIN t : t[i].id # id
          /\ \A p \in DOMAIN s : s[p].id # id => \E i \in DOMAIN t : t[i] = s[p]
      BY <3>1, WithoutLemma
    <3>3. QED
      BY <3>2 DEF s
  <2>2. \A i \in DOMAIN t : t[i] \in Record
    BY <2>1, LenProperties, ElementOfSeq
  <2>3. QED
    BY <2>1, <2>2 DEF Record
<1> HIDE DEF t
<1>5. cycles' \in Objects /\ cycles'.cache = t /\ cycles'.pending = cycles.pending
      /\ cycles'.generations = [cycles.generations EXCEPT ![id] = @ + 1]
  BY <1>1, <1>2, <1>4, FieldsLemma DEF t
<1>6. Shape'
  BY <1>2, <1>5 DEF IInv, Shape
<1>7. PendingIsKnown'
  BY <1>5, BoundsAssumption DEF IInv, Shape, Objects, PendingIsKnown, HasPending, Known, Generation
<1>8. CacheInv'
  <2>1. ASSUME NEW i \in DOMAIN t
        PROVE  /\ cycles'.generations[t[i].id] = cycles.generations[t[i].id]
               /\ given'[t[i].id] = given[t[i].id] /\ ahead'[t[i].id] = ahead[t[i].id]
    BY <1>2, <1>4, <1>5 DEF IInv, Shape, Objects
  <2>2. QED
    BY <1>4, <1>5, <1>6, <2>1, ThinningStep DEF IInv
<1>9. ForgottenIsExcused'
  <2> SUFFICES ASSUME NEW j \in Ids, given'[j] # None PROVE Holds(j)' \/ Excused(j)'
    BY DEF ForgottenIsExcused
  <2>1. j # id /\ given'[j] = given[j]
    BY <1>2 DEF IInv, Shape
  <2>2. Holds(j) => Holds(j)'
    BY <1>4, <1>5, <2>1 DEF Holds
  <2>3. now' >= now
    BY <1>2 DEF IInv, Shape
  <2>4. QED
    BY <1>2, <1>6, <2>1, <2>2, <2>3, ForgottenStep DEF IInv
<1>10. QED
  BY <1>6, <1>7, <1>8, <1>9 DEF IInv

\* A step that changes neither the cache, nor generations and history.
LEMMA CacheUnchanged ==
  ASSUME IInv, Shape', PendingIsKnown', cycles'.cache = cycles.cache,
         cycles'.generations = cycles.generations, UNCHANGED <<given, ahead>>, now' >= now
  PROVE  IInv'
<1>1. Thins(cycles.cache, cycles.cache) /\ Len(cycles.cache) \in Nat
  BY CacheLemma DEF Thins, IInv
<1>2. CacheInv'
  BY <1>1, ThinningStep DEF IInv
<1>3. ForgottenIsExcused'
  BY ForgottenStep DEF IInv, ForgottenIsExcused, Holds
<1>4. QED
  BY <1>2, <1>3 DEF IInv

\* setPending(id, g)
LEMMA SetPendingStep ==
  ASSUME IInv, NEW id \in Ids, NEW g \in Known(id), CallSetPending(id, g)
  PROVE  IInv'
<1> DEFINE e == [generation |-> g, payload |-> g, persistent |-> TRUE]
<1> DEFINE p == [cycles.pending EXCEPT ![id] = e]
<1>1. cycles \in Objects /\ now \in Nat /\ UNCHANGED <<now, given, ahead>>
  BY DEF IInv, Shape, CallSetPending
<1>2. g \in Nat /\ p \in [Ids -> [generation : Nat, payload : Nat, persistent : BOOLEAN] \cup {None}]
  BY <1>1 DEF Known, Generation, Objects
<1>3. cycles' = [cycles EXCEPT !.pending = p]
  BY DEF CallSetPending, SetPending
<1>4. \A j \in Ids : p[j] = IF j = id THEN e ELSE cycles.pending[j]
  BY <1>1 DEF Objects
<1>5. e.generation = g
  OBVIOUS
<1> HIDE DEF p, e
<1>6. cycles' \in Objects /\ cycles'.cache = cycles.cache /\ cycles'.generations = cycles.generations
      /\ cycles'.pending = p
  BY <1>1, <1>2, <1>3 DEF Objects
<1>7. Shape'
  BY <1>1, <1>6 DEF IInv, Shape
<1>8. PendingIsKnown'
  BY <1>4, <1>5, <1>6 DEF IInv, PendingIsKnown, HasPending, Known, Generation
<1>9. now' >= now
  BY <1>1
<1>10. QED
  BY <1>1, <1>6, <1>7, <1>8, <1>9, CacheUnchanged

\* An entry that is deleted leaves the others pending.
LEMMA ForgetPending ==
  ASSUME Shape, PendingIsKnown, NEW id \in Ids
  PROVE  LET d == [cycles EXCEPT !.pending[id] = None]
         IN /\ d \in Objects /\ d.cache = cycles.cache /\ d.generations = cycles.generations
            /\ \A j \in Ids : d.pending[j] # None =>
                 d.pending[j] = cycles.pending[j] /\ d.pending[j].generation \in Known(j)
<1> DEFINE d == [cycles EXCEPT !.pending[id] = None]
<1>1. cycles \in Objects
  BY DEF Shape
<1>2. /\ d \in Objects /\ d.cache = cycles.cache /\ d.generations = cycles.generations
      /\ d.pending = [cycles.pending EXCEPT ![id] = None]
  BY <1>1, FieldsLemma
<1> HIDE DEF d
<1>3. ASSUME NEW j \in Ids, d.pending[j] # None
      PROVE  d.pending[j] = cycles.pending[j] /\ d.pending[j].generation \in Known(j)
  <2>1. d.pending[j] = cycles.pending[j]
    BY <1>1, <1>2, <1>3 DEF Objects
  <2>2. QED
    BY <1>3, <2>1 DEF PendingIsKnown, HasPending
<1>4. QED
  BY <1>2, <1>3 DEF d

\* cancelPending(id)
LEMMA CancelPendingStep ==
  ASSUME IInv, NEW id \in Ids, CallCancelPending(id)
  PROVE  IInv'
<1>1. UNCHANGED <<now, given, ahead>> /\ cycles' = [cycles EXCEPT !.pending[id] = None]
  BY DEF CallCancelPending, CancelPending
<1>2. /\ cycles' \in Objects /\ cycles'.cache = cycles.cache /\ cycles'.generations = cycles.generations
      /\ \A j \in Ids : cycles'.pending[j] # None => cycles'.pending[j].generation \in Known(j)
  BY <1>1, ForgetPending DEF IInv
<1>3. Shape' /\ now' >= now
  BY <1>1, <1>2 DEF IInv, Shape
<1>4. PendingIsKnown'
  BY <1>2 DEF PendingIsKnown, HasPending, Known, Generation
<1>5. QED
  BY <1>1, <1>2, <1>3, <1>4, CacheUnchanged

\* Time passes.
LEMMA TickStep ==
  ASSUME IInv, Tick
  PROVE  IInv'
<1>1. Shape' /\ now' >= now
  BY BoundsAssumption DEF Tick, IInv, Shape
<1>2. PendingIsKnown'
  BY DEF Tick, IInv, PendingIsKnown, HasPending, Known, Generation
<1>3. QED
  BY <1>1, <1>2, CacheUnchanged DEF Tick

\* An entry that cannot be used is out of time, as it is of the current cycle.
LEMMA UnusableLemma ==
  ASSUME Shape, CacheInv, NEW id \in Ids, Holds(id), Answer(id) = {}
  PROVE  Excused(id)
<1>1. PICK i \in DOMAIN cycles.cache : cycles.cache[i].id = id
  BY DEF Holds
<1> DEFINE e == cycles.cache[i]
<1>2. e \in Record /\ IsCurrent(e) /\ e.id = id
  BY <1>1, CacheLemma DEF CacheInv, EntriesAreCurrent
<1>3. e \in Entries(cycles, id)
  BY <1>1 DEF Entries, Range
<1> HIDE DEF e
<1>4. ~Usable(cycles, e, now)
  BY <1>3 DEF Answer, CachedOutcome
<1>5. ~(now < given[id].at + Ttl) /\ given[id] \in Given
  BY <1>2, <1>4 DEF Usable, IsCurrent, Shape
<1>6. QED
  BY <1>5, BoundsAssumption DEF Excused, Shape, Given

\* cachedOutcome(id)
LEMMA CachedOutcomeStep ==
  ASSUME IInv, NEW id \in Ids, CallCachedOutcome(id)
  PROVE  IInv'
<1>1. UNCHANGED <<now, given, ahead>> /\ cycles' = Looked(cycles, id, now)
  BY DEF CallCachedOutcome
<1>2. CASE Answer(id) # {}
  <2>1. UNCHANGED cycles
    BY <1>1, <1>2 DEF Looked, Answer
  <2>2. Shape' /\ now' >= now
    BY <1>1, <2>1 DEF IInv, Shape
  <2>3. PendingIsKnown'
    BY <2>1 DEF IInv, PendingIsKnown, HasPending, Known, Generation
  <2>4. QED
    BY <1>1, <2>1, <2>2, <2>3, CacheUnchanged
<1>3. CASE Answer(id) = {}
  <2> DEFINE s == cycles.cache
  <2> DEFINE t == Without(s, id)
  <2>1. s \in Seq(Record) /\ Distinct(s) /\ cycles \in Objects
    BY CacheLemma DEF IInv, CacheInv, Shape
  <2>2. cycles' = [cycles EXCEPT !.cache = t]
    BY <1>1, <1>3 DEF Looked, Answer
  <2> HIDE DEF s
  <2>3. /\ t \in Seq(Record) /\ Len(t) <= Len(s) /\ Thins(t, s)
        /\ \A p \in DOMAIN s : s[p].id # id => \E i \in DOMAIN t : t[i] = s[p]
    BY <2>1, WithoutLemma
  <2> HIDE DEF t
  <2>4. cycles' \in Objects /\ cycles'.cache = t /\ cycles'.generations = cycles.generations
        /\ cycles'.pending = cycles.pending
    BY <2>1, <2>2, <2>3, FieldsLemma
  <2>5. Shape' /\ now' >= now
    BY <1>1, <2>4 DEF IInv, Shape
  <2>6. PendingIsKnown'
    BY <2>4 DEF IInv, PendingIsKnown, HasPending, Known, Generation
  <2>7. CacheInv'
    BY <1>1, <2>3, <2>4, <2>5, ThinningStep DEF IInv, s
  <2>8. ForgottenIsExcused'
    <3> SUFFICES ASSUME NEW j \in Ids, given'[j] # None PROVE Holds(j)' \/ Excused(j)'
      BY DEF ForgottenIsExcused
    <3>1. Holds(j) => Holds(j)' \/ Excused(j)
      <4>1. CASE j = id
        BY <1>3, <4>1, UnusableLemma DEF IInv
      <4>2. CASE j # id
        BY <2>3, <2>4, <4>2 DEF Holds, s
      <4>3. QED
        BY <4>1, <4>2
    <3>2. QED
      BY <1>1, <2>5, <3>1, ForgottenStep DEF IInv
  <2>9. QED
    BY <2>5, <2>6, <2>7, <2>8 DEF IInv
<1>4. QED
  BY <1>2, <1>3

\* If a full cache takes one more, as many ids as it holds came after the first.
LEMMA FullLemma ==
  ASSUME NEW s \in Seq(Record), Distinct(s), Len(s) = MaxEntries + 1, NEW A, IsFiniteSet(A),
         \A j \in DOMAIN s : 1 < j => s[j].id \in A
  PROVE  Cardinality(A) >= MaxEntries
<1> DEFINE f == [i \in 1 .. MaxEntries |-> s[i + 1].id]
<1>1. MaxEntries \in Nat /\ DOMAIN s = 1 .. MaxEntries + 1
  BY BoundsAssumption, LenProperties
<1>2. \A i \in 1 .. MaxEntries : i + 1 \in DOMAIN s /\ 1 < i + 1
  BY <1>1
<1>3. f \in [1 .. MaxEntries -> A]
  BY <1>2
<1>4. \A i, j \in 1 .. MaxEntries : f[i] = f[j] => i = j
  BY <1>1, <1>2 DEF Distinct
<1> HIDE DEF f
<1>5. QED
  BY <1>1, <1>3, <1>4, AtLeast

\* The entry that cacheOutcome() puts.
Stored(id, outcome) ==
  [id |-> id, outcome |-> outcome, generation |-> Generation(cycles, id), expiresAt |-> now + Ttl]

\* Before prune(), the cache with the entry of id is as it should be.
LEMMA StoredLemma ==
  ASSUME IInv, NEW id \in Ids, NEW o \in Outcomes, Remember(id, Generation(cycles, id), o)
  PROVE  LET s == Put(cycles.cache, Stored(id, o))
         IN /\ s \in Seq(Record) /\ Len(s) <= MaxEntries + 1 /\ Distinct(s)
            /\ \A i \in DOMAIN s :
                 /\ s[i].generation = Generation(cycles, s[i].id)
                 /\ given'[s[i].id] # None
                 /\ s[i].outcome = given'[s[i].id].outcome
                 /\ s[i].expiresAt = given'[s[i].id].at + Ttl
            /\ \A i, j \in DOMAIN s : i < j => s[j].id \in ahead'[s[i].id]
            /\ \E i \in DOMAIN s : s[i].id = id
            /\ \A p \in DOMAIN cycles.cache : \E i \in DOMAIN s : s[i].id = cycles.cache[p].id
<1> DEFINE c == cycles.cache
<1> DEFINE e == Stored(id, o)
<1> DEFINE s == Put(c, e)
<1>1. /\ c \in Seq(Record) /\ Len(c) \in Nat /\ DOMAIN c = 1 .. Len(c) /\ Len(c) <= MaxEntries
      /\ Distinct(c) /\ \A i \in DOMAIN c : c[i] \in Record /\ c[i].id \in Ids
  BY CacheLemma DEF IInv, CacheInv, Record
<1>2. \A i \in DOMAIN c :
        /\ c[i].generation = Generation(cycles, c[i].id) /\ given[c[i].id] # None
        /\ c[i].outcome = given[c[i].id].outcome /\ c[i].expiresAt = given[c[i].id].at + Ttl
  BY DEF IInv, CacheInv, EntriesAreCurrent, IsCurrent
<1>3. \A i, j \in DOMAIN c : i < j => c[j].id \in ahead[c[i].id]
  BY DEF IInv, CacheInv, InOrder
<1>4. e \in Record /\ e.id = id /\ e.generation = Generation(cycles, id) /\ e.outcome = o
      /\ e.expiresAt = now + Ttl
  <2>1. Generation(cycles, id) \in Nat /\ now + Ttl \in Nat
    BY BoundsAssumption DEF IInv, Shape, Objects, Generation
  <2>2. QED
    BY <2>1 DEF Stored, Record
<1>5. /\ given'[id] = [outcome |-> o, at |-> now] /\ given'[id] # None
      /\ \A j \in Ids : j # id => given'[j] = given[j]
  <2>1. [outcome |-> o, at |-> now] \in [outcome : Outcomes, at : 0 .. MaxNow]
    BY DEF IInv, Shape
  <2>2. given' = [given EXCEPT ![id] = [outcome |-> o, at |-> now]]
    BY DEF Remember
  <2>3. QED
    BY <2>1, <2>2, NoneIsNotGiven DEF IInv, Shape
<1>6. Entries(cycles, id) = {} <=> ~\E i \in DOMAIN c : c[i].id = id
  BY DEF Entries, Range
<1>7. ahead' = IF Entries(cycles, id) = {}
               THEN [j \in Ids |-> IF j = id THEN {} ELSE ahead[j] \cup {id}] ELSE ahead
  BY DEF Remember
<1>8. MaxEntries \in Nat /\ MaxEntries > 0
  BY BoundsAssumption
<1> HIDE DEF e, c
<1>9. CASE \E i \in DOMAIN c : c[i].id = id
  <2>1. /\ s \in Seq(Record) /\ Len(s) = Len(c) /\ DOMAIN s = DOMAIN c
        /\ \A i \in DOMAIN c : s[i] = IF c[i].id = e.id THEN e ELSE c[i]
    BY <1>1, <1>4, <1>9, PutPresent
  <2> HIDE DEF s
  <2>2. \A i \in DOMAIN c : s[i].id = c[i].id
    BY <1>4, <2>1
  <2>3. Distinct(s)
    BY <1>1, <2>1, <2>2 DEF Distinct
  <2>4. ASSUME NEW i \in DOMAIN s
        PROVE  /\ s[i].generation = Generation(cycles, s[i].id) /\ given'[s[i].id] # None
               /\ s[i].outcome = given'[s[i].id].outcome /\ s[i].expiresAt = given'[s[i].id].at + Ttl
    <3>1. CASE c[i].id = id
      BY <1>4, <1>5, <2>1, <3>1
    <3>2. CASE c[i].id # id
      BY <1>1, <1>2, <1>4, <1>5, <2>1, <3>2
    <3>3. QED
      BY <3>1, <3>2
  <2>5. ahead' = ahead
    BY <1>6, <1>7, <1>9
  <2>6. \A i, j \in DOMAIN s : i < j => s[j].id \in ahead'[s[i].id]
    BY <1>3, <2>1, <2>2, <2>5
  <2>7. Len(s) <= MaxEntries + 1
    BY <1>1, <1>8, <2>1
  <2>8. \E i \in DOMAIN s : s[i].id = id
    BY <1>9, <2>1, <2>2
  <2>9. QED
    BY <2>1, <2>2, <2>3, <2>4, <2>6, <2>7, <2>8 DEF s, c, e
<1>10. CASE ~\E i \in DOMAIN c : c[i].id = id
  <2> DEFINE n == Len(c)
  <2>1. ~\E i \in DOMAIN c : c[i].id = e.id
    BY <1>4, <1>10
  <2>2. /\ s \in Seq(Record) /\ Len(s) = Len(c) + 1 /\ DOMAIN s = 1 .. Len(c) + 1
        /\ s[Len(c) + 1] = e /\ \A i \in DOMAIN c : s[i] = c[i]
    <3>1. c \in Seq(Record) /\ e \in Record
      BY <1>1, <1>4
    <3>2. QED
      BY ONLY <3>1, <2>1, PutAbsent
  <2> HIDE DEF s
  <2>3. /\ s \in Seq(Record) /\ Len(s) = n + 1 /\ DOMAIN s = 1 .. n + 1
        /\ s[n + 1] = e /\ \A i \in DOMAIN c : s[i] = c[i]
    BY <2>2
  <2>4. n \in Nat /\ DOMAIN c = 1 .. n /\ n <= MaxEntries
    BY <1>1
  <2> HIDE DEF n
  <2>5. \A i \in DOMAIN s : i \in DOMAIN c \/ i = n + 1
    BY <2>3, <2>4
  <2>6. Distinct(s)
    <3> SUFFICES ASSUME NEW i \in DOMAIN s, NEW j \in DOMAIN s, s[i].id = s[j].id PROVE i = j
      BY DEF Distinct
    <3>1. QED
      BY <1>1, <1>4, <1>10, <2>3, <2>5 DEF Distinct
  <2>7. ASSUME NEW i \in DOMAIN s
        PROVE  /\ s[i].generation = Generation(cycles, s[i].id) /\ given'[s[i].id] # None
               /\ s[i].outcome = given'[s[i].id].outcome /\ s[i].expiresAt = given'[s[i].id].at + Ttl
    <3>1. CASE i = n + 1
      BY <1>4, <1>5, <2>3, <3>1
    <3>2. CASE i \in DOMAIN c
      BY <1>1, <1>2, <1>5, <1>10, <2>3, <3>2
    <3>3. QED
      BY <2>5, <3>1, <3>2
  <2>8. \A j \in Ids : j # id => ahead'[j] = ahead[j] \cup {id}
    BY <1>6, <1>7, <1>10
  <2>9. ASSUME NEW i \in DOMAIN s, NEW j \in DOMAIN s, i < j PROVE s[j].id \in ahead'[s[i].id]
    <3>1. i \in DOMAIN c /\ s[i] = c[i] /\ c[i].id # id /\ c[i].id \in Ids
      BY <1>1, <1>10, <2>3, <2>4, <2>9
    <3>2. ahead'[s[i].id] = ahead[c[i].id] \cup {id}
      BY <2>8, <3>1
    <3>3. CASE j = n + 1
      BY <1>4, <2>3, <3>2, <3>3
    <3>4. CASE j \in DOMAIN c
      BY <1>3, <2>3, <2>9, <3>1, <3>2, <3>4
    <3>5. QED
      BY <2>5, <3>3, <3>4
  <2>10. Len(s) <= MaxEntries + 1
    BY <1>8, <2>3, <2>4
  <2>11. /\ \E i \in DOMAIN s : s[i].id = id
        /\ \A p \in DOMAIN c : \E i \in DOMAIN s : s[i].id = c[p].id
    <3>1. n + 1 \in DOMAIN s
      BY <2>3, <2>4
    <3>2. \A p \in DOMAIN c : p \in DOMAIN s
      BY <2>3, <2>4
    <3>3. QED
      BY <1>4, <2>3, <3>1, <3>2
  <2>12. QED
    BY <2>3, <2>6, <2>7, <2>9, <2>10, <2>11 DEF s, c, e
<1>11. QED
  BY <1>9, <1>10

\* cacheOutcome(id, g, o) on an object c that differs from cycles in what is pending.
LEMMA StoreStep ==
  ASSUME IInv, NEW id \in Ids, NEW g \in Known(id), NEW o \in Outcomes,
         NEW c \in Objects, c.cache = cycles.cache, c.generations = cycles.generations,
         \A j \in Ids : c.pending[j] # None => c.pending[j].generation \in Known(j),
         cycles' = CacheOutcome(c, id, g, o, now), Remember(id, g, o), UNCHANGED now
  PROVE  IInv'
<1>1. now' >= now /\ now' \in 0 .. MaxNow
  BY DEF IInv, Shape
<1>2. CASE g # Generation(cycles, id)
  <2>1. cycles' = c /\ UNCHANGED <<given, ahead>>
    BY <1>2 DEF CacheOutcome, Generation, Remember
  <2>2. Shape'
    BY <2>1 DEF IInv, Shape
  <2>3. PendingIsKnown'
    BY <2>1 DEF PendingIsKnown, HasPending, Known, Generation
  <2>4. QED
    BY <1>1, <2>1, <2>2, <2>3, CacheUnchanged
<1>3. CASE g = Generation(cycles, id)
  <2> DEFINE s == Put(cycles.cache, Stored(id, o))
  <2> DEFINE t == Prune(s)
  <2>1. /\ s \in Seq(Record) /\ Len(s) <= MaxEntries + 1 /\ Distinct(s)
        /\ \A i \in DOMAIN s :
             /\ s[i].generation = Generation(cycles, s[i].id)
             /\ given'[s[i].id] # None
             /\ s[i].outcome = given'[s[i].id].outcome
             /\ s[i].expiresAt = given'[s[i].id].at + Ttl
        /\ \A i, j \in DOMAIN s : i < j => s[j].id \in ahead'[s[i].id]
        /\ \E i \in DOMAIN s : s[i].id = id
        /\ \A p \in DOMAIN cycles.cache : \E i \in DOMAIN s : s[i].id = cycles.cache[p].id
    BY <1>3, StoredLemma
  <2>2. cycles' = [c EXCEPT !.cache = t]
    BY <1>3 DEF CacheOutcome, Generation, Stored
  <2> HIDE DEF s
  <2>3. /\ t \in Seq(Record) /\ Len(t) <= MaxEntries /\ Thins(t, s)
        /\ \A p \in DOMAIN s : p > 1 => \E i \in DOMAIN t : t[i] = s[p]
        /\ Len(s) <= MaxEntries => t = s
    BY <2>1, PruneLemma
  <2> HIDE DEF t
  <2>4. cycles' \in Objects /\ cycles'.cache = t /\ cycles'.generations = cycles.generations
        /\ cycles'.pending = c.pending
    <3>1. c \in Objects /\ t \in Seq(Record)
      BY <2>3
    <3>2. LET d == [c EXCEPT !.cache = t]
          IN d \in Objects /\ d.cache = t /\ d.generations = c.generations /\ d.pending = c.pending
      BY ONLY <3>1, FieldsLemma
    <3>3. QED
      BY <2>2, <3>2
  <2>5. /\ given' = [given EXCEPT ![id] = [outcome |-> o, at |-> now]]
        /\ ahead' = IF Entries(cycles, id) = {}
                    THEN [j \in Ids |-> IF j = id THEN {} ELSE ahead[j] \cup {id}] ELSE ahead
    BY <1>3 DEF Remember
  <2>6. Shape'
    <3>1. given' \in [Ids -> Given \cup {None}]
      BY <2>5 DEF IInv, Shape, Given
    <3>2. ahead' \in [Ids -> SUBSET Ids]
      BY <2>5 DEF IInv, Shape
    <3>3. QED
      BY <1>1, <2>4, <3>1, <3>2 DEF Shape
  <2>7. PendingIsKnown'
    BY <2>4 DEF PendingIsKnown, HasPending, Known, Generation
  <2>8. CacheInv'
    <3>1. Distinct(t)
      BY <2>1, <2>3, ThinsDistinct
    <3>2. EntriesAreCurrent'
      BY <2>1, <2>3, <2>4 DEF EntriesAreCurrent, IsCurrent, Thins, Generation
    <3>3. InOrder'
      <4> SUFFICES ASSUME NEW i \in DOMAIN t, NEW j \in DOMAIN t, i < j
                   PROVE  t[j].id \in ahead'[t[i].id]
        BY <2>4 DEF InOrder
      <4>1. PICK p, q \in DOMAIN s : p < q /\ t[i] = s[p] /\ t[j] = s[q]
        BY <2>3 DEF Thins
      <4>2. QED
        BY <2>1, <4>1
    <3>4. QED
      BY <2>3, <2>4, <3>1, <3>2, <3>3 DEF CacheInv
  <2>9. ASSUME NEW p \in DOMAIN s, NEW j \in Ids, s[p].id = j PROVE Holds(j)' \/ Excused(j)'
    <3>1. Len(s) \in Nat /\ DOMAIN s = 1 .. Len(s) /\ MaxEntries \in Nat
      BY <2>1, LenProperties, BoundsAssumption
    <3>2. CASE p > 1 \/ Len(s) <= MaxEntries
      <4>1. \E i \in DOMAIN t : t[i] = s[p]
        BY <2>3, <3>2
      <4>2. QED
        BY <2>4, <2>9, <4>1 DEF Holds
    <3>3. CASE p = 1 /\ Len(s) = MaxEntries + 1
      <4>1. ahead'[j] \subseteq Ids
        BY <2>6 DEF Shape
      <4>2. IsFiniteSet(ahead'[j])
        BY <4>1, IdsAssumption, FS_Subset
      <4>3. \A i \in DOMAIN s : 1 < i => s[i].id \in ahead'[j]
        BY <2>1, <2>9, <3>3
      <4>4. s \in Seq(Record) /\ Distinct(s)
        BY <2>1
      <4>5. Cardinality(ahead'[j]) >= MaxEntries
        BY ONLY <3>3, <4>2, <4>3, <4>4, FullLemma
      <4>6. QED
        BY <4>5 DEF Excused
    <3>4. p \in 1 .. Len(s) /\ Len(s) <= MaxEntries + 1
      BY <2>1, <3>1
    <3>5. p > 1 \/ Len(s) <= MaxEntries \/ (p = 1 /\ Len(s) = MaxEntries + 1)
      <4>1. \A l, m \in Nat : \A k \in 1 .. l : l <= m + 1 => k > 1 \/ l <= m \/ (k = 1 /\ l = m + 1)
        OBVIOUS
      <4>2. Len(s) \in Nat /\ MaxEntries \in Nat
        BY <3>1
      <4>3. QED
        BY ONLY <3>4, <4>1, <4>2, Zenon
    <3>6. QED
      BY <3>2, <3>3, <3>5
  <2>10. ForgottenIsExcused'
    <3> SUFFICES ASSUME NEW j \in Ids, given'[j] # None PROVE Holds(j)' \/ Excused(j)'
      BY DEF ForgottenIsExcused
    <3>1. CASE j = id
      BY <2>1, <2>9, <3>1
    <3>2. CASE j # id /\ Holds(j)
      <4>1. \E p \in DOMAIN s : s[p].id = j
        BY <2>1, <3>2 DEF Holds
      <4>2. QED
        BY <2>9, <4>1
    <3>3. CASE j # id /\ ~Holds(j)
      <4>1. given'[j] = given[j] /\ ahead[j] \subseteq ahead'[j]
        BY <2>5, <3>3 DEF IInv, Shape
      <4>2. Excused(j)
        BY <3>3, <4>1 DEF IInv, ForgottenIsExcused
      <4>3. QED
        BY <1>1, <2>6, <4>1, <4>2, ExcusedStays DEF IInv
    <3>4. QED
      BY <3>1, <3>2, <3>3
  <2>11. QED
    BY <2>6, <2>7, <2>8, <2>10 DEF IInv
<1>4. QED
  BY <1>2, <1>3

\* cacheOutcome(id, g, o)
LEMMA CacheOutcomeStep ==
  ASSUME IInv, NEW id \in Ids, NEW g \in Known(id), NEW o \in Outcomes, CallCacheOutcome(id, g, o)
  PROVE  IInv'
<1>1. cycles' = CacheOutcome(cycles, id, g, o, now) /\ Remember(id, g, o) /\ UNCHANGED now
  BY DEF CallCacheOutcome
<1>2. cycles \in Objects /\ \A j \in Ids : cycles.pending[j] # None => cycles.pending[j].generation \in Known(j)
  BY DEF IInv, Shape, PendingIsKnown, HasPending
<1>3. QED
  BY <1>1, <1>2, StoreStep

\* complete(id, g, o)
LEMMA CompleteStep ==
  ASSUME IInv, NEW id \in Ids, NEW g \in Known(id), NEW o \in Outcomes, CallComplete(id, g, o)
  PROVE  IInv'
<1> DEFINE c == ClearPending(cycles, id, g)
<1>1. cycles' = CacheOutcome(c, id, g, o, now) /\ Remember(id, g, o) /\ UNCHANGED now
  BY DEF CallComplete, Complete
<1>2. /\ c \in Objects /\ c.cache = cycles.cache /\ c.generations = cycles.generations
      /\ \A j \in Ids : c.pending[j] # None => c.pending[j].generation \in Known(j)
  <2>1. CASE IsPendingFor(cycles, id, g)
    BY <2>1, ForgetPending DEF IInv, ClearPending
  <2>2. CASE ~IsPendingFor(cycles, id, g)
    BY <2>2 DEF IInv, Shape, PendingIsKnown, HasPending, ClearPending
  <2>3. QED
    BY <2>1, <2>2
<1> HIDE DEF c
<1>3. QED
  BY <1>1, <1>2, StoreStep

------------------------------------------------------------------------------
LEMMA InitStep == Init => IInv
<1> SUFFICES ASSUME Init PROVE IInv
  OBVIOUS
<1>1. /\ cycles = NewCycles /\ now = 0 /\ given = [id \in Ids |-> None] /\ ahead = [id \in Ids |-> {}]
      /\ MaxNow \in Nat /\ MaxGeneration \in Nat /\ MaxEntries \in Nat
  BY BoundsAssumption DEF Init
<1>2. /\ cycles \in Objects /\ cycles.cache = <<>> /\ DOMAIN cycles.cache = {} /\ Len(cycles.cache) = 0
      /\ \A id \in Ids : cycles.pending[id] = None
  BY <1>1, EmptySeq DEF NewCycles, Objects
<1>3. Shape
  BY <1>1, <1>2 DEF Shape
<1>4. QED
  BY <1>1, <1>2, <1>3
  DEF IInv, PendingIsKnown, HasPending, CacheInv, Distinct, EntriesAreCurrent, InOrder, ForgottenIsExcused

LEMMA StepInvariant == IInv /\ [Next]_vars => IInv'
<1> SUFFICES ASSUME IInv, [Next]_vars PROVE IInv'
  OBVIOUS
<1>1. CASE \E id \in Ids : CallBegin(id) \/ CallCachedOutcome(id) \/ CallCancelPending(id)
  BY <1>1, BeginStep, CachedOutcomeStep, CancelPendingStep
<1>2. CASE \E id \in Ids : \E g \in Known(id) :
             \/ CallSetPending(id, g)
             \/ \E o \in Outcomes : CallCacheOutcome(id, g, o) \/ CallComplete(id, g, o)
  BY <1>2, SetPendingStep, CacheOutcomeStep, CompleteStep
<1>3. CASE Tick
  BY <1>3, TickStep
<1>4. CASE UNCHANGED vars
  <2>1. Shape' /\ now' >= now
    BY <1>4 DEF vars, IInv, Shape
  <2>2. PendingIsKnown'
    BY <1>4 DEF vars, IInv, PendingIsKnown, HasPending, Known, Generation
  <2>3. QED
    BY <1>4, <2>1, <2>2, CacheUnchanged DEF vars
<1>5. QED
  BY <1>1, <1>2, <1>3, <1>4 DEF Next

LEMMA Invariant == Spec => []IInv
BY InitStep, StepInvariant, PTL DEF Spec

\* The entries and their fields have their types, and there is at most one entry per
\* target: cacheOutcome() and complete() keep the Map a Map.
THEOREM TaskCyclesTypeOK == Spec => []TypeOK
<1>1. IInv => TypeOK
  <2> SUFFICES ASSUME IInv PROVE TypeOK
    OBVIOUS
  <2>1. cycles.generations \in [Ids -> 0 .. MaxGeneration] /\ now \in 0 .. MaxNow
    BY DEF IInv, Shape, Objects
  <2>2. ASSUME NEW i \in DOMAIN cycles.cache
        PROVE  /\ cycles.cache[i].id \in Ids /\ cycles.cache[i].outcome \in Outcomes
               /\ cycles.cache[i].expiresAt \in Ttl .. (MaxNow + Ttl)
    <3> DEFINE e == cycles.cache[i]
    <3>1. e.id \in Ids /\ e.outcome \in Outcomes /\ given[e.id] # None /\ e.expiresAt = given[e.id].at + Ttl
      BY CacheLemma DEF IInv, CacheInv, EntriesAreCurrent, IsCurrent, Record
    <3> HIDE DEF e
    <3>2. given[e.id].at \in 0 .. MaxNow
      BY <3>1 DEF IInv, Shape, Given
    <3>3. QED
      BY <3>1, <3>2, BoundsAssumption DEF e
  <2>3. QED
    BY <2>1, <2>2 DEF TypeOK, IInv, PendingIsKnown, CacheInv, Distinct
<1>2. QED
  BY <1>1, Invariant, PTL

\* What cachedOutcome() answers is what was given last for the current cycle, within
\* its time to live, however late and in whatever order the answers come.
THEOREM AnswersAreCurrent == Spec => []AnswerIsCurrent
<1>1. IInv => AnswerIsCurrent
  <2> SUFFICES ASSUME IInv, NEW id \in Ids, NEW o \in Answer(id)
               PROVE  given[id] # None /\ given[id].outcome = o /\ now < given[id].at + Ttl
    BY DEF AnswerIsCurrent
  <2>1. PICK e \in Range(cycles.cache) : e.id = id /\ Usable(cycles, e, now) /\ e.outcome = o
    BY DEF Answer, CachedOutcome, Entries
  <2>2. PICK i \in DOMAIN cycles.cache : e = cycles.cache[i]
    BY DEF Range
  <2>3. IsCurrent(e)
    BY <2>2 DEF IInv, CacheInv, EntriesAreCurrent
  <2>4. QED
    BY <2>1, <2>3 DEF IsCurrent, Usable
<1>2. QED
  BY <1>1, Invariant, PTL

\* prune() keeps the cache within its limit, and whoever is forgotten early was
\* followed by as many others as the cache holds.
THEOREM ForgettingIsForced == Spec => []OnlyAFullCacheForgets
<1>1. IInv => OnlyAFullCacheForgets
  <2> SUFFICES ASSUME IInv, NEW id \in Ids, given[id] # None, Answer(id) = {} PROVE Excused(id)
    BY DEF OnlyAFullCacheForgets, IInv, CacheInv, Excused
  <2>1. QED
    BY UnusableLemma DEF IInv, ForgottenIsExcused
<1>2. QED
  BY <1>1, Invariant, PTL
==============================================================================
