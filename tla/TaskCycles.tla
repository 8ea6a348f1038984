------------------------------ MODULE TaskCycles ------------------------------
(***************************************************************************)
(* A BridgeTaskCycles object in use: cycles of several targets begin and   *)
(* end, and an answer may carry the generation of a cycle that a newer one *)
(* has replaced, because it was read before an await.  The actions are the *)
(* methods' calls; `now' is the object's clock.                            *)
(*                                                                         *)
(* History: given[id] is the last outcome that a caller handed in for the  *)
(* current cycle of id, and when; ahead[id] are the ids that entered the   *)
(* cache after id did.                                                     *)
(***************************************************************************)
EXTENDS BridgeTaskCycles, FiniteSets

CONSTANTS Outcomes,
          MaxGeneration,  \* bound on the cycles of an id
          MaxNow          \* bound on the clock

ASSUME BoundsAssumption ==
  MaxEntries \in Nat \ {0} /\ Ttl \in Nat \ {0} /\ MaxGeneration \in Nat /\ MaxNow \in Nat
ASSUME IdsAssumption == IsFiniteSet(Ids)
ASSUME NoneIsNotGiven == None \notin [outcome : Outcomes, at : 0 .. MaxNow]

VARIABLES cycles, now, given, ahead

vars == <<cycles, now, given, ahead>>

Init ==
  /\ cycles = NewCycles
  /\ now = 0
  /\ given = [id \in Ids |-> None]
  /\ ahead = [id \in Ids |-> {}]

Known(id) == 1..Generation(cycles, id)

CallBegin(id) ==
  /\ Generation(cycles, id) < MaxGeneration
  /\ cycles' = Begin(cycles, id)
  /\ given' = [given EXCEPT ![id] = None]
  /\ UNCHANGED <<now, ahead>>

CallSetPending(id, g) ==
  /\ cycles' = SetPending(cycles, id, g, g, TRUE)
  /\ UNCHANGED <<now, given, ahead>>

Remember(id, g, outcome) ==
  IF g = Generation(cycles, id)
  THEN /\ given' = [given EXCEPT ![id] = [outcome |-> outcome, at |-> now]]
       /\ ahead' = IF Entries(cycles, id) = {}
                   THEN [j \in Ids |-> IF j = id THEN {} ELSE ahead[j] \cup {id}]
                   ELSE ahead
  ELSE UNCHANGED <<given, ahead>>

CallCacheOutcome(id, g, outcome) ==
  /\ cycles' = CacheOutcome(cycles, id, g, outcome, now)
  /\ Remember(id, g, outcome)
  /\ UNCHANGED now

CallComplete(id, g, outcome) ==
  /\ cycles' = Complete(cycles, id, g, outcome, now)
  /\ Remember(id, g, outcome)
  /\ UNCHANGED now

CallCachedOutcome(id) ==
  /\ cycles' = Looked(cycles, id, now)
  /\ UNCHANGED <<now, given, ahead>>

CallCancelPending(id) ==
  /\ HasPending(cycles, id)
  /\ cycles' = CancelPending(cycles, id)
  /\ UNCHANGED <<now, given, ahead>>

Tick ==
  /\ now < MaxNow
  /\ now' = now + 1
  /\ UNCHANGED <<cycles, given, ahead>>

Next ==
  \/ \E id \in Ids : CallBegin(id) \/ CallCachedOutcome(id) \/ CallCancelPending(id)
  \/ \E id \in Ids : \E g \in Known(id) :
       \/ CallSetPending(id, g)
       \/ \E o \in Outcomes : CallCacheOutcome(id, g, o) \/ CallComplete(id, g, o)
  \/ Tick

Spec == Init /\ [][Next]_vars

------------------------------------------------------------------------------
Answer(id) == CachedOutcome(cycles, id, now)

TypeOK ==
  /\ cycles.generations \in [Ids -> 0..MaxGeneration]
  /\ \A id \in Ids :
       HasPending(cycles, id) => cycles.pending[id].generation \in Known(id)
  /\ \A i \in DOMAIN cycles.cache :
       /\ cycles.cache[i].id \in Ids
       /\ cycles.cache[i].outcome \in Outcomes
       /\ cycles.cache[i].expiresAt \in Ttl..(MaxNow + Ttl)
  /\ \A i, j \in DOMAIN cycles.cache : cycles.cache[i].id = cycles.cache[j].id => i = j
  /\ now \in 0..MaxNow

\* What cachedOutcome() answers is the outcome given last for the cycle that is
\* current, less than a TTL ago: never one of an older cycle, whenever it comes in.
AnswerIsCurrent ==
  \A id \in Ids : \A o \in Answer(id) :
    given[id] # None /\ given[id].outcome = o /\ now < given[id].at + Ttl

\* The cache keeps to its limit, and an outcome is forgotten before its time only if the cache was full: as many
\* ids as it holds entered it later.  One that is given again is good for a whole
\* TTL again.
OnlyAFullCacheForgets ==
  /\ Len(cycles.cache) <= MaxEntries
  /\ \A id \in Ids :
       given[id] # None /\ Answer(id) = {} =>
         now >= given[id].at + Ttl \/ Cardinality(ahead[id]) >= MaxEntries
==============================================================================
