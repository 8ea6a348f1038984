--------------------------- MODULE BridgeTaskCycles ---------------------------
(***************************************************************************)
(* The class BridgeTaskCycles of src/main/bridge-task-cycles.ts.  An       *)
(* object of the class is the record                                       *)
(*    [generations, pending, cache]                                        *)
(* and each method is an operator that returns the object it leaves, so    *)
(* that a caller can make several calls in one step.  The cache is a Map:  *)
(* a sequence of entries in insertion order, at most one per id, where     *)
(* setting an id that is present keeps its place.                          *)
(***************************************************************************)
EXTENDS Naturals, Sequences, SequencesExt

CONSTANTS Ids, None,
          MaxEntries,  \* maxEntries
          Ttl          \* ttlMs, in ticks of the caller's clock

NewCycles ==
  [generations |-> [id \in Ids |-> 0], pending |-> [id \in Ids |-> None], cache |-> <<>>]

Generation(c, id) == c.generations[id]

Without(cache, id) ==
  IF \E i \in DOMAIN cache : cache[i].id = id
  THEN RemoveAt(cache, CHOOSE i \in DOMAIN cache : cache[i].id = id)
  ELSE cache

Entries(c, id) == {e \in Range(c.cache) : e.id = id}

Begin(c, id) ==
  [c EXCEPT !.generations[id] = @ + 1, !.cache = Without(@, id)]

HasPending(c, id) == c.pending[id] # None

SetPending(c, id, generation, payload, persistent) ==
  [c EXCEPT !.pending[id] =
     [generation |-> generation, payload |-> payload, persistent |-> persistent]]

IsPendingFor(c, id, generation) ==
  HasPending(c, id) /\ c.pending[id].generation = generation

\* The oldest insertions go first.
Prune_Never(cache) == cache

Prune(cache) ==
  SubSeq(cache, IF Len(cache) > MaxEntries THEN Len(cache) - MaxEntries + 1 ELSE 1, Len(cache))

Put(cache, entry) ==
  IF \E e \in Range(cache) : e.id = entry.id
  THEN [i \in DOMAIN cache |-> IF cache[i].id = entry.id THEN entry ELSE cache[i]]
  ELSE Append(cache, entry)

CacheOutcome_AnyGeneration(c, id, generation, outcome, now) ==
  [c EXCEPT !.cache = Prune(Put(@, [id |-> id, outcome |-> outcome,
                                    generation |-> c.generations[id], expiresAt |-> now + Ttl]))]

CacheOutcome_KeepsExpiry(c, id, generation, outcome, now) ==
  LET old == {e.expiresAt : e \in Entries(c, id)} IN
  IF generation # Generation(c, id) THEN c
  ELSE [c EXCEPT !.cache =
         Prune(Put(@, [id |-> id, outcome |-> outcome, generation |-> generation,
                       expiresAt |-> IF old = {} THEN now + Ttl ELSE CHOOSE t \in old : TRUE]))]

CacheOutcome_NoTtl(c, id, generation, outcome, now) ==
  IF generation # Generation(c, id) THEN c
  ELSE [c EXCEPT !.cache = Prune(Put(@, [id |-> id, outcome |-> outcome,
                                         generation |-> generation, expiresAt |-> now]))]

CacheOutcome(c, id, generation, outcome, now) ==
  IF generation # Generation(c, id) THEN c
  ELSE [c EXCEPT !.cache = Prune(Put(@, [id |-> id, outcome |-> outcome,
                                         generation |-> generation, expiresAt |-> now + Ttl]))]

\* A late answer of an older cycle leaves the newer pending entry alone.
ClearPending(c, id, generation) ==
  IF IsPendingFor(c, id, generation) THEN [c EXCEPT !.pending[id] = None] ELSE c

Complete(c, id, generation, outcome, now) ==
  CacheOutcome(ClearPending(c, id, generation), id, generation, outcome, now)

Usable_Expired(c, e, now) == e.generation = Generation(c, e.id)

Usable(c, e, now) == e.generation = Generation(c, e.id) /\ now < e.expiresAt

\* What cachedOutcome() answers, as a set of at most one outcome ...
CachedOutcome(c, id, now) == {e.outcome : e \in {e \in Entries(c, id) : Usable(c, e, now)}}

\* ... and what it leaves: an entry it could not use is deleted.
Looked(c, id, now) ==
  IF CachedOutcome(c, id, now) = {} THEN [c EXCEPT !.cache = Without(@, id)] ELSE c

\* The caller cancels the payload of the entry.
CancelPending(c, id) == [c EXCEPT !.pending[id] = None]
==============================================================================
