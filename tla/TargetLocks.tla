----------------------------- MODULE TargetLocks -----------------------------
(***************************************************************************)
(* runTargetSerial() of src/main/bridge-service.ts: the lock of a target   *)
(* is the promise of the last call made for it.  A call chains itself on   *)
(* that promise, stores its own in the map, and removes it when it settles *)
(* unless another call has replaced it.                                    *)
(*                                                                         *)
(* Each step is one callback.  The callbacks that a settled promise wakes  *)
(* (the next task, the clean-up) run in an order that is left open.        *)
(* `arrived' is a history variable: it is never read by a guard.           *)
(***************************************************************************)
EXTENDS Naturals, Sequences, FiniteSets

CONSTANTS Keys, Calls, Target,
          None                  \* no promise: Promise.resolve()

ASSUME TargetAssumption == Target \in [Calls -> Keys]
ASSUME NoneAssumption == None \notin Calls

VARIABLES locks,     \* targetLocks: the last promise of each target
          previous,  \* the promise a call is chained on
          pc,        \* how far a call's promise is
          aborted,   \* the abort signal of a call
          cleaned,   \* the finally() callback of a call has run
          arrived    \* history: the calls made for each target, in order

vars == <<locks, previous, pc, aborted, cleaned, arrived>>

Stages == {"idle", "queued", "running", "settled"}

Init ==
  /\ locks = [k \in Keys |-> None]
  /\ previous = [r \in Calls |-> None]
  /\ pc = [r \in Calls |-> "idle"]
  /\ aborted = [r \in Calls |-> FALSE]
  /\ cleaned = [r \in Calls |-> FALSE]
  /\ arrived = [k \in Keys |-> <<>>]

\* const previous = targetLocks.get(target) || Promise.resolve()
Call(r) ==
  /\ pc[r] = "idle"
  /\ previous' = [previous EXCEPT ![r] = locks[Target[r]]]
  /\ locks' = [locks EXCEPT ![Target[r]] = r]
  /\ pc' = [pc EXCEPT ![r] = "queued"]
  /\ arrived' = [arrived EXCEPT ![Target[r]] = Append(@, r)]
  /\ UNCHANGED <<aborted, cleaned>>

\* previous.catch(() => undefined).then(...): a rejected predecessor counts as
\* settled; the signal is read when the turn comes, not when the call is made.
Begin_NoWait(r) ==
  /\ pc[r] = "queued"
  /\ pc' = [pc EXCEPT ![r] = IF aborted[r] THEN "settled" ELSE "running"]
  /\ UNCHANGED <<locks, previous, aborted, cleaned, arrived>>

Begin_SkipsAborted(r) ==
  /\ pc[r] = "queued"
  /\ previous[r] # None =>
       pc[previous[r]] = "settled" \/ (aborted[previous[r]] /\ pc[previous[r]] = "queued")
  /\ pc' = [pc EXCEPT ![r] = IF aborted[r] THEN "settled" ELSE "running"]
  /\ UNCHANGED <<locks, previous, aborted, cleaned, arrived>>

Begin_Drops(r) ==
  /\ pc[r] = "queued" /\ ~aborted[r]
  /\ previous[r] # None => pc[previous[r]] = "settled"
  /\ pc' = [pc EXCEPT ![r] = "running"]
  /\ UNCHANGED <<locks, previous, aborted, cleaned, arrived>>

Begin(r) ==
  /\ pc[r] = "queued"
  /\ previous[r] # None => pc[previous[r]] = "settled"
  /\ pc' = [pc EXCEPT ![r] = IF aborted[r] THEN "settled" ELSE "running"]
  /\ UNCHANGED <<locks, previous, aborted, cleaned, arrived>>

\* The task's promise resolves or rejects.
Settle(r) ==
  /\ pc[r] = "running"
  /\ pc' = [pc EXCEPT ![r] = "settled"]
  /\ UNCHANGED <<locks, previous, aborted, cleaned, arrived>>

\* current.finally(...): remove the lock if this call is still the last one.
CleanUp_Always(r) ==
  /\ pc[r] = "settled" /\ ~cleaned[r]
  /\ locks' = [locks EXCEPT ![Target[r]] = None]
  /\ cleaned' = [cleaned EXCEPT ![r] = TRUE]
  /\ UNCHANGED <<previous, pc, aborted, arrived>>

CleanUp_Never(r) ==
  /\ pc[r] = "settled" /\ ~cleaned[r]
  /\ cleaned' = [cleaned EXCEPT ![r] = TRUE]
  /\ UNCHANGED <<locks, previous, pc, aborted, arrived>>

CleanUp(r) ==
  /\ pc[r] = "settled" /\ ~cleaned[r]
  /\ locks' = [locks EXCEPT ![Target[r]] = IF @ = r THEN None ELSE @]
  /\ cleaned' = [cleaned EXCEPT ![r] = TRUE]
  /\ UNCHANGED <<previous, pc, aborted, arrived>>

\* The requester disconnects; the signal of a request that never called the
\* lock, or whose promise is settled, is nobody's concern.
Abort(r) ==
  /\ pc[r] \in {"queued", "running"} /\ ~aborted[r]
  /\ aborted' = [aborted EXCEPT ![r] = TRUE]
  /\ UNCHANGED <<locks, previous, pc, cleaned, arrived>>

Next ==
  \E r \in Calls : Call(r) \/ Begin(r) \/ Settle(r) \/ CleanUp(r) \/ Abort(r)

\* The event loop runs the callbacks of settled promises; every task of the
\* bridge settles (its turn has timers).
Fairness ==
  \A r \in Calls : WF_vars(Begin(r)) /\ WF_vars(Settle(r)) /\ WF_vars(CleanUp(r))

Spec == Init /\ [][Next]_vars
FairSpec == Spec /\ Fairness

------------------------------------------------------------------------------
TypeOK ==
  /\ locks \in [Keys -> Calls \cup {None}]
  /\ previous \in [Calls -> Calls \cup {None}]
  /\ pc \in [Calls -> Stages]
  /\ aborted \in [Calls -> BOOLEAN]
  /\ cleaned \in [Calls -> BOOLEAN]
  /\ arrived \in [Keys -> Seq(Calls)]

\* Two tasks of one target never run at the same time.
MutualExclusion ==
  \A r, s \in Calls :
    pc[r] = "running" /\ pc[s] = "running" /\ Target[r] = Target[s] => r = s

\* The map holds no promise of a target whose calls have all been cleaned up:
\* targets that come and go do not accumulate.
NoLockLeak ==
  \A k \in Keys : locks[k] # None => ~cleaned[locks[k]]

\* The promise chain is a first-come, first-served lock per target.
Serial == INSTANCE SerialQueue
SerialSpec == Serial!Spec

\* Under fair scheduling it keeps the promise that every call gets its turn.
SerialFairSpec == Serial!FairSpec
==============================================================================
