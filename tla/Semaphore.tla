------------------------------ MODULE Semaphore ------------------------------
(***************************************************************************)
(* The counting semaphore of src/main/semaphore.ts: FIFO waiters, optional *)
(* timeouts and abort signals, idempotent release, close.                  *)
(*                                                                         *)
(* JavaScript runs every method to completion, so one method call, timer   *)
(* callback or abort listener is one action.  A request of Requests is one *)
(* call of acquire()/tryAcquire(); opts[r] says which of a timer and an    *)
(* abort listener the waiter still has armed.                              *)
(***************************************************************************)
EXTENDS Integers, Sequences, FiniteSets

CONSTANTS Requests,  \* calls of acquire() and tryAcquire()
          Limit      \* the constructor's limit

ASSUME LimitAssumption == Limit \in Nat \ {0}   \* assertLimit
ASSUME RequestsAssumption == IsFiniteSet(Requests)

VARIABLES active,    \* this.active
          waiters,   \* this.waiters
          closed,    \* this.closed
          state,     \* how the promise of each request stands
          opts       \* listeners a request still has armed

vars == <<active, waiters, closed, state, opts>>

Options == {"timer", "signal"}
Rejected == {"timeout", "aborted", "closed", "refused"}
States == {"idle", "waiting", "granted", "released"} \cup Rejected

Init ==
  /\ active = 0
  /\ waiters = <<>>
  /\ closed = FALSE
  /\ state = [r \in Requests |-> "idle"]
  /\ opts = [r \in Requests |-> {}]

------------------------------------------------------------------------------
\* pump(): grant from the head while a slot is free, given the queue and the
\* number of active permits the caller has just left behind.
Granted(act, queue) ==
  IF closed \/ act >= Limit THEN 0
  ELSE IF Len(queue) <= Limit - act THEN Len(queue) ELSE Limit - act

\* The effect of a method that leaves `act' permits, `queue' and `st' and ends
\* in pump(); grant() cleans up what the granted waiters had armed.
Pump(act, queue, st, armed) ==
  LET n == Granted(act, queue)
      won == {queue[i] : i \in 1 .. n}
  IN /\ active' = act + n
     /\ waiters' = SubSeq(queue, n + 1, Len(queue))
     /\ state' = [r \in Requests |-> IF r \in won THEN "granted" ELSE st[r]]
     /\ opts' = [r \in Requests |-> IF r \in won THEN {} ELSE armed[r]]

Settle(r, s) == [state EXCEPT ![r] = s]

\* cleanupWaiter(): clear the timer, remove the abort listener.
Disarm(r) == [opts EXCEPT ![r] = {}]

\* waiters.splice(i, 1)
Splice(queue, i) == [j \in 1 .. Len(queue) - 1 |-> IF j < i THEN queue[j] ELSE queue[j + 1]]

------------------------------------------------------------------------------
\* acquire() with the listeners o; a signal that is already aborted rejects.
AcquireRejected(r) ==
  /\ state[r] = "idle"
  /\ \/ closed /\ state' = Settle(r, "closed")
     \/ ~closed /\ state' = Settle(r, "aborted")
  /\ UNCHANGED <<active, waiters, closed, opts>>

AcquireNow(r) ==
  /\ state[r] = "idle" /\ ~closed
  /\ active < Limit /\ waiters = <<>>
  /\ active' = active + 1
  /\ state' = Settle(r, "granted")
  /\ UNCHANGED <<waiters, closed, opts>>

AcquireQueued_Unshift(r, o) ==
  /\ state[r] = "idle" /\ ~closed
  /\ ~ (active < Limit /\ waiters = <<>>)
  /\ Pump(active, <<r>> \o waiters, Settle(r, "waiting"), [opts EXCEPT ![r] = o])
  /\ UNCHANGED closed

AcquireQueued(r, o) ==
  /\ state[r] = "idle" /\ ~closed
  /\ ~ (active < Limit /\ waiters = <<>>)
  /\ Pump(active, Append(waiters, r), Settle(r, "waiting"), [opts EXCEPT ![r] = o])
  /\ UNCHANGED closed

TryAcquire(r) ==
  /\ state[r] = "idle"
  /\ \/ /\ closed \/ active >= Limit \/ waiters # <<>>
        /\ state' = Settle(r, "refused")
        /\ UNCHANGED active
     \/ /\ ~ (closed \/ active >= Limit \/ waiters # <<>>)
        /\ state' = Settle(r, "granted")
        /\ active' = active + 1
  /\ UNCHANGED <<waiters, closed, opts>>

\* permit.release(): the second call of the same permit returns at once.
Release_NotIdempotent(r) ==
  /\ state[r] \in {"granted", "released"}
  /\ Pump(IF active > 0 THEN active - 1 ELSE 0, waiters, Settle(r, "released"), opts)
  /\ UNCHANGED closed

Release_NoPump(r) ==
  /\ state[r] = "granted"
  /\ active' = (IF active > 0 THEN active - 1 ELSE 0)
  /\ state' = Settle(r, "released")
  /\ UNCHANGED <<waiters, closed, opts>>

Release(r) ==
  /\ state[r] = "granted"
  /\ Pump(IF active > 0 THEN active - 1 ELSE 0, waiters, Settle(r, "released"), opts)
  /\ UNCHANGED closed

\* rejectWaiter() from the timer or from the abort listener.
Reject(r, option, s) ==
  /\ state[r] = "waiting" /\ option \in opts[r]
  /\ \E i \in DOMAIN waiters :
       waiters[i] = r /\ Pump(active, Splice(waiters, i), Settle(r, s), Disarm(r))
  /\ UNCHANGED closed

Timeout(r) == Reject(r, "timer", "timeout")
Abort(r) == Reject(r, "signal", "aborted")

\* close(): every waiter is rejected; the permits in use stay valid.
Close ==
  /\ ~closed
  /\ closed' = TRUE
  /\ waiters' = <<>>
  /\ state' = [r \in Requests |-> IF state[r] = "waiting" THEN "closed" ELSE state[r]]
  /\ opts' = [r \in Requests |-> IF state[r] = "waiting" THEN {} ELSE opts[r]]
  /\ UNCHANGED active

Next ==
  \/ \E r \in Requests :
       \/ AcquireRejected(r) \/ AcquireNow(r) \/ TryAcquire(r)
       \/ \E o \in SUBSET Options : AcquireQueued(r, o)
       \/ Release(r) \/ Timeout(r) \/ Abort(r)
  \/ Close

\* A holder finishes its task: runExclusive() releases in a finally block.
Fairness == \A r \in Requests : WF_vars(Release(r))

Spec == Init /\ [][Next]_vars
FairSpec == Spec /\ Fairness

------------------------------------------------------------------------------
Holders == {r \in Requests : state[r] = "granted"}

TypeOK ==
  /\ active \in Nat
  /\ waiters \in Seq(Requests)
  /\ closed \in BOOLEAN
  /\ state \in [Requests -> States]
  /\ opts \in [Requests -> SUBSET Options]

\* The counter of active permits is exactly the number of permits that were
\* granted and not yet released (no path of release, timeout, abort or close
\* counts one twice or forgets one), and it never exceeds the limit.
PermitsConserved == active = Cardinality(Holders) /\ active <= Limit

\* The queue holds each request whose promise is unsettled exactly once: no
\* settled waiter stays queued and no unsettled one is lost.
QueueIsTheWaiting ==
  /\ \A r \in Requests : (state[r] = "waiting") <=> (\E i \in DOMAIN waiters : waiters[i] = r)
  /\ \A i, j \in DOMAIN waiters : waiters[i] = waiters[j] => i = j

\* No lost wake-up: somebody waits only while every permit is in use, and a
\* closed semaphore leaves nobody waiting.
WorkConserving == waiters # <<>> => ~closed /\ active = Limit

Before(queue, a, b) ==
  \E i, j \in DOMAIN queue : i < j /\ queue[i] = a /\ queue[j] = b

\* First come, first served, over the whole life of the queue: while a waits,
\* a request that came after it neither gets a permit nor moves in front of it,
\* whatever timeouts and aborts take out of the middle of the queue.
NoOvertaking ==
  [][\A a, b \in Requests :
       /\ state[a] = "waiting" /\ state'[a] = "waiting"
       /\ state[b] = "idle" \/ Before(waiters, a, b)
       => /\ state'[b] # "granted"
          /\ state'[b] = "waiting" => Before(waiters', a, b)]_vars

\* Every queued request is answered, even one with neither timer nor signal,
\* when the holders of permits release them.
EveryWaiterAnswered ==
  \A r \in Requests : state[r] = "waiting" ~> state[r] # "waiting"
==============================================================================
