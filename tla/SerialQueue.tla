----------------------------- MODULE SerialQueue -----------------------------
(***************************************************************************)
(* What a per-key serial lock promises: the calls made for one key run one *)
(* at a time and in the order they were made; a call whose signal is       *)
(* aborted before its turn comes is skipped; other keys are not affected.  *)
(* Target[r] is the key of call r.                                         *)
(***************************************************************************)
EXTENDS Naturals, Sequences, FiniteSets

CONSTANTS Keys, Calls, Target

VARIABLES arrived,  \* per key: the calls made so far, in order
          pc        \* how far each call is

sqVars == <<arrived, pc>>

Stages == {"idle", "queued", "running", "settled"}

Init ==
  /\ arrived = [k \in Keys |-> <<>>]
  /\ pc = [r \in Calls |-> "idle"]

Call(r) ==
  /\ pc[r] = "idle"
  /\ arrived' = [arrived EXCEPT ![Target[r]] = Append(@, r)]
  /\ pc' = [pc EXCEPT ![r] = "queued"]

\* Its turn came: the task runs, or is skipped when the signal was aborted.
Enter(r, stage) ==
  /\ pc[r] = "queued"
  /\ LET line == arrived[Target[r]]
     IN \A i, j \in DOMAIN line : i < j /\ line[j] = r => pc[line[i]] = "settled"
  /\ pc' = [pc EXCEPT ![r] = stage]
  /\ UNCHANGED arrived

Leave(r) ==
  /\ pc[r] = "running"
  /\ pc' = [pc EXCEPT ![r] = "settled"]
  /\ UNCHANGED arrived

Turn(r) == Enter(r, "running") \/ Enter(r, "settled")

Next == \E r \in Calls : Call(r) \/ Turn(r) \/ Leave(r)

Spec == Init /\ [][Next]_sqVars
FairSpec == Spec /\ \A r \in Calls : WF_sqVars(Turn(r)) /\ WF_sqVars(Leave(r))
==============================================================================
