----------------------------- MODULE TurnContract -----------------------------
(***************************************************************************)
(* What a delegated turn promises to the bridge service: its instruction   *)
(* is delivered or it is not, its promise is settled once, and an answer   *)
(* comes only from a delivery that was acknowledged.  A delivery is        *)
(* acknowledged only while the promise is open, so a turn that failed,     *)
(* timed out or was cancelled is never reported as accepted later.         *)
(***************************************************************************)
CONSTANT None

VARIABLES promise,   \* None, or how it was settled
          delivery   \* running, acked, or how it ended without an ack

tcVars == <<promise, delivery>>

Refusals == {"cancelled", "refused", "threw"}
Failures == {"failed", "startup_failed", "model_failure", "cancelled"}

Init == promise = None /\ delivery = "running"

Acknowledge ==
  /\ delivery = "running" /\ promise = None
  /\ delivery' = "acked"
  /\ promise' \in {None, "answered", "failed"}

Refuse ==
  /\ delivery = "running"
  /\ delivery' \in Refusals
  /\ UNCHANGED promise

\* The agent's own report: completed and blocked are answers, failed is not.
Report ==
  /\ delivery = "acked" /\ promise = None
  /\ promise' \in {"answered", "failed"}
  /\ UNCHANGED delivery

FailTurn ==
  /\ promise = None
  /\ promise' \in Failures
  /\ UNCHANGED delivery

Next == Acknowledge \/ Refuse \/ Report \/ FailTurn

Spec == Init /\ [][Next]_tcVars
FairSpec == Spec /\ <>(promise # None) /\ <>(delivery # "running")
==============================================================================
