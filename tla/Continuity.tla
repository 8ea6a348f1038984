----------------------------- MODULE Continuity -----------------------------
(***************************************************************************)
(* The engine of orchestration-engine.ts: who holds which role of a        *)
(* project, and how a role moves on when the quota of its seat is spent.   *)
(* One operator per function; each takes the state of a project and gives  *)
(* the next one.                                                           *)
(*                                                                         *)
(* Of a seat: its role, whether its quota is spent, its failures in a row  *)
(* and the end of its circuit breaker.  Of the events: how many there have *)
(* been, and which of them are handoffs of a role; the code keeps the last *)
(* EventLimit of all types, the model keeps every handoff as history.      *)
(* Left out: checkpoints, prompts, texts of events and the `state' of a    *)
(* seat, which only ranks candidates.  The ranking itself (same provider,  *)
(* other account, oldest) is any choice among the eligible.                *)
(***************************************************************************)
EXTENDS Integers, Sequences, FiniteSets

CONSTANTS
  Seats,         \* ids of seats
  Roles,         \* ORCHESTRATION_ROLES
  None,          \* undefined
  Escalation,    \* policy.allowRoleEscalation
  Threshold,     \* policy.failureThreshold
  Cooldown,      \* policy.cooldownMs
  MaxPerHour,    \* policy.maxHandoffsPerHour
  Hour,          \* 60 * 60_000
  EventLimit     \* CONTINUITY_MAX_EVENTS

\* createEmptyOrchestrationState.
Empty ==
  [enabled  |-> FALSE,
   roles    |-> [r \in Roles |-> None],
   seats    |-> <<>>,
   cooldown |-> [r \in Roles |-> 0],
   logged   |-> 0,
   handoffs |-> [r \in Roles |-> <<>>]]

Known(st, s) == s \in DOMAIN st.seats

\* appendEvents: n more of them.
Log(st, n) == [st EXCEPT !.logged = @ + n]

SetEnabled(st, on) == [Log(st, 1) EXCEPT !.enabled = on]

NewSeat(r) == [role |-> r, spent |-> FALSE, failures |-> 0, openUntil |-> 0]

\* A seat that exists keeps its quota and its failures.
UpsertSeat(st, s, r) ==
  [Log(st, IF Known(st, s) /\ st.seats[s].role = r THEN 0 ELSE 1) EXCEPT !.seats =
     [t \in DOMAIN @ \cup {s} |->
        IF t # s THEN @[t]
        ELSE IF Known(st, s) THEN [@[s] EXCEPT !.role = r] ELSE NewSeat(r)]]

RemoveSeat_KeepsRole(st, s) ==
  IF Known(st, s) THEN [Log(st, 1) EXCEPT !.seats = [t \in DOMAIN @ \ {s} |-> @[t]]] ELSE st

\* Its roles are vacated, an event each.
RemoveSeat(st, s) ==
  IF Known(st, s)
  THEN [Log(st, 1 + Cardinality({r \in Roles : st.roles[r] = s})) EXCEPT
          !.seats = [t \in DOMAIN @ \ {s} |-> @[t]],
          !.roles = [r \in Roles |-> IF @[r] = s THEN None ELSE @[r]]]
  ELSE st

\* `s' is None to leave the role without a seat; an unknown seat is ignored.
AssignRole(st, r, s) ==
  IF s = None THEN [Log(st, 1) EXCEPT !.roles[r] = None]
  ELSE IF Known(st, s) THEN [Log(st, 1) EXCEPT !.roles[r] = s, !.seats[s].role = r]
  ELSE st

UpdateQuota(st, s, spent) ==
  IF Known(st, s) THEN [Log(st, 1) EXCEPT !.seats[s].spent = spent] ELSE st

\* Failures are counted up to the threshold: above it nothing changes but the
\* end of the circuit breaker.
ReportSeatFailure(st, s, now) ==
  IF ~Known(st, s) THEN st
  ELSE LET count == st.seats[s].failures + 1 IN
       IF count < Threshold THEN [st EXCEPT !.seats[s].failures = count]
       ELSE [Log(st, 1) EXCEPT !.seats[s].failures = Threshold,
                               !.seats[s].openUntil = now + Cooldown]

ReportSeatSuccess(st, s) ==
  IF Known(st, s)
  THEN [st EXCEPT !.seats[s].failures = 0, !.seats[s].openUntil = 0]
  ELSE st

\* Who may take the role `r' over from seat `s'; `ready' are the seats whose
\* provider is healthy.
Eligible(st, r, s, now, ready) ==
  {t \in (DOMAIN st.seats \ {s}) \cap ready :
     /\ ~st.seats[t].spent
     /\ st.seats[t].openUntil <= now
     /\ st.seats[t].role = r \/ Escalation}

\* handoffsInLastHour, as far back as the events reach.
Recent(st, r, now) ==
  {i \in DOMAIN st.handoffs[r] :
     /\ st.handoffs[r][i].nr > st.logged - EventLimit
     /\ st.handoffs[r][i].at >= now - Hour}

Blocked_CooldownOnly(st, r, now) == st.cooldown[r] > now

\* The limits of planHandoff.
Blocked(st, r, now) ==
  st.cooldown[r] > now \/ Cardinality(Recent(st, r, now)) >= MaxPerHour

\* The role of `s' goes to `t'.  A role that `t' leaves is left empty, and so is
\* one whose seat is gone (vacateUnassigned).  The handoff is the last event.
HandOver(st, s, t, now) ==
  LET r    == st.seats[s].role
      left == st.seats[t].role
      nr   == st.logged + (IF left # r THEN 2 ELSE 1)
  IN  [st EXCEPT
         !.logged = nr,
         !.seats[s].spent = TRUE,
         !.seats[t] = [@ EXCEPT !.role = r, !.failures = 0, !.openUntil = 0],
         !.roles = [q \in Roles |->
                      IF q = r THEN t
                      ELSE IF q = left \/ ~Known(st, @[q]) THEN None
                      ELSE @[q]],
         !.cooldown[r] = now + Cooldown,
         !.handoffs[r] = Append(@, [at |-> now, nr |-> nr])]

\* planHandoff: the states it may give, and the seat that took over, or None.
PlanHandoff(st, s, now, ready) ==
  IF ~st.enabled \/ ~Known(st, s) THEN {[state |-> st, to |-> None]}
  ELSE LET r == st.seats[s].role
           candidates == Eligible(st, r, s, now, ready)
       IN  IF Blocked(st, r, now) THEN {[state |-> Log(st, 1), to |-> None]}
           ELSE IF candidates = {}
           THEN {[state |-> UpdateQuota(st, s, TRUE), to |-> None]}
           ELSE {[state |-> HandOver(st, s, t, now), to |-> t] : t \in candidates}
=============================================================================
