------------------------------ MODULE ToolCalls ------------------------------
(***************************************************************************)
(* Human approvals (hitl.ts) and the tool calls that wait for them (the    *)
(* MCP server's callTool): a request is pending until a user decides it or *)
(* its time is up, whichever is noticed first; a caller may go away at any *)
(* moment; a tool then runs under a permit of the shared semaphore.        *)
(*                                                                         *)
(* Each call makes at most one request, so requests are named by calls.    *)
(* The order in which waiting calls get a permit is Semaphore's.           *)
(***************************************************************************)
EXTENDS Naturals, FiniteSets

CONSTANTS
  ToolUses,      \* calls of a tool
  NeedsApproval, \* those whose tool requires approval
  Permits        \* permits of the semaphore

VARIABLES
  use,           \* per call: its step
  request,       \* per call: the state of its request
  due,           \* requests whose time is up
  waiters,       \* requests that have a waiter
  gone,          \* calls whose signal was aborted
  decided        \* per call: what the user was told of the decision

toolVars == <<use, request, due, waiters, gone, decided>>

Final == {"approved", "rejected", "expired"}

Init ==
  /\ use = [c \in ToolUses |-> "new"]
  /\ request = [c \in ToolUses |-> "none"]
  /\ due = {} /\ waiters = {} /\ gone = {}
  /\ decided = [c \in ToolUses |-> "none"]

Running == {c \in ToolUses : use[c] = "running"}

-----------------------------------------------------------------------------
(* HITLManager *)

\* A final state: the timer is cleared and every waiter resolved.  A call that
\* still waits goes on if it was approved.
Resolve(c, state) ==
  /\ request' = [request EXCEPT ![c] = state]
  /\ waiters' = waiters \ {c}
  /\ use' = [use EXCEPT ![c] =
       IF @ # "waiting" THEN @ ELSE IF state = "approved" THEN "queued" ELSE "refused"]

\* The clock passes the request's expiresAt; its timer may be later.
TimeIsUp(c) ==
  /\ request[c] = "pending"
  /\ c \notin due
  /\ due' = due \cup {c}
  /\ UNCHANGED <<use, request, waiters, gone, decided>>

\* The timer, or a look at the request (get, listRequests, expireDue).
Expire(c) ==
  /\ c \in due
  /\ request[c] = "pending"
  /\ Resolve(c, "expired")
  /\ UNCHANGED <<due, gone, decided>>

Decide_Late(c, state) ==
  /\ request[c] # "none"
  /\ decided[c] = "none"
  /\ IF request[c] # "pending"
     THEN decided' = [decided EXCEPT ![c] = "refused"] /\ UNCHANGED <<use, request, waiters>>
     ELSE decided' = [decided EXCEPT ![c] = state] /\ Resolve(c, state)
  /\ UNCHANGED <<due, gone>>

\* A decision is refused when the request is not pending, or turns out to be due.
Decide(c, state) ==
  /\ request[c] # "none"
  /\ decided[c] = "none"
  /\ IF request[c] # "pending"
     THEN decided' = [decided EXCEPT ![c] = "refused"] /\ UNCHANGED <<use, request, waiters>>
     ELSE IF c \in due
     THEN decided' = [decided EXCEPT ![c] = "refused"] /\ Resolve(c, "expired")
     ELSE decided' = [decided EXCEPT ![c] = state] /\ Resolve(c, state)
  /\ UNCHANGED <<due, gone>>

-----------------------------------------------------------------------------
(* callTool *)

\* The request is recorded in the ledger; then the approval is asked for.
Call(c) ==
  /\ use[c] = "new"
  /\ use' = [use EXCEPT ![c] = "recorded"]
  /\ UNCHANGED <<request, due, waiters, gone, decided>>

\* A caller that has gone leaves the request behind without a waiter.
Ask(c) ==
  /\ use[c] = "recorded"
  /\ IF c \notin NeedsApproval
     THEN use' = [use EXCEPT ![c] = "queued"] /\ UNCHANGED <<request, waiters>>
     ELSE /\ request' = [request EXCEPT ![c] = "pending"]
          /\ IF c \in gone
             THEN use' = [use EXCEPT ![c] = "failed"] /\ UNCHANGED waiters
             ELSE use' = [use EXCEPT ![c] = "waiting"] /\ waiters' = waiters \cup {c}
  /\ UNCHANGED <<due, gone, decided>>

\* The abort ends the wait of the call, not the one it left with the manager,
\* and takes a call out of the semaphore's queue; a tool that runs is told.
Abort(c) ==
  /\ use[c] \in {"recorded", "waiting", "queued", "running"}
  /\ c \notin gone
  /\ gone' = gone \cup {c}
  /\ use' = [use EXCEPT ![c] = IF @ \in {"waiting", "queued"} THEN "failed" ELSE @]
  /\ UNCHANGED <<request, due, waiters, decided>>

\* A permit is free; a caller that has gone is refused one.
Execute(c) ==
  /\ use[c] = "queued"
  /\ IF c \in gone THEN use' = [use EXCEPT ![c] = "failed"]
     ELSE /\ Cardinality(Running) < Permits
          /\ use' = [use EXCEPT ![c] = "running"]
  /\ UNCHANGED <<request, due, waiters, gone, decided>>

\* The handler returns or throws; the permit is released either way.
Return(c) ==
  /\ use[c] = "running"
  /\ \E r \in {"answered", "failed"} : use' = [use EXCEPT ![c] = r]
  /\ UNCHANGED <<request, due, waiters, gone, decided>>

Next ==
  \E c \in ToolUses :
    \/ TimeIsUp(c) \/ Expire(c)
    \/ \E state \in {"approved", "rejected"} : Decide(c, state)
    \/ Call(c) \/ Ask(c) \/ Abort(c) \/ Execute(c) \/ Return(c)

\* Every request has a time to live and a timer; a tool returns.
Progress(c) == TimeIsUp(c) \/ Expire(c) \/ Ask(c) \/ Execute(c) \/ Return(c)

Spec == Init /\ [][Next]_toolVars /\ \A c \in ToolUses : WF_toolVars(Progress(c))

-----------------------------------------------------------------------------

Unfinished(c) == use[c] \in {"recorded", "waiting", "queued", "running"} \/ c \in waiters

\* A tool that needs approval runs only when a user approved this very request
\* in time; and nobody whose decision was accepted sees another outcome.
OnlyApprovedToolsRun ==
  \A c \in ToolUses :
    /\ c \in NeedsApproval /\ use[c] \in {"running", "answered"} => decided[c] = "approved"
    /\ decided[c] \in {"approved", "rejected"} => request[c] = decided[c] /\ c \notin due
    /\ request[c] \in Final => c \notin waiters
=============================================================================
