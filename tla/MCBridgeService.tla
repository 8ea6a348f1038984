--------------------------- MODULE MCBridgeService ---------------------------
(***************************************************************************)
(* Two requests at one target.  The view leaves out what no action reads   *)
(* and no property of the run tells apart: what was reflected, why an      *)
(* agent failed, how a turn failed once its callbacks have run, in which   *)
(* order outcomes were recorded, and the signal of an answered request.    *)
(***************************************************************************)
EXTENDS BridgeService

Coarse(class) == IF class \in Failures \ {"cancelled"} THEN "failed" ELSE class

View ==
  <<[agent EXCEPT !.reason = None],
    [cycles EXCEPT !.cache = [i \in DOMAIN @ |-> [@[i] EXCEPT !.outcome.class = Coarse(@)]]],
    line,
    [r \in Requests |-> [req[r] EXCEPT !.aborted = @ /\ req[r].pc # "done", !.reply = Coarse(@)]],
    [r \in Requests |-> IF turn[r].reacted THEN [turn[r] EXCEPT !.promise = Coarse(@)] ELSE turn[r]],
    {<<o.key, o.outcome.of>> : o \in Range(outcomes)}, Len(outcomes)>>
==============================================================================
