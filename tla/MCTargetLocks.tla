---------------------------- MODULE MCTargetLocks ----------------------------
EXTENDS TargetLocks, TLC

CONSTANTS k1, k2, r1, r2, r3, r4

\* Three calls compete for one target; the fourth belongs to another one.
MCTarget == r1 :> k1 @@ r2 :> k1 @@ r3 :> k1 @@ r4 :> k2
==============================================================================
