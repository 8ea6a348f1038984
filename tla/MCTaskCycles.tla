----------------------------- MODULE MCTaskCycles -----------------------------
EXTENDS TaskCycles, TLC

Symmetry == Permutations(Ids) \cup Permutations(Outcomes)
==============================================================================
