---- MODULE MCController ----
EXTENDS Controller, TLC
Symmetry == Permutations(Apps) \cup Permutations(SessionIds)
====
