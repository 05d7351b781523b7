---- MODULE MCSetupEvents ----
EXTENDS SetupEvents, TLC
Symmetry == Permutations(JobIds) \cup Permutations(Reconciles) \cup Permutations(Kinds)
====
