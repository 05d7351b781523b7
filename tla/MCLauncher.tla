---- MODULE MCLauncher ----
EXTENDS Launcher, TLC
Symmetry == Permutations(Apps) \cup Permutations(SessionIds)

\* Bound: where notices are late or name nothing, nothing is killed or times out.
Apart == nameless # {} \/ late => interrupts' = 0 /\ crashes' = 0
====
