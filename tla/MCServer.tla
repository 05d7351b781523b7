------------------------------ MODULE MCServer ------------------------------
EXTENDS Server, MCShortcuts, TLC

Symmetry == Permutations(Toggles) \cup Permutations(Games) \cup Permutations(Nonces)
              \cup Permutations(Handlers)

\* Bound: shortcuts are managed, or capabilities are used, or sessions requested;
\* any of them with restarts.
Apart ==
  /\ toggles' + writes' + moves' > 0 => clock' = 0 /\ issued' = {} /\ allowed' = {}
  /\ allowed' # {} => issued' = {}
  /\ clock' > 0 \/ issued' # {} \/ allowed' # {} => \A g \in Games : options[g] = <<>>
=============================================================================
