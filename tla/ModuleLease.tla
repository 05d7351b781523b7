---------------------------- MODULE ModuleLease ----------------------------
(***************************************************************************)
(* What the controller promises about the host's kernel modules: a module  *)
(* is changed only under a lease, a durable note of the snapshot to return *)
(* to, and the lease is neither given up nor exchanged for another as long *)
(* as a change made under it has not been undone.                          *)
(***************************************************************************)
CONSTANTS Modules, Snapshots

VARIABLES
  lease,  \* the set of at most one snapshot to return to
  debt    \* modules changed and not changed back

vars == <<lease, debt>>

Init == lease = {} /\ debt = {}

\* Take a lease, or exchange one under which nothing is owed.
Take == debt = {} /\ (\E s \in Snapshots : lease' = {s}) /\ UNCHANGED debt

\* Change modules, or change some back.
Change == lease # {} /\ debt' \in SUBSET Modules /\ UNCHANGED lease

\* Others change a module back, or the host restarts.
Forgive == debt' \in SUBSET debt /\ UNCHANGED lease

Release == debt = {} /\ lease' = {} /\ UNCHANGED debt

Next == Take \/ Change \/ Forgive \/ Release

Spec == Init /\ [][Next]_vars

\* Every outstanding change is covered by a lease.
Covered == debt # {} => lease # {}

=============================================================================
