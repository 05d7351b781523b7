---------------------------- MODULE RateLimiter ----------------------------
(***************************************************************************)
(* The limit on transitions (backend/internal/server/limiter.go): so many  *)
(* requests in a window, which begins with the first request after the end *)
(* of the last.                                                            *)
(***************************************************************************)
EXTENDS Integers, FiniteSets

CONSTANTS Limit, Window, MaxAllowed \* bound: requests let through

VARIABLES
  started, count, \* the fields of transitionLimiter
  allowed         \* history: the requests let through, with their times

limiterVars == <<started, count, allowed>>

ASSUME LimiterAssumption == Limit \in Nat \ {0} /\ Window \in Nat \ {0} /\ MaxAllowed \in Nat

LimiterInit == started = 0 /\ count = 0 /\ allowed = {}

\* Mutant: the end of a window does not begin another.
AllowAfterFirst(now) ==
  /\ Cardinality(allowed) < MaxAllowed
  /\ LET used == IF now - started >= Window THEN 0 ELSE count
     IN  IF used >= Limit
         THEN UNCHANGED <<count, allowed>>
         ELSE count' = used + 1 /\ allowed' = allowed \cup {[at |-> now, number |-> Cardinality(allowed)]}
  /\ UNCHANGED started

Allow(now) ==
  /\ Cardinality(allowed) < MaxAllowed
  /\ LET over == now - started >= Window
         used == IF over THEN 0 ELSE count
     IN  /\ started' = IF over THEN now ELSE started
         /\ IF used >= Limit
            THEN count' = used /\ UNCHANGED allowed
            ELSE /\ count' = used + 1
                 /\ allowed' = allowed \cup {[at |-> now, number |-> Cardinality(allowed)]}

\* A new process has a new limiter.
StartLimiter(now) == started' = now /\ count' = 0 /\ allowed' = {}

-----------------------------------------------------------------------------
(* Properties.                                                             *)

During(from, to) == {a \in allowed : from <= a.at /\ a.at < to}

\* Windows are not aligned with requests, so a burst at the end of one and a burst
\* at the start of the next meet: whenever one looks, no more than twice the limit
\* is let through in the length of a window.
BurstsAreBounded ==
  \A a \in allowed : Cardinality(During(a.at, a.at + Window)) <= 2 * Limit

=============================================================================
