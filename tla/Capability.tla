----------------------------- MODULE Capability -----------------------------
(***************************************************************************)
(* Setup capabilities: the plugin issues one for each privileged setup     *)
(* request (issue_setup_capability in main.py), and the backend lets it be *)
(* used once (Consume in backend/internal/auth/auth.go).                   *)
(*                                                                         *)
(* The handlers of requests run at once.  Consume reads the clock, checks  *)
(* the claims, reads the clock again and then waits for the mutex.  The    *)
(* clock does not go back.                                                 *)
(***************************************************************************)
EXTENDS Integers, FiniteSets

CONSTANTS
  Bindings,  \* an operation, and what it is to be done with
  Nonces,    \* bound: capabilities issued
  Handlers,  \* bound: requests under way at a time
  Age,       \* SETUP_CAPABILITY_SECONDS
  Capacity,  \* MaxConsumedNonces
  MaxClock   \* bound: seconds

VARIABLES
  clock,
  secret,     \* the plugin's, as a number
  issued,     \* capabilities the plugin issued
  request,    \* what each request is at, and its local variables
  consumed,   \* the backend's table: nonces and when they expire
  accepted,   \* history: the nonces that were accepted
  again,      \* history: those that were accepted more than once
  overtaken   \* history: those accepted after their expiry, by a request that had
              \* read the clock before it

requestVars == <<request, consumed, accepted, again, overtaken>>
capabilityVars == <<clock, secret, issued, requestVars>>

ASSUME CapabilityAssumption ==
  Age \in Nat \ {0} /\ Capacity \in Nat \ {0} /\ MaxClock \in Nat

Capabilities == [nonce : Nonces, binding : Bindings, secret : Nat, expires : Nat]
Entries == [nonce : Nonces, expires : Nat]

Done == [step |-> "done"]

\* now is the second reading of the clock.
Waiting == [step : {"verify", "read", "lock"}, capability : Capabilities, binding : Bindings, now : Nat]

CapabilityInit ==
  /\ clock = 0 /\ secret = 0 /\ issued = {}
  /\ request = [r \in Handlers |-> Done]
  /\ consumed = {} /\ accepted = {} /\ again = {} /\ overtaken = {}

\* Each issue draws a nonce of its own.
Issue(binding) ==
  /\ \E nonce \in Nonces \ {c.nonce : c \in issued} :
       issued' = issued \cup {[nonce |-> nonce, binding |-> binding,
                               secret |-> secret, expires |-> clock + Age]}
  /\ UNCHANGED <<clock, secret, requestVars>>

\* A request comes with a capability: one of any age, that may have been sent
\* before, for this or for something else.
Present(r, c, binding) ==
  /\ request[r] = Done
  /\ request' = [request EXCEPT ![r] = [step |-> "verify", capability |-> c, binding |-> binding, now |-> 0]]
  /\ UNCHANGED <<clock, secret, issued, consumed, accepted, again, overtaken>>

\* verify: the signature is by the plugin's secret, the claims have not expired
\* and are for what is requested.
Verify(r) ==
  /\ request[r].step = "verify"
  /\ LET q == request[r]
     IN  request' = [request EXCEPT ![r] =
                       IF q.capability.secret = secret /\ q.capability.expires > clock
                          /\ q.capability.binding = q.binding
                       THEN [q EXCEPT !.step = "read"] ELSE Done]
  /\ UNCHANGED <<clock, secret, issued, consumed, accepted, again, overtaken>>

ReadClock(r) ==
  /\ request[r].step = "read"
  /\ request' = [request EXCEPT ![r].step = "lock", ![r].now = clock]
  /\ UNCHANGED <<clock, secret, issued, consumed, accepted, again, overtaken>>

Unexpired(now) == {e \in consumed : e.expires > now}

Used(entries, c) == \E e \in entries : e.nonce = c.nonce

Accept(c) ==
  /\ accepted' = accepted \cup {c.nonce}
  /\ again' = IF c.nonce \in accepted THEN again \cup {c.nonce} ELSE again
  /\ overtaken' = IF c.expires <= clock THEN overtaken \cup {c.nonce} ELSE overtaken

\* Mutant: a full table is not pruned first.
ConsumeUnpruned(r) ==
  /\ request[r].step = "lock"
  /\ LET c == request[r].capability
     IN  IF c.expires <= request[r].now \/ Used(consumed, c) \/ Cardinality(consumed) >= Capacity
         THEN UNCHANGED <<consumed, accepted, again, overtaken>>
         ELSE consumed' = consumed \cup {[nonce |-> c.nonce, expires |-> c.expires]} /\ Accept(c)
  /\ request' = [request EXCEPT ![r] = Done]
  /\ UNCHANGED <<clock, secret, issued>>

\* Mutant: the table takes one more.
ConsumeOverfull(r) ==
  /\ request[r].step = "lock"
  /\ LET c == request[r].capability
         kept == Unexpired(request[r].now)
     IN  IF c.expires <= request[r].now \/ Used(kept, c) \/ Cardinality(kept) > Capacity
         THEN consumed' = kept /\ UNCHANGED <<accepted, again, overtaken>>
         ELSE consumed' = kept \cup {[nonce |-> c.nonce, expires |-> c.expires]} /\ Accept(c)
  /\ request' = [request EXCEPT ![r] = Done]
  /\ UNCHANGED <<clock, secret, issued>>

\* The part of Consume under the mutex.  Whatever the handler does then, the
\* capability is used: also if the coordinator says that a job runs.
Consume(r) ==
  /\ request[r].step = "lock"
  /\ LET c == request[r].capability
         kept == Unexpired(request[r].now)
     IN  IF c.expires <= request[r].now \/ Used(kept, c) \/ Cardinality(kept) >= Capacity
         THEN consumed' = kept /\ UNCHANGED <<accepted, again, overtaken>>
         ELSE consumed' = kept \cup {[nonce |-> c.nonce, expires |-> c.expires]} /\ Accept(c)
  /\ request' = [request EXCEPT ![r] = Done]
  /\ UNCHANGED <<clock, secret, issued>>

RequestStep(r) == Verify(r) \/ ReadClock(r) \/ Consume(r)

\* The backend ends, with the requests under way.
StopVerifier ==
  /\ request' = [r \in Handlers |-> Done]
  /\ UNCHANGED <<clock, secret, issued, consumed, accepted, again, overtaken>>

\* Mutant: the secret outlives the table.
StartSameSecret ==
  /\ request' = [r \in Handlers |-> Done] /\ consumed' = {}
  /\ UNCHANGED <<clock, secret, issued, accepted, again, overtaken>>

\* Decky loads the plugin anew: another object, with a secret of its own, starts
\* the next backend, with an empty table.
StartVerifier ==
  /\ request' = [r \in Handlers |-> Done] /\ consumed' = {}
  /\ secret' = secret + 1
  /\ UNCHANGED <<clock, issued, accepted, again, overtaken>>

Tick ==
  /\ clock < MaxClock /\ clock' = clock + 1
  /\ UNCHANGED <<secret, issued, requestVars>>

HandleCapability ==
  \/ \E r \in Handlers : RequestStep(r)
  \/ \E r \in Handlers, c \in issued, b \in Bindings : Present(r, c, b)

CapabilityNext ==
  \/ HandleCapability \/ StopVerifier \/ StartVerifier \/ Tick
  \/ \E b \in Bindings : Issue(b)

CapabilitySpec == CapabilityInit /\ [][CapabilityNext]_capabilityVars

-----------------------------------------------------------------------------
(* Properties.                                                             *)

\* Capabilities are told apart by their nonces; the table holds some that were
\* accepted, with their own expiry and never more than its capacity.
CapabilityTypeOK ==
  /\ clock \in Nat /\ secret \in Nat
  /\ issued \subseteq Capabilities
  /\ \A c, d \in issued : c.nonce = d.nonce => c = d
  /\ request \in [Handlers -> {Done} \cup Waiting]
  /\ \A r \in Handlers : request[r] # Done => request[r].capability \in issued
  /\ consumed \subseteq Entries /\ IsFiniteSet(consumed) /\ Cardinality(consumed) <= Capacity
  /\ {e.nonce : e \in consumed} \subseteq accepted
  /\ accepted \subseteq Nonces /\ again \subseteq accepted /\ overtaken \subseteq accepted

\* "records its nonce atomically before the caller begins the privileged
\* operation": however requests, expiry and restarts interleave, a capability is
\* accepted once.  Only one that expired while its request waited for the mutex
\* may be accepted after its entry is gone from the table.
AcceptedOnce == again \subseteq overtaken

\* The table does not stand in the way of a capability that is good: under the
\* mutex one that has not expired or been used is accepted unless Capacity others
\* are in use that have not expired either.
GoodIsAccepted ==
  [][\A r \in Handlers :
       LET q == request[r]
       IN  /\ Consume(r)
           /\ q.capability.expires > clock /\ q.capability.nonce \notin accepted
           /\ Cardinality({c \in issued : c.nonce \in accepted /\ c.expires > q.now}) < Capacity
           => q.capability.nonce \in accepted']_capabilityVars

=============================================================================
