-------------------------- MODULE CapabilityProofs --------------------------
(***************************************************************************)
(* Proofs about setup capabilities (Capability), for any number of         *)
(* requests and capabilities, any capacity of the table and any number of  *)
(* restarts.                                                               *)
(***************************************************************************)
EXTENDS Capability, FiniteSetTheorems, TLAPS

Entry(c) == [nonce |-> c.nonce, expires |-> c.expires]

\* What was accepted had been issued, and so had what is in the table; a request
\* past the signature carries the secret of the backend that checks it, and has
\* read a clock that has only gone on.
RequestInv ==
  /\ IsFiniteSet(issued)
  /\ accepted \subseteq {c.nonce : c \in issued}
  /\ consumed \subseteq {Entry(c) : c \in issued}
  /\ \A c \in issued : c.secret <= secret
  /\ \A r \in Handlers :
       /\ request[r].step \in {"read", "lock"} => request[r].capability.secret = secret
       /\ request[r].step = "lock" => request[r].now <= clock

\* A capability that this backend accepted is in its table until it expires.
ReplayInv ==
  \A c \in issued : c.nonce \in accepted /\ c.secret = secret =>
    c.expires <= clock \/ Entry(c) \in consumed

CapabilityInv == CapabilityTypeOK /\ RequestInv /\ ReplayInv /\ AcceptedOnce

-----------------------------------------------------------------------------
(* The table.                                                              *)

\* The table is pruned, or pruned and one more, within its capacity.
LEMMA TableFits ==
  ASSUME CapabilityTypeOK, NEW now, NEW e \in Entries
  PROVE  /\ IsFiniteSet(Unexpired(now)) /\ Unexpired(now) \subseteq consumed
         /\ Cardinality(Unexpired(now)) \in Nat /\ Cardinality(Unexpired(now)) <= Capacity
         /\ IsFiniteSet(Unexpired(now) \cup {e})
         /\ Cardinality(Unexpired(now)) < Capacity => Cardinality(Unexpired(now) \cup {e}) <= Capacity
<1>1. Unexpired(now) \in SUBSET consumed /\ IsFiniteSet(consumed)
  BY DEF Unexpired, CapabilityTypeOK
<1>2. Cardinality(consumed) \in Nat /\ Cardinality(consumed) <= Capacity /\ Capacity \in Nat
  BY <1>1, FS_CardinalityType, CapabilityAssumption DEF CapabilityTypeOK
<1>3. IsFiniteSet(Unexpired(now)) /\ Cardinality(Unexpired(now)) <= Cardinality(consumed)
  BY <1>1, FS_Subset
<1>4. Cardinality(Unexpired(now)) \in Nat
  BY <1>3, FS_CardinalityType
<1>5. /\ IsFiniteSet(Unexpired(now) \cup {e})
      /\ Cardinality(Unexpired(now) \cup {e})
           = IF e \in Unexpired(now) THEN Cardinality(Unexpired(now)) ELSE Cardinality(Unexpired(now)) + 1
  BY <1>3, FS_AddElement
<1> QED
  BY <1>1, <1>2, <1>3, <1>4, <1>5

\* What the part of Consume under the mutex does, one way or the other.
LEMMA ConsumeCases ==
  ASSUME CapabilityTypeOK, NEW r \in Handlers, Consume(r)
  PROVE  LET c == request[r].capability
             kept == Unexpired(request[r].now)
         IN  /\ c \in issued /\ c \in Capabilities /\ Entry(c) \in Entries /\ request[r].now \in Nat
             /\ request[r].step = "lock" /\ request' = [request EXCEPT ![r] = Done]
             /\ UNCHANGED <<clock, secret, issued>>
             /\ \/ consumed' = kept /\ UNCHANGED <<accepted, again, overtaken>>
                \/ /\ c.expires > request[r].now /\ ~Used(kept, c) /\ Cardinality(kept) < Capacity
                   /\ consumed' = kept \cup {Entry(c)} /\ Accept(c)
<1> DEFINE c == request[r].capability
           kept == Unexpired(request[r].now)
<1>1. request[r].step = "lock" /\ request' = [request EXCEPT ![r] = Done] /\ UNCHANGED <<clock, secret, issued>>
  BY DEF Consume
<1>2. request[r] \in Waiting /\ c \in issued
  BY <1>1 DEF CapabilityTypeOK, Done
<1>3. c \in Capabilities /\ Entry(c) \in Entries /\ request[r].now \in Nat
  BY <1>2 DEF CapabilityTypeOK, Capabilities, Entry, Entries, Waiting
<1>4. Cardinality(kept) \in Nat /\ Capacity \in Nat
  BY <1>3, TableFits, CapabilityAssumption
<1>5. c.expires \in Nat
  BY <1>3 DEF Capabilities
<1>6. CASE c.expires <= request[r].now \/ Used(kept, c) \/ Cardinality(kept) >= Capacity
  BY <1>1, <1>2, <1>3, <1>6 DEF Consume
<1>7. CASE ~(c.expires <= request[r].now \/ Used(kept, c) \/ Cardinality(kept) >= Capacity)
  <2>1. consumed' = kept \cup {Entry(c)} /\ Accept(c)
    BY <1>7 DEF Consume, Entry
  <2> QED
    BY <1>1, <1>2, <1>3, <1>4, <1>5, <1>7, <2>1
<1> QED
  BY <1>6, <1>7

-----------------------------------------------------------------------------
(* CapabilityInv is inductive.                                             *)

LEMMA CapabilityInitially == CapabilityInit => CapabilityInv
<1> SUFFICES ASSUME CapabilityInit PROVE CapabilityInv
  OBVIOUS
<1>1. IsFiniteSet({}) /\ Cardinality({}) = 0
  BY FS_EmptySet
<1>2. CapabilityTypeOK
  BY <1>1, CapabilityAssumption DEF CapabilityInit, CapabilityTypeOK, Done
<1>3. RequestInv
  BY <1>1 DEF CapabilityInit, RequestInv, Done
<1> QED
  BY <1>2, <1>3 DEF CapabilityInit, CapabilityInv, ReplayInv, AcceptedOnce

\* A new capability has a nonce that has not been accepted.
LEMMA IssueStep == ASSUME CapabilityInv, NEW b \in Bindings, Issue(b) PROVE CapabilityInv'
<1> USE DEF CapabilityInv
<1>1. PICK nonce \in Nonces \ {c.nonce : c \in issued} :
        issued' = issued \cup {[nonce |-> nonce, binding |-> b, secret |-> secret, expires |-> clock + Age]}
  BY DEF Issue
<1> DEFINE new == [nonce |-> nonce, binding |-> b, secret |-> secret, expires |-> clock + Age]
<1>2. /\ new \in Capabilities /\ new.nonce = nonce /\ new.secret = secret
      /\ nonce \notin accepted /\ issued' = issued \cup {new}
  BY <1>1, CapabilityAssumption DEF CapabilityTypeOK, Capabilities, RequestInv
<1>3. UNCHANGED <<clock, secret, request, consumed, accepted, again, overtaken>>
  BY DEF Issue, requestVars
<1>4. CapabilityTypeOK'
  <2>1. \A c, d \in issued' : c.nonce = d.nonce => c = d
    BY <1>1, <1>2 DEF CapabilityTypeOK
  <2> QED
    BY <1>2, <1>3, <2>1 DEF CapabilityTypeOK
<1>5. RequestInv'
  <2>1. IsFiniteSet(issued')
    BY <1>2, FS_AddElement DEF RequestInv
  <2>2. (\A c \in issued : c.secret <= secret) /\ secret <= secret
    BY DEF RequestInv, CapabilityTypeOK
  <2> HIDE DEF new
  <2> QED
    BY <1>2, <1>3, <2>1, <2>2 DEF RequestInv
<1>6. ReplayInv'
  <2> HIDE DEF new
  <2> QED
    BY <1>2, <1>3 DEF ReplayInv, Entry
<1> QED
  BY <1>3, <1>4, <1>5, <1>6 DEF AcceptedOnce

\* What a request does before it waits for the mutex.
LEMMA RequestSteps ==
  ASSUME CapabilityInv, NEW r \in Handlers,
         Verify(r) \/ ReadClock(r) \/ (\E c \in issued, b \in Bindings : Present(r, c, b))
  PROVE  CapabilityInv'
<1> USE DEF CapabilityInv
<1>1. UNCHANGED <<clock, secret, issued, consumed, accepted, again, overtaken>>
  BY DEF Verify, ReadClock, Present
<1>2. /\ request' = [request EXCEPT ![r] = request'[r]]
      /\ request'[r] \in {Done} \cup Waiting
      /\ request'[r] # Done => request'[r].capability \in issued
      /\ request'[r].step \in {"read", "lock"} => request'[r].capability.secret = secret
      /\ request'[r].step = "lock" => request'[r].now <= clock
  <2>1. CASE Verify(r)
    BY <2>1 DEF Verify, CapabilityTypeOK, Waiting, Done
  <2>2. CASE ReadClock(r)
    <3>1. request[r] \in Waiting /\ request[r].capability \in issued
      BY <2>2 DEF ReadClock, CapabilityTypeOK, Done
    <3>2. /\ request[r].capability.secret = secret /\ clock \in Nat
          /\ request' = [request EXCEPT ![r] = [[request[r] EXCEPT !.step = "lock"] EXCEPT !.now = clock]]
      BY <2>2 DEF ReadClock, CapabilityTypeOK, RequestInv
    <3>3. request'[r] = [[request[r] EXCEPT !.step = "lock"] EXCEPT !.now = clock]
      BY <3>2 DEF CapabilityTypeOK
    <3>4. request'[r] = [step |-> "lock", capability |-> request[r].capability,
                         binding |-> request[r].binding, now |-> clock]
      BY <3>1, <3>3 DEF Waiting
    <3>5. request'[r] \in Waiting
      BY <3>1, <3>2, <3>4 DEF Waiting
    <3>6. request' = [request EXCEPT ![r] = request'[r]]
      BY <3>2, <3>3
    <3>7. request'[r].step = "lock" /\ request'[r].capability = request[r].capability /\ request'[r].now = clock
      BY <3>4
    <3> HIDE DEF CapabilityInv
    <3> QED
      BY <3>1, <3>2, <3>5, <3>6, <3>7
  <2>3. CASE \E c \in issued, b \in Bindings : Present(r, c, b)
    BY <2>3 DEF Present, CapabilityTypeOK, Waiting, Done
  <2> QED
    BY <2>1, <2>2, <2>3
<1>3. CapabilityTypeOK'
  BY <1>1, <1>2 DEF CapabilityTypeOK
<1>4. RequestInv' /\ ReplayInv' /\ AcceptedOnce'
  BY <1>1, <1>2 DEF CapabilityTypeOK, RequestInv, ReplayInv, AcceptedOnce
<1> QED
  BY <1>3, <1>4

LEMMA ConsumeStep == ASSUME CapabilityInv, NEW r \in Handlers, Consume(r) PROVE CapabilityInv'
<1> USE DEF CapabilityInv
<1> DEFINE c == request[r].capability
           kept == Unexpired(request[r].now)
<1>1. /\ c \in issued /\ c \in Capabilities /\ Entry(c) \in Entries /\ request[r].now \in Nat
      /\ request[r].step = "lock" /\ request' = [request EXCEPT ![r] = Done]
      /\ UNCHANGED <<clock, secret, issued>>
      /\ \/ consumed' = kept /\ UNCHANGED <<accepted, again, overtaken>>
         \/ /\ c.expires > request[r].now /\ ~Used(kept, c) /\ Cardinality(kept) < Capacity
            /\ consumed' = kept \cup {Entry(c)} /\ Accept(c)
  BY ConsumeCases
<1>2. /\ IsFiniteSet(kept) /\ kept \subseteq consumed /\ Cardinality(kept) <= Capacity
      /\ IsFiniteSet(kept \cup {Entry(c)})
      /\ Cardinality(kept) < Capacity => Cardinality(kept \cup {Entry(c)}) <= Capacity
  BY <1>1, TableFits
<1>3. /\ c.expires \in Nat /\ clock \in Nat /\ request[r].now <= clock /\ c.secret = secret
      /\ c.nonce \in Nonces /\ Entry(c).nonce = c.nonce /\ Entry(c).expires = c.expires
  BY <1>1 DEF CapabilityTypeOK, RequestInv, Capabilities, Entry
<1>4. \A e \in consumed : e.expires \in Nat /\ (e \in kept \/ e.expires <= request[r].now)
  BY <1>1 DEF CapabilityTypeOK, Entries, Unexpired
<1>5. /\ \A s \in Handlers : request'[s] = IF s = r THEN Done ELSE request[s]
      /\ request' \in [Handlers -> {Done} \cup Waiting]
  BY <1>1 DEF CapabilityTypeOK
<1> HIDE DEF c, kept
<1>6. CASE consumed' = kept /\ UNCHANGED <<accepted, again, overtaken>>
  <2>1. CapabilityTypeOK'
    BY <1>1, <1>2, <1>5, <1>6 DEF CapabilityTypeOK
  <2>2. RequestInv'
    BY <1>1, <1>2, <1>5, <1>6 DEF RequestInv, Done
  <2>3. ReplayInv'
    <3> SUFFICES ASSUME NEW d \in issued, d.nonce \in accepted, d.secret = secret
                 PROVE  d.expires <= clock \/ Entry(d) \in kept
      BY <1>1, <1>6 DEF ReplayInv
    <3>1. d.expires <= clock \/ (Entry(d) \in consumed /\ Entry(d).expires = d.expires)
      BY DEF ReplayInv, Entry
    <3> QED
      BY <1>1, <1>3, <1>4, <3>1
  <2> QED
    BY <1>6, <2>1, <2>2, <2>3 DEF AcceptedOnce
<1>7. CASE /\ c.expires > request[r].now /\ ~Used(kept, c) /\ Cardinality(kept) < Capacity
           /\ consumed' = kept \cup {Entry(c)} /\ Accept(c)
  <2>1. /\ accepted' = accepted \cup {c.nonce} /\ again \subseteq again'
        /\ overtaken' = IF c.expires <= clock THEN overtaken \cup {c.nonce} ELSE overtaken
        /\ again' = IF c.nonce \in accepted THEN again \cup {c.nonce} ELSE again
    BY <1>7 DEF Accept
  <2>2. CapabilityTypeOK'
    <3>1. consumed' \subseteq Entries /\ {e.nonce : e \in consumed'} \subseteq accepted'
      BY <1>1, <1>2, <1>3, <1>7, <2>1 DEF CapabilityTypeOK
    <3>2. IsFiniteSet(consumed') /\ Cardinality(consumed') <= Capacity
      BY <1>2, <1>7
    <3>3. accepted' \subseteq Nonces /\ again' \subseteq accepted' /\ overtaken' \subseteq accepted'
      BY <1>3, <2>1 DEF CapabilityTypeOK
    <3> QED
      BY <1>1, <1>5, <3>1, <3>2, <3>3 DEF CapabilityTypeOK
  <2>3. RequestInv'
    BY <1>1, <1>2, <1>5, <1>7, <2>1 DEF RequestInv, Done
  <2>4. ReplayInv'
    <3> SUFFICES ASSUME NEW d \in issued, d.nonce \in accepted \cup {c.nonce}, d.secret = secret
                 PROVE  d.expires <= clock \/ Entry(d) \in kept \cup {Entry(c)}
      BY <1>1, <1>7, <2>1 DEF ReplayInv
    <3>1. d.nonce = c.nonce => d = c
      BY <1>1 DEF CapabilityTypeOK
    <3>2. d.nonce \in accepted => d.expires <= clock \/ (Entry(d) \in consumed /\ Entry(d).expires = d.expires)
      BY DEF ReplayInv, Entry
    <3> QED
      BY <1>1, <1>3, <1>4, <3>1, <3>2
  <2>5. AcceptedOnce'
    <3>1. CASE c.nonce \in accepted
      <4>1. c.expires <= clock \/ Entry(c) \in consumed
        BY <1>1, <1>3, <3>1 DEF ReplayInv
      <4>2. Entry(c) \notin consumed
        BY <1>1, <1>3, <1>4, <1>7 DEF Used
      <4> QED
        BY <2>1, <4>1, <4>2 DEF AcceptedOnce
    <3>2. CASE c.nonce \notin accepted
      BY <2>1, <3>2 DEF AcceptedOnce
    <3> QED
      BY <3>1, <3>2
  <2> QED
    BY <2>2, <2>3, <2>4, <2>5
<1> QED
  BY <1>1, <1>6, <1>7 DEF c, kept

\* Another backend comes with another secret, so that what the last one accepted is
\* of no use to it.
LEMMA RestartSteps == ASSUME CapabilityInv, StopVerifier \/ StartVerifier PROVE CapabilityInv'
<1> USE DEF CapabilityInv
<1>1. /\ UNCHANGED <<clock, issued, accepted, again, overtaken>>
      /\ request' = [s \in Handlers |-> Done]
      /\ \/ UNCHANGED <<consumed, secret>>
         \/ consumed' = {} /\ secret' = secret + 1
  BY DEF StopVerifier, StartVerifier
<1>2. IsFiniteSet({}) /\ Cardinality({}) = 0
  BY FS_EmptySet
<1>3. CapabilityTypeOK'
  <2>1. consumed' \subseteq consumed /\ IsFiniteSet(consumed') /\ Cardinality(consumed') <= Capacity
    <3>1. CASE consumed' = consumed
      BY <3>1 DEF CapabilityTypeOK
    <3>2. CASE consumed' = {}
      BY <1>2, <3>2, CapabilityAssumption
    <3> QED
      BY <1>1, <3>1, <3>2
  <2>2. secret' \in Nat /\ request' \in [Handlers -> {Done} \cup Waiting]
    BY <1>1 DEF CapabilityTypeOK
  <2> QED
    BY <1>1, <2>1, <2>2 DEF CapabilityTypeOK
<1>4. \A c \in issued : c.secret \in Nat /\ c.secret <= secret
  BY DEF CapabilityTypeOK, Capabilities, RequestInv
<1>5. RequestInv' /\ ReplayInv'
  BY <1>1, <1>4 DEF CapabilityTypeOK, RequestInv, ReplayInv, Done
<1> QED
  BY <1>1, <1>3, <1>5 DEF AcceptedOnce

LEMMA TickStep == ASSUME CapabilityInv, Tick PROVE CapabilityInv'
<1> USE DEF CapabilityInv
<1>1. clock \in Nat /\ clock' = clock + 1 /\ UNCHANGED <<secret, issued, request, consumed, accepted, again, overtaken>>
  BY DEF Tick, requestVars, CapabilityTypeOK
<1>2. CapabilityTypeOK'
  BY <1>1 DEF CapabilityTypeOK
<1>3. \A s \in Handlers : request[s].step = "lock" => request[s].now \in Nat
  BY DEF CapabilityTypeOK, Waiting, Done
<1>4. \A c \in issued : c.expires \in Nat
  BY DEF CapabilityTypeOK, Capabilities
<1>5. RequestInv' /\ ReplayInv' /\ AcceptedOnce'
  BY <1>1, <1>3, <1>4 DEF RequestInv, ReplayInv, AcceptedOnce
<1> QED
  BY <1>2, <1>5

LEMMA CapabilityInductive ==
  ASSUME CapabilityInv, [CapabilityNext]_capabilityVars PROVE CapabilityInv'
<1>1. CASE UNCHANGED capabilityVars
  BY <1>1 DEF capabilityVars, requestVars, CapabilityInv, CapabilityTypeOK, RequestInv, ReplayInv, AcceptedOnce
<1>2. CASE \E r \in Handlers : Consume(r)
  BY <1>2, ConsumeStep
<1>3. CASE \E r \in Handlers : Verify(r) \/ ReadClock(r) \/ (\E c \in issued, b \in Bindings : Present(r, c, b))
  BY <1>3, RequestSteps
<1>4. CASE StopVerifier \/ StartVerifier
  BY <1>4, RestartSteps
<1>5. CASE Tick
  BY <1>5, TickStep
<1>6. CASE \E b \in Bindings : Issue(b)
  BY <1>6, IssueStep
<1> QED
  BY <1>1, <1>2, <1>3, <1>4, <1>5, <1>6 DEF CapabilityNext, HandleCapability, RequestStep

-----------------------------------------------------------------------------
(* Theorems.                                                               *)

\* The table has no more entries than there are capabilities accepted and unexpired.
LEMMA TableIsAccounted ==
  ASSUME CapabilityInv, NEW now
  PROVE  LET good == {c \in issued : c.nonce \in accepted /\ c.expires > now}
         IN  Cardinality(good) \in Nat /\ Cardinality(Unexpired(now)) <= Cardinality(good)
<1> DEFINE good == {c \in issued : c.nonce \in accepted /\ c.expires > now}
           entries == {Entry(c) : c \in good}
           entry == [c \in good |-> Entry(c)]
<1>1. IsFiniteSet(good)
  BY FS_Subset DEF CapabilityInv, RequestInv
<1>2. entry \in Surjection(good, entries)
  BY DEF Surjection
<1>3. IsFiniteSet(entries) /\ Cardinality(entries) <= Cardinality(good)
  BY <1>1, <1>2, FS_Surjection
<1>4. Unexpired(now) \subseteq entries
  <2> SUFFICES ASSUME NEW e \in consumed, e.expires > now PROVE e \in entries
    BY DEF Unexpired
  <2>1. PICK c \in issued : e = Entry(c)
    BY DEF CapabilityInv, RequestInv
  <2>2. e.nonce = c.nonce /\ e.expires = c.expires /\ e.nonce \in accepted
    BY <2>1 DEF Entry, CapabilityInv, CapabilityTypeOK
  <2> QED
    BY <2>1, <2>2
<1>5. Cardinality(Unexpired(now)) <= Cardinality(entries)
  BY <1>3, <1>4, FS_Subset
<1>6. Cardinality(good) \in Nat /\ Cardinality(entries) \in Nat /\ Cardinality(Unexpired(now)) \in Nat
  BY <1>1, <1>3, <1>4, FS_Subset, FS_CardinalityType
<1> HIDE DEF entries
<1> QED
  BY <1>3, <1>5, <1>6

LEMMA GoodGoesThrough ==
  ASSUME CapabilityInv, NEW r \in Handlers, Consume(r),
         request[r].capability.expires > clock, request[r].capability.nonce \notin accepted,
         Cardinality({c \in issued : c.nonce \in accepted /\ c.expires > request[r].now}) < Capacity
  PROVE  request[r].capability.nonce \in accepted'
<1> DEFINE c == request[r].capability
           kept == Unexpired(request[r].now)
<1>1. request[r].step = "lock" /\ request[r].now <= clock /\ request[r].now \in Nat /\ c.expires \in Nat /\ clock \in Nat
  BY ConsumeCases DEF CapabilityInv, CapabilityTypeOK, RequestInv, Capabilities
<1>2. c.expires > request[r].now
  BY <1>1
<1>3. ~Used(kept, c)
  BY DEF Used, Unexpired, CapabilityInv, CapabilityTypeOK
<1>4. Cardinality(kept) \in Nat /\ Cardinality(kept) < Capacity /\ Capacity \in Nat
  <2>1. Entry(c) \in Entries
    BY ConsumeCases DEF CapabilityInv
  <2>2. Cardinality(kept) \in Nat
    BY <2>1, TableFits DEF CapabilityInv
  <2> QED
    BY <2>2, TableIsAccounted, CapabilityAssumption
<1>5. Accept(c)
  BY <1>1, <1>2, <1>3, <1>4 DEF Consume
<1> QED
  BY <1>5 DEF Accept

\* The capabilities, the requests and the backend's table stay well-formed, and the table
\* within its capacity (Consume in auth.go), for every number of each.
THEOREM CapabilityTypeCorrect == CapabilitySpec => []CapabilityTypeOK
<1>1. CapabilityInv => CapabilityTypeOK
  BY DEF CapabilityInv
<1> QED
  BY <1>1, CapabilityInitially, CapabilityInductive, PTL DEF CapabilitySpec

\* No capability starts two privileged operations, however many requests, expiries
\* and restarts there are; but for one that expired while its request waited.
THEOREM SingleUse == CapabilitySpec => []AcceptedOnce
<1>1. CapabilityInv => AcceptedOnce
  BY DEF CapabilityInv
<1> QED
  BY <1>1, CapabilityInitially, CapabilityInductive, PTL DEF CapabilitySpec

\* A full table is no reason to refuse, unless it is full of capabilities that are in use.
THEOREM GoodCapabilityIsAccepted == CapabilitySpec => GoodIsAccepted
<1> DEFINE accept ==
      \A r \in Handlers :
        LET q == request[r]
        IN  /\ Consume(r)
            /\ q.capability.expires > clock /\ q.capability.nonce \notin accepted
            /\ Cardinality({c \in issued : c.nonce \in accepted /\ c.expires > q.now}) < Capacity
            => q.capability.nonce \in accepted'
<1>1. CapabilityInv => accept
  BY GoodGoesThrough
<1>2. CapabilityInv => [accept]_capabilityVars
  BY <1>1
<1> QED
  BY <1>2, CapabilityInitially, CapabilityInductive, PTL DEF CapabilitySpec, GoodIsAccepted

=============================================================================
