------------------------------ MODULE Recursion ------------------------------
(***************************************************************************)
(* Proofs by induction, for the recursive functions of the models: what    *)
(* they are defined by exists, and what holds of the first value and is    *)
(* passed on holds of every one.  The step is a set or a function, so that *)
(* the lemmas have no operator for a parameter.                            *)
(***************************************************************************)
EXTENDS Integers, SequenceTheorems, WellFoundedInduction, FiniteSetTheorems, TLAPS

\* A nonempty set of numbers has a least one: of the sets 1..x one has no other below.
LEMMA Least == ASSUME NEW T \in SUBSET Nat, T # {} PROVE \E x \in T : \A y \in T : x <= y
<1> DEFINE below == {1..x : x \in T}
           R == StrictSubsetOrdering(Nat)
<1>1. below \subseteq FiniteSubsetsOf(Nat) /\ below # {}
  <2>1. ASSUME NEW x \in T PROVE 1..x \in FiniteSubsetsOf(Nat)
    <3>1. IsFiniteSet(1..x)
      BY FS_Interval
    <3>2. 1..x \in SUBSET Nat
      OBVIOUS
    <3> QED
      BY <3>1, <3>2 DEF FiniteSubsetsOf
  <2> HIDE DEF R
  <2> QED
    BY <2>1
<1>2. IsWellFoundedOn(R, FiniteSubsetsOf(Nat))
  BY FS_StrictSubsetOrderingWellFounded
<1>3. \E u \in below : \A v \in below : <<v, u>> \notin R
  <2> HIDE DEF below, R
  <2> QED
    BY <1>1, <1>2, WFMin
<1>4. PICK x \in T : \A y \in T : <<1..y, 1..x>> \notin R
  BY <1>3
<1>5. ASSUME NEW y \in T, y < x PROVE FALSE
  <2>1. x \in 1..x /\ x \notin 1..y /\ (1..y) \subseteq (1..x) /\ (1..x) \subseteq Nat
    BY <1>5
  <2>2. <<1..y, 1..x>> \in R
    BY <2>1 DEF StrictSubsetOrdering
  <2> QED
    BY <1>4, <2>2
<1> QED
  BY <1>4, <1>5

\* Induction over the numbers up to N.
LEMMA Inductive ==
  ASSUME NEW N \in Nat, NEW T, 0 \in T, \A n \in 1..N : n - 1 \in T => n \in T
  PROVE  \A n \in 0..N : n \in T
<1> DEFINE out == {n \in 0..N : n \notin T}
<1> SUFFICES ASSUME out # {} PROVE FALSE
  OBVIOUS
<1>1. PICK m \in out : \A n \in out : m <= n
  <2>1. out \in SUBSET Nat
    OBVIOUS
  <2> HIDE DEF out
  <2> QED
    BY <2>1, Least
<1>2. m \in 1..N /\ m - 1 \in 0..N /\ m - 1 \notin out
  BY <1>1
<1> QED
  BY <1>1, <1>2

\* f is what these steps define, on the numbers up to N.
StepByStep(f, N, S, base, step) ==
  f \in [0..N -> S] /\ f[0] = base /\ \A n \in 1..N : f[n] = step[n][f[n - 1]]

LEMMA RecursiveFunction ==
  ASSUME NEW N \in Nat, NEW S, NEW base \in S, NEW step \in [1..N -> [S -> S]]
  PROVE  \E f : StepByStep(f, N, S, base, step)
<1> DEFINE Upto(k, f) == f[0] = base /\ \A n \in 1..k : f[n] = step[n][f[n - 1]]
           T == {k \in 0..N : \E f \in [0..k -> S] : Upto(k, f)}
<1>1. 0 \in T
  <2>1. \E f \in [0..0 -> S] : Upto(0, f)
    <3> WITNESS [n \in 0..0 |-> base] \in [0..0 -> S]
    <3> QED
      OBVIOUS
  <2> HIDE DEF Upto
  <2> QED
    BY <2>1
<1>2. ASSUME NEW k \in 1..N, k - 1 \in T PROVE k \in T
  <2>1. PICK f \in [0..(k - 1) -> S] : Upto(k - 1, f)
    BY <1>2
  <2> DEFINE g == [n \in 0..k |-> IF n = k THEN step[k][f[k - 1]] ELSE f[n]]
  <2>2. step[k][f[k - 1]] \in S
    BY <2>1
  <2>3. g \in [0..k -> S]
    BY <2>2
  <2>4. Upto(k, g)
    <3>1. g[0] = base
      BY <2>1
    <3>2. ASSUME NEW n \in 1..k PROVE g[n] = step[n][g[n - 1]]
      BY <2>1
    <3> QED
      BY <3>1, <3>2
  <2>5. \E h \in [0..k -> S] : Upto(k, h)
    <3> HIDE DEF g, Upto
    <3> QED
      BY <2>3, <2>4
  <2> HIDE DEF Upto
  <2> QED
    BY <2>5
<1>3. N \in T
  <2>1. \A n \in 1..N : n - 1 \in T => n \in T
    BY <1>2
  <2>2. \A n \in 0..N : n \in T
    <3> HIDE DEF T
    <3> QED
      BY <1>1, <2>1, Inductive
  <2> HIDE DEF T
  <2> QED
    BY <2>2
<1> QED
  BY <1>3 DEF StepByStep

\* Induction over sequences, by what stands last.
LEMMA Appending ==
  ASSUME NEW S, NEW T, <<>> \in T, \A s \in Seq(S), e \in S : s \in T => Append(s, e) \in T
  PROVE  \A s \in Seq(S) : s \in T
<1> SUFFICES ASSUME NEW s \in Seq(S) PROVE s \in T
  OBVIOUS
<1> DEFINE N == Len(s)
           front(n) == SubSeq(s, 1, n)
           U == {n \in 0..N : front(n) \in T}
<1>1. N \in Nat /\ front(N) = s /\ front(0) = <<>>
  BY LenProperties, SubSeqFull, SubSeqEmpty
<1>2. ASSUME NEW n \in 1..N
      PROVE  front(n - 1) \in Seq(S) /\ s[n] \in S /\ front(n) = Append(front(n - 1), s[n])
  <2>1. s[n] \in S /\ \A i \in 1..(n - 1) : s[i] \in S
    BY <1>1, ElementOfSeq
  <2>2. front(n - 1) \in Seq(S)
    BY <1>1, <2>1, SubSeqProperties
  <2>3. front(n) = front(n - 1) \o <<s[n]>>
    BY <1>1, SubSeqRecursiveSecond
  <2> HIDE DEF front
  <2> QED
    BY <2>1, <2>2, <2>3, AppendIsConcat
<1> HIDE DEF front
<1>3. 0 \in U
  BY <1>1
<1>4. ASSUME NEW n \in 1..N, n - 1 \in U PROVE n \in U
  <2>1. front(n - 1) \in T
    BY <1>4
  <2>2. front(n) \in T
    BY <1>2, <2>1
  <2> QED
    BY <2>2
<1>5. \A n \in 0..N : n \in U
  <2>1. \A n \in 1..N : n - 1 \in U => n \in U
    BY <1>4
  <2> HIDE DEF U, N
  <2> QED
    BY <1>1, <1>3, <2>1, Inductive
<1> QED
  BY <1>1, <1>5

LEMMA Pair == ASSUME NEW S, NEW x \in S, NEW y \in S PROVE <<x, y>> = Append(<<x>>, y)
<1> DEFINE a == <<x>>
           b == <<x, y>>
<1>1. /\ a \in Seq(S) /\ Len(a) = 1 /\ a[1] = x /\ a = Append(<<>>, x)
      /\ b \in Seq(S) /\ Len(b) = 2 /\ b[1] = x /\ b[2] = y
  OBVIOUS
<1> HIDE DEF a, b
<1>2. Append(a, y) = b
  <2>1. /\ Append(a, y) \in Seq(S) /\ Len(Append(a, y)) = 2
        /\ Append(a, y)[1] = x /\ Append(a, y)[2] = y
    BY <1>1, AppendProperties
  <2> QED
    BY <1>1, <2>1, SeqEqual
<1> QED
  BY <1>2 DEF a, b

LEMMA Longer ==
  ASSUME NEW S, NEW s \in Seq(S), NEW t \in Seq(S), NEW e \in S
  PROVE  s \o Append(t, e) = Append(s \o t, e)
<1>1. <<e>> \in Seq(S) /\ s \o t \in Seq(S)
  BY ConcatProperties
<1>2. Append(t, e) = t \o <<e>> /\ Append(s \o t, e) = (s \o t) \o <<e>>
  BY <1>1, AppendIsConcat
<1> QED
  BY <1>1, <1>2, ConcatAssociative

=============================================================================
