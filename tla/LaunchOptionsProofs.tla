-------------------------- MODULE LaunchOptionsProofs --------------------------
(***************************************************************************)
(* Proofs about launch options (LaunchOptions): whatever the user wrote,   *)
(* what the code puts around it starts the same command with the same      *)
(* variables.  The recursive functions Without and InFront are taken one   *)
(* token at a time, and then part by part.                                 *)
(***************************************************************************)
EXTENDS LaunchOptions, SequenceTheorems, Recursion

(* Without: what stays of the words.                                       *)

Sift(kept, word, set) == IF word \in set THEN kept ELSE Append(kept, word)

\* What Without is defined by.
Sifts(f, words, set) ==
  f[0] = <<>> /\ \A n \in 1..Len(words) : f[n] = Sift(f[n - 1], words[n], set)

LEMMA WithoutSteps ==
  ASSUME NEW S, NEW words \in Seq(S), NEW set
  PROVE  \E f : /\ Sifts(f, words, set) /\ Without(words, set) = f[Len(words)]
                /\ f[Len(words)] \in Seq(S)
<1> DEFINE N == Len(words)
           kept == CHOOSE f : f = [n \in 0..N |-> IF n = 0 THEN <<>> ELSE Sift(f[n - 1], words[n], set)]
           step == [n \in 1..N |-> [k \in Seq(S) |-> Sift(k, words[n], set)]]
<1>1. N \in Nat /\ <<>> \in Seq(S) /\ \A n \in 1..N : words[n] \in S
  BY LenProperties, ElementOfSeq, EmptySeq
<1>2. \A n \in 1..N : \A k \in Seq(S) : Sift(k, words[n], set) \in Seq(S)
  BY <1>1, AppendProperties DEF Sift
<1>3. step \in [1..N -> [Seq(S) -> Seq(S)]]
  BY <1>2
<1>4. PICK f : StepByStep(f, N, Seq(S), <<>>, step)
  <2> HIDE DEF step, N
  <2> QED
    BY <1>1, <1>3, RecursiveFunction
<1>5. \A n \in 1..N : f[n] = Sift(f[n - 1], words[n], set)
  <2>1. \A n \in 1..N : f[n - 1] \in Seq(S) /\ f[n] = step[n][f[n - 1]]
    <3> HIDE DEF step
    <3> QED
      BY <1>1, <1>4 DEF StepByStep
  <2> QED
    BY <2>1
<1>6. f = [n \in 0..N |-> IF n = 0 THEN <<>> ELSE Sift(f[n - 1], words[n], set)]
  BY <1>1, <1>4, <1>5 DEF StepByStep
<1>7. kept = [n \in 0..N |-> IF n = 0 THEN <<>> ELSE Sift(kept[n - 1], words[n], set)]
  BY <1>6
<1>8. Without(words, set) = kept[N]
  BY DEF Without, Sift
<1> HIDE DEF kept
<1>9. kept[0] = <<>> /\ \A n \in 1..N : kept[n] = Sift(kept[n - 1], words[n], set)
  BY <1>1, <1>7
<1>10. \A n \in 0..N : kept[n] \in Seq(S)
  <2> DEFINE T == {n \in 0..N : kept[n] \in Seq(S)}
  <2>1. 0 \in T
    <3>1. kept[0] \in Seq(S)
      BY <1>1, <1>9
    <3> QED
      BY <1>1, <3>1
  <2>2. ASSUME NEW n \in 1..N, n - 1 \in T PROVE n \in T
    <3>1. kept[n - 1] \in Seq(S) /\ n \in 0..N
      BY <1>1, <2>2
    <3> HIDE DEF N
    <3>2. Sift(kept[n - 1], words[n], set) \in Seq(S)
      BY <1>2, <3>1
    <3>3. kept[n] = Sift(kept[n - 1], words[n], set)
      BY <1>9
    <3> QED
      BY <3>1, <3>2, <3>3
  <2>3. \A n \in 0..N : n \in T
    <3>1. \A n \in 1..N : n - 1 \in T => n \in T
      BY <2>2
    <3> HIDE DEF T, N
    <3> QED
      BY <1>1, <2>1, <3>1, Inductive
  <2> QED
    BY <2>3
<1> QED
  BY <1>1, <1>8, <1>9, <1>10 DEF Sifts

LEMMA WithoutNothing == ASSUME NEW set PROVE Without(<<>>, set) = <<>>
<1>1. <<>> \in Seq({}) /\ Len(<<>>) = 0
  BY EmptySeq
<1>2. PICK f : Sifts(f, <<>>, set) /\ Without(<<>>, set) = f[Len(<<>>)]
  BY <1>1, WithoutSteps
<1> QED
  BY <1>1, <1>2 DEF Sifts

\* It goes through the words one by one.
LEMMA WithoutGrows ==
  ASSUME NEW S, NEW words \in Seq(S), NEW word \in S, NEW set
  PROVE  /\ Without(words, set) \in Seq(S)
         /\ Without(Append(words, word), set) = Sift(Without(words, set), word, set)
<1> DEFINE N == Len(words)
           more == Append(words, word)
<1>1. /\ N \in Nat /\ more \in Seq(S) /\ Len(more) = N + 1 /\ more[N + 1] = word
      /\ \A n \in 1..N : more[n] = words[n]
  BY LenProperties, AppendProperties
<1> HIDE DEF more
<1>2. PICK f : Sifts(f, words, set) /\ Without(words, set) = f[N] /\ f[N] \in Seq(S)
  BY WithoutSteps
<1>3. PICK g : Sifts(g, more, set) /\ Without(more, set) = g[N + 1]
  BY <1>1, WithoutSteps
<1>4. f[N] = g[N]
  <2> DEFINE T == {n \in 0..N : f[n] = g[n]}
  <2>1. 0 \in T
    BY <1>1, <1>2, <1>3 DEF Sifts
  <2>2. ASSUME NEW n \in 1..N, n - 1 \in T PROVE n \in T
    <3>1. n \in 1..(N + 1) /\ more[n] = words[n] /\ f[n - 1] = g[n - 1]
      BY <1>1, <2>2
    <3> QED
      BY <1>1, <1>2, <1>3, <3>1 DEF Sifts
  <2>3. \A n \in 0..N : n \in T
    <3>1. \A n \in 1..N : n - 1 \in T => n \in T
      BY <2>2
    <3> HIDE DEF T, N
    <3> QED
      BY <1>1, <2>1, <3>1, Inductive
  <2> QED
    BY <1>1, <2>3
<1>5. g[N + 1] = Sift(g[N], word, set)
  <2>1. N + 1 \in 1..(N + 1) /\ (N + 1) - 1 = N
    BY <1>1
  <2> QED
    BY <1>1, <1>3, <2>1 DEF Sifts
<1> QED
  BY <1>1, <1>2, <1>3, <1>4, <1>5 DEF more

\* What Without leaves is in its place, and only that.
LEMMA WithoutParts ==
  ASSUME NEW S, NEW set
  PROVE  /\ \A words \in Seq(S) : Without(words, set) \in Seq(S \ set)
         /\ \A s, t \in Seq(S) : Without(s \o t, set) = Without(s, set) \o Without(t, set)
<1>1. \A words \in Seq(S) : Without(words, set) \in Seq(S \ set)
  <2> DEFINE T == {words \in Seq(S) : Without(words, set) \in Seq(S \ set)}
  <2>1. <<>> \in T
    BY EmptySeq, WithoutNothing
  <2>2. ASSUME NEW words \in Seq(S), NEW word \in S, words \in T PROVE Append(words, word) \in T
    <3>1. Without(Append(words, word), set) = Sift(Without(words, set), word, set)
      BY WithoutGrows
    <3>2. CASE word \in set
      BY <2>2, <3>1, <3>2, AppendProperties DEF Sift
    <3>3. CASE word \notin set
      <4>1. Append(Without(words, set), word) \in Seq(S \ set)
        BY <2>2, <3>3, AppendProperties
      <4> QED
        BY <3>1, <3>3, <4>1, AppendProperties DEF Sift
    <3> QED
      BY <3>2, <3>3
  <2> QED
    <3> HIDE DEF T
    <3>1. \A words \in Seq(S) : words \in T
      BY <2>1, <2>2, Appending
    <3> QED
      BY <3>1 DEF T
<1>2. ASSUME NEW s \in Seq(S) PROVE \A t \in Seq(S) : Without(s \o t, set) = Without(s, set) \o Without(t, set)
  <2> DEFINE T == {t \in Seq(S) : Without(s \o t, set) = Without(s, set) \o Without(t, set)}
  <2>1. <<>> \in T
    <3>1. Without(s, set) \in Seq(S \ set)
      BY <1>1
    <3> QED
      BY <3>1, EmptySeq, ConcatEmptySeq, WithoutNothing
  <2>2. ASSUME NEW t \in Seq(S), NEW word \in S, t \in T PROVE Append(t, word) \in T
    <3>1. s \o t \in Seq(S) /\ s \o Append(t, word) = Append(s \o t, word)
      BY ConcatProperties, Longer
    <3>2. Without(s \o Append(t, word), set) = Sift(Without(s, set) \o Without(t, set), word, set)
      <4> DEFINE st == s \o t
      <4>1. Without(st, set) = Without(s, set) \o Without(t, set)
        BY <2>2
      <4>2. st \in Seq(S) /\ s \o Append(t, word) = Append(st, word)
        BY <3>1
      <4> HIDE DEF st, T
      <4>3. Without(Append(st, word), set) = Sift(Without(st, set), word, set)
        BY <4>2, WithoutGrows
      <4> QED
        BY <4>1, <4>2, <4>3
    <3>3. Without(Append(t, word), set) = Sift(Without(t, set), word, set)
      BY WithoutGrows
    <3>4. Without(s, set) \in Seq(S) /\ Without(t, set) \in Seq(S)
      BY WithoutGrows
    <3>5. Without(s, set) \o Append(Without(t, set), word) = Append(Without(s, set) \o Without(t, set), word)
      BY <3>4, Longer
    <3> QED
      BY <3>2, <3>3, <3>5, AppendProperties DEF Sift
  <2> QED
    <3> HIDE DEF T
    <3>1. \A t \in Seq(S) : t \in T
      BY <2>1, <2>2, Appending
    <3> QED
      BY <3>1 DEF T
<1> QED
  BY <1>1, <1>2

-----------------------------------------------------------------------------
(* InFront: the wrapper before each command.                               *)

LEMMA Tokens == {Wrapper, Command, Runtime} \subseteq Token
  BY DEF Token

WithFront(put, token) == put \o IF token = Command THEN <<Wrapper, Command>> ELSE <<token>>

LEMMA FrontAppends ==
  ASSUME NEW put \in Options, NEW token \in Token
  PROVE  /\ WithFront(put, token) \in Options
         /\ WithFront(put, token) = IF token = Command THEN Append(Append(put, Wrapper), Command)
                                ELSE Append(put, token)
<1>1. Append(put, Wrapper) \in Options /\ Append(put, Wrapper) = put \o <<Wrapper>>
  BY Tokens, AppendProperties, AppendIsConcat DEF Options
<1>2. Append(Append(put, Wrapper), Command) \in Options
  BY <1>1, Tokens, AppendProperties DEF Options
<1>3. Append(Append(put, Wrapper), Command) = put \o <<Wrapper, Command>>
  <2>1. <<Wrapper>> \in Seq(Token) /\ <<Wrapper, Command>> = Append(<<Wrapper>>, Command)
    BY Tokens, Pair
  <2> QED
    BY <1>1, <2>1, Tokens, Longer DEF Options
<1>4. Append(put, token) \in Options /\ Append(put, token) = put \o <<token>>
  BY AppendProperties, AppendIsConcat DEF Options
<1> QED
  BY <1>1, <1>2, <1>3, <1>4 DEF WithFront

\* What InFront is defined by.
Fronts(f, options) ==
  f[0] = <<>> /\ \A n \in 1..Len(options) : f[n] = WithFront(f[n - 1], options[n])

LEMMA InFrontSteps ==
  ASSUME NEW options \in Seq(Token)
  PROVE  \E f : /\ Fronts(f, options) /\ InFront(options) = f[Len(options)]
                /\ f[Len(options)] \in Options
<1> DEFINE N == Len(options)
           put == CHOOSE f : f = [n \in 0..N |-> IF n = 0 THEN <<>> ELSE WithFront(f[n - 1], options[n])]
           step == [n \in 1..N |-> [k \in Options |-> WithFront(k, options[n])]]
<1>1. N \in Nat /\ <<>> \in Options /\ \A n \in 1..N : options[n] \in Token
  BY LenProperties, ElementOfSeq, EmptySeq DEF Options
<1>2. \A n \in 1..N : \A k \in Options : WithFront(k, options[n]) \in Options
  BY <1>1, FrontAppends
<1>3. step \in [1..N -> [Options -> Options]]
  BY <1>2
<1>4. PICK f : StepByStep(f, N, Options, <<>>, step)
  <2> HIDE DEF step, N
  <2> QED
    BY <1>1, <1>3, RecursiveFunction
<1>5. \A n \in 1..N : f[n] = WithFront(f[n - 1], options[n])
  <2>1. \A n \in 1..N : f[n - 1] \in Options /\ f[n] = step[n][f[n - 1]]
    <3> HIDE DEF step
    <3> QED
      BY <1>1, <1>4 DEF StepByStep
  <2> QED
    BY <2>1
<1>6. f = [n \in 0..N |-> IF n = 0 THEN <<>> ELSE WithFront(f[n - 1], options[n])]
  BY <1>1, <1>4, <1>5 DEF StepByStep
<1>7. put = [n \in 0..N |-> IF n = 0 THEN <<>> ELSE WithFront(put[n - 1], options[n])]
  BY <1>6
<1>8. InFront(options) = put[N]
  BY DEF InFront, WithFront
<1> HIDE DEF put
<1>9. put[0] = <<>> /\ \A n \in 1..N : put[n] = WithFront(put[n - 1], options[n])
  BY <1>1, <1>7
<1>10. \A n \in 0..N : put[n] \in Options
  <2> DEFINE T == {n \in 0..N : put[n] \in Options}
  <2>1. 0 \in T
    <3>1. put[0] \in Options
      BY <1>1, <1>9
    <3> QED
      BY <1>1, <3>1
  <2>2. ASSUME NEW n \in 1..N, n - 1 \in T PROVE n \in T
    <3>1. put[n - 1] \in Options /\ n \in 0..N
      BY <1>1, <2>2
    <3> HIDE DEF N
    <3>2. WithFront(put[n - 1], options[n]) \in Options
      BY <1>2, <3>1
    <3>3. put[n] = WithFront(put[n - 1], options[n])
      BY <1>9
    <3> QED
      BY <3>1, <3>2, <3>3
  <2>3. \A n \in 0..N : n \in T
    <3>1. \A n \in 1..N : n - 1 \in T => n \in T
      BY <2>2
    <3> HIDE DEF T, N
    <3> QED
      BY <1>1, <2>1, <3>1, Inductive
  <2> QED
    BY <2>3
<1> QED
  BY <1>1, <1>8, <1>9, <1>10 DEF Fronts

LEMMA InFrontNothing == InFront(<<>>) = <<>>
<1>1. <<>> \in Seq(Token) /\ Len(<<>>) = 0
  BY EmptySeq
<1>2. PICK f : Fronts(f, <<>>) /\ InFront(<<>>) = f[Len(<<>>)]
  BY <1>1, InFrontSteps
<1> QED
  BY <1>1, <1>2 DEF Fronts

LEMMA InFrontGrows ==
  ASSUME NEW options \in Seq(Token), NEW token \in Token
  PROVE  InFront(options) \in Options /\ InFront(Append(options, token)) = WithFront(InFront(options), token)
<1> DEFINE N == Len(options)
           more == Append(options, token)
<1>1. /\ N \in Nat /\ more \in Seq(Token) /\ Len(more) = N + 1 /\ more[N + 1] = token
      /\ \A n \in 1..N : more[n] = options[n]
  BY LenProperties, AppendProperties
<1> HIDE DEF more
<1>2. PICK f : Fronts(f, options) /\ InFront(options) = f[N] /\ f[N] \in Options
  BY InFrontSteps
<1>3. PICK g : Fronts(g, more) /\ InFront(more) = g[N + 1]
  BY <1>1, InFrontSteps
<1>4. f[N] = g[N]
  <2> DEFINE T == {n \in 0..N : f[n] = g[n]}
  <2>1. 0 \in T
    BY <1>1, <1>2, <1>3 DEF Fronts
  <2>2. ASSUME NEW n \in 1..N, n - 1 \in T PROVE n \in T
    <3>1. n \in 1..(N + 1) /\ more[n] = options[n] /\ f[n - 1] = g[n - 1]
      BY <1>1, <2>2
    <3> QED
      BY <1>1, <1>2, <1>3, <3>1 DEF Fronts
  <2>3. \A n \in 0..N : n \in T
    <3>1. \A n \in 1..N : n - 1 \in T => n \in T
      BY <2>2
    <3> HIDE DEF T, N
    <3> QED
      BY <1>1, <2>1, <3>1, Inductive
  <2> QED
    BY <1>1, <2>3
<1>5. g[N + 1] = WithFront(g[N], token)
  <2>1. N + 1 \in 1..(N + 1) /\ (N + 1) - 1 = N
    BY <1>1
  <2> QED
    BY <1>1, <1>3, <2>1 DEF Fronts
<1> QED
  BY <1>1, <1>2, <1>3, <1>4, <1>5 DEF more

\* A command stands behind a wrapper.
Behind(options) ==
  \A i \in 1..Len(options) : options[i] = Command => \E j \in 1..i : options[j] = Wrapper

LEMMA BehindGrows ==
  ASSUME NEW options \in Options, Behind(options), NEW token \in Token \ {Command}
  PROVE  Behind(Append(options, token)) /\ Behind(Append(Append(options, Wrapper), Command))
<1> DEFINE N == Len(options)
           one == Append(options, token)
           two == Append(options, Wrapper)
           three == Append(two, Command)
<1>1. /\ N \in Nat /\ Len(one) = N + 1 /\ one[N + 1] = token
      /\ \A i \in 1..N : one[i] = options[i]
  BY LenProperties, AppendProperties DEF Options
<1>2. /\ two \in Seq(Token) /\ Len(two) = N + 1 /\ two[N + 1] = Wrapper
      /\ \A i \in 1..N : two[i] = options[i]
  BY Tokens, LenProperties, AppendProperties DEF Options
<1> HIDE DEF one, two
<1>3. Len(three) = N + 2 /\ \A i \in 1..(N + 1) : three[i] = two[i]
  BY <1>1, <1>2, Tokens, AppendProperties
<1> HIDE DEF three
<1>4. Behind(one)
  BY <1>1 DEF Behind
<1>5. Behind(three)
  <2> SUFFICES ASSUME NEW i \in 1..(N + 2), three[i] = Command PROVE \E j \in 1..i : three[j] = Wrapper
    BY <1>3 DEF Behind
  <2>1. CASE i \in 1..N
    <3>1. options[i] = Command /\ \A j \in 1..i : three[j] = options[j]
      BY <1>1, <1>2, <1>3, <2>1
    <3>2. \E j \in 1..i : options[j] = Wrapper
      BY <2>1, <3>1 DEF Behind
    <3> QED
      BY <3>1, <3>2
  <2>2. CASE i \in {N + 1, N + 2}
    <3>1. N + 1 \in 1..i /\ three[N + 1] = Wrapper
      BY <1>1, <1>2, <1>3, <2>2
    <3> QED
      BY <3>1
  <2> QED
    BY <1>1, <2>1, <2>2
<1> QED
  BY <1>4, <1>5 DEF one, two, three

\* The words without those of the launcher are as they were.
LEMMA InFrontKeeps ==
  ASSUME NEW options \in Options
  PROVE  /\ InFront(options) \in Options
         /\ WithoutLauncher(InFront(options)) = WithoutLauncher(options)
         /\ Behind(InFront(options))
<1> DEFINE Holds(o) == /\ WithoutLauncher(InFront(o)) = WithoutLauncher(o)
                       /\ Behind(InFront(o))
           T == {o \in Options : Holds(o)}
<1>1. <<>> \in T
  <2>1. <<>> \in Options /\ Len(<<>>) = 0
    BY EmptySeq DEF Options
  <2> QED
    BY <2>1, InFrontNothing DEF Behind
<1>2. ASSUME NEW o \in Seq(Token), NEW token \in Token, o \in T PROVE Append(o, token) \in T
  <2> DEFINE put == InFront(o)
             set == {Wrapper, Runtime}
  <2>1. /\ Append(o, token) \in Options /\ o \in Options /\ put \in Options
        /\ InFront(Append(o, token)) = IF token = Command THEN Append(Append(put, Wrapper), Command)
                                       ELSE Append(put, token)
    BY InFrontGrows, FrontAppends, AppendProperties DEF Options
  <2>2. Without(Append(o, token), set) = Sift(Without(o, set), token, set)
    BY WithoutGrows
  <2>3. Without(put, set) = Without(o, set) /\ Behind(put)
    BY <1>2 DEF WithoutLauncher
  <2> HIDE DEF put, set
  <2>4. CASE token # Command
    <3>1. Without(Append(put, token), set) = Sift(Without(put, set), token, set)
      BY <2>1, WithoutGrows DEF Options
    <3>2. Behind(Append(put, token))
      BY <2>1, <2>3, <2>4, BehindGrows
    <3> QED
      BY <2>1, <2>2, <2>3, <2>4, <3>1, <3>2 DEF WithoutLauncher, set
  <2>5. CASE token = Command
    <3>1. Without(Append(put, Wrapper), set) = Without(put, set) /\ Append(put, Wrapper) \in Seq(Token)
      BY <2>1, WithoutGrows, Tokens, AppendProperties DEF Options, Sift, set
    <3>2. Without(Append(Append(put, Wrapper), Command), set) = Sift(Without(put, set), token, set)
      <4> DEFINE two == Append(put, Wrapper)
      <4>1. two \in Seq(Token) /\ Without(two, set) = Without(put, set)
        BY <3>1
      <4> HIDE DEF two
      <4>2. Without(Append(two, token), set) = Sift(Without(two, set), token, set)
        BY <4>1, WithoutGrows
      <4> QED
        BY <2>5, <4>1, <4>2 DEF two
    <3>3. Wrapper \in Token \ {Command}
      BY Tokens DEF Wrapper, Command
    <3>4. Behind(Append(Append(put, Wrapper), Command))
      BY <2>1, <2>3, <3>3, BehindGrows
    <3> QED
      BY <2>1, <2>2, <2>3, <2>5, <3>2, <3>4 DEF WithoutLauncher, set
  <2> QED
    BY <2>4, <2>5
<1>3. options \in T
  <2> HIDE DEF T
  <2> QED
    BY <1>1, <1>2, Appending DEF Options
<1>4. InFront(options) \in Options
  BY InFrontGrows, Tokens DEF Options
<1> QED
  BY <1>3, <1>4

\* InFront takes the options part by part, leaves what has no command, and what it puts first
\* is no assignment if there was none.
LEMMA InFrontParts ==
  ASSUME NEW s \in Options
  PROVE  /\ \A t \in Options : InFront(s \o t) = InFront(s) \o InFront(t)
         /\ (\A i \in 1..Len(s) : s[i] # Command) => InFront(s) = s
         /\ s # <<>> => InFront(s) # <<>> /\ InFront(s)[1] = IF s[1] = Command THEN Wrapper ELSE s[1]
<1>1. \A t \in Options : InFront(s \o t) = InFront(s) \o InFront(t)
  <2> DEFINE T == {t \in Options : InFront(s \o t) = InFront(s) \o InFront(t)}
  <2>1. <<>> \in T
    BY EmptySeq, ConcatEmptySeq, InFrontNothing, InFrontKeeps DEF Options
  <2>2. ASSUME NEW t \in Seq(Token), NEW token \in Token, t \in T PROVE Append(t, token) \in T
    <3> DEFINE a == InFront(s)
               b == InFront(t)
               x == IF token = Command THEN <<Wrapper, Command>> ELSE <<token>>
    <3>1. s \o t \in Seq(Token) /\ s \o Append(t, token) = Append(s \o t, token) /\ Append(t, token) \in Options
      BY ConcatProperties, Longer, AppendProperties DEF Options
    <3>2. /\ InFront(s \o Append(t, token)) = WithFront(a \o b, token)
          /\ InFront(Append(t, token)) = WithFront(b, token)
      BY <2>2, <3>1, InFrontGrows
    <3>3. a \in Seq(Token) /\ b \in Seq(Token) /\ x \in Seq(Token)
      BY InFrontKeeps, Tokens DEF Options
    <3>4. WithFront(a \o b, token) = (a \o b) \o x /\ WithFront(b, token) = b \o x
      BY DEF WithFront
    <3> HIDE DEF a, b, x
    <3>5. (a \o b) \o x = a \o (b \o x)
      BY <3>3, ConcatAssociative, Z3
    <3>6. InFront(s \o Append(t, token)) = a \o InFront(Append(t, token))
      BY <3>2, <3>4, <3>5
    <3> QED
      BY <3>1, <3>6 DEF a
  <2> HIDE DEF T
  <2>3. \A t \in Options : t \in T
    BY <2>1, <2>2, Appending DEF Options
  <2> QED
    BY <2>3 DEF T
<1> DEFINE Same(o) == (\A i \in 1..Len(o) : o[i] # Command) => InFront(o) = o
           First(o) == o # <<>> =>
                         InFront(o) # <<>> /\ InFront(o)[1] = IF o[1] = Command THEN Wrapper ELSE o[1]
           T == {o \in Options : Same(o) /\ First(o)}
<1>2. <<>> \in T
  BY EmptySeq, InFrontNothing DEF Options
<1>3. ASSUME NEW o \in Seq(Token), NEW token \in Token, o \in T PROVE Append(o, token) \in T
  <2> DEFINE put == InFront(o)
             more == Append(o, token)
             N == Len(o)
  <2>1. /\ more \in Options /\ Len(more) = N + 1 /\ N \in Nat /\ more[N + 1] = token
        /\ \A i \in 1..N : more[i] = o[i]
    BY LenProperties, AppendProperties DEF Options
  <2>2. /\ put \in Options /\ put \in Seq(Token)
        /\ InFront(more) = IF token = Command THEN Append(Append(put, Wrapper), Command)
                           ELSE Append(put, token)
    BY InFrontGrows, FrontAppends DEF Options
  <2>3. Same(more)
    <3> SUFFICES ASSUME \A i \in 1..Len(more) : more[i] # Command PROVE InFront(more) = more
      OBVIOUS
    <3>1. token # Command /\ put = o
      BY <1>3, <2>1
    <3> QED
      BY <2>2, <3>1
  <2>4. First(more)
    <3>1. InFront(more) # <<>> /\ (o # <<>> => more[1] = o[1] /\ InFront(more)[1] = put[1])
      <4>1. o # <<>> => N \in Nat \ {0}
        BY EmptySeq
      <4>2. o # <<>> => put # <<>> /\ Len(put) \in Nat \ {0}
        BY <1>3, <2>2, EmptySeq DEF Options
      <4>3. \A x \in Token : /\ Append(put, x) \in Seq(Token) /\ Append(put, x) # <<>>
                             /\ o # <<>> => Append(put, x)[1] = put[1] /\ Len(Append(put, x)) \in Nat \ {0}
        BY <2>2, <4>2, AppendProperties
      <4> DEFINE two == Append(put, Wrapper)
      <4>4. two \in Seq(Token) /\ (o # <<>> => two[1] = put[1] /\ Len(two) \in Nat \ {0})
        BY <4>3, Tokens
      <4> HIDE DEF two
      <4>5. Append(two, Command) # <<>> /\ (o # <<>> => Append(two, Command)[1] = two[1])
        BY <4>4, Tokens, AppendProperties
      <4> QED
        BY <2>1, <2>2, <4>1, <4>3, <4>4, <4>5 DEF two
    <3>2. o = <<>> => more[1] = token /\ InFront(more)[1] = IF token = Command THEN Wrapper ELSE token
      <4> SUFFICES ASSUME o = <<>> PROVE more[1] = token /\ InFront(more)[1] = IF token = Command THEN Wrapper ELSE token
        OBVIOUS
      <4>1. put = <<>>
        BY InFrontNothing
      <4>2. more[1] = token
        BY <2>1
      <4>3. InFront(more) = IF token = Command THEN <<Wrapper, Command>> ELSE <<token>>
        BY <2>2, <4>1, Tokens, Pair
      <4> QED
        BY <4>2, <4>3
    <3> QED
      BY <1>3, <3>1, <3>2
  <2> QED
    BY <2>1, <2>3, <2>4
<1>4. s \in T
  <2> HIDE DEF T
  <2> QED
    BY <1>2, <1>3, Appending DEF Options
<1> QED
  BY <1>1, <1>4

-----------------------------------------------------------------------------
(* The environment, and the variables it sets.                             *)

\* The environment is what stands before the first other token.
LEMMA EnvironmentOf ==
  ASSUME NEW e \in Options, NEW r \in Options,
         \A i \in 1..Len(e) : e[i].kind = "assignment",
         r # <<>> => r[1].kind # "assignment"
  PROVE  Environment(e \o r) = e /\ Rest(e \o r) = r
<1> DEFINE o == e \o r
           M == Len(e)
           N == Len(r)
<1>1. /\ M \in Nat /\ N \in Nat /\ o \in Options /\ Len(o) = M + N
      /\ \A i \in 1..(M + N) : o[i] = IF i <= M THEN e[i] ELSE r[i - M]
      /\ (r # <<>> <=> N > 0)
  BY LenProperties, ConcatProperties, EmptySeq DEF Options
<1> DEFINE Is(n) == /\ \A i \in 1..n : o[i].kind = "assignment"
                    /\ n < Len(o) => o[n + 1].kind # "assignment"
<1>2. M \in 0..Len(o) /\ Is(M)
  <2>1. N > 0 => o[M + 1] = r[1]
    BY <1>1
  <2> QED
    BY <1>1, <2>1
<1>3. ASSUME NEW n \in 0..Len(o), Is(n) PROVE n = M
  BY <1>1, <1>2, <1>3
<1>4. Leading(o) = M
  <2>1. Leading(o) = CHOOSE n \in 0..Len(o) : Is(n)
    BY DEF Leading
  <2> HIDE DEF Is, o, M
  <2> QED
    BY <1>2, <1>3, <2>1
<1>5. SubSeq(o, 1, M) = e
  <2> HIDE DEF o
  <2>1. SubSeq(o, 1, M) \in Seq(Token) /\ Len(SubSeq(o, 1, M)) = M /\ \A i \in 1..M : SubSeq(o, 1, M)[i] = o[i]
    <3>1. \A i \in 1..M : o[i] \in Token
      BY <1>1, ElementOfSeq DEF Options
    <3> QED
      BY <1>1, <3>1, SubSeqProperties
  <2> QED
    BY <1>1, <2>1, SeqEqual DEF Options
<1>6. SubSeq(o, M + 1, M + N) = r
  <2> HIDE DEF o
  <2>1. /\ SubSeq(o, M + 1, M + N) \in Seq(Token) /\ Len(SubSeq(o, M + 1, M + N)) = N
        /\ \A i \in 1..N : SubSeq(o, M + 1, M + N)[i] = o[M + i]
    <3>1. \A i \in (M + 1)..(M + N) : o[i] \in Token
      BY <1>1, ElementOfSeq DEF Options
    <3> QED
      BY <1>1, <3>1, SubSeqProperties
  <2>2. \A i \in 1..N : o[M + i] = r[i]
    BY <1>1
  <2> QED
    BY <1>1, <2>1, <2>2, SeqEqual DEF Options
<1> QED
  BY <1>1, <1>4, <1>5, <1>6 DEF Environment, Rest

LEMMA EnvironmentAndRest ==
  ASSUME NEW o \in Options
  PROVE  /\ Environment(o) \in Options /\ Rest(o) \in Options /\ o = Environment(o) \o Rest(o)
         /\ \A i \in 1..Len(Environment(o)) : Environment(o)[i].kind = "assignment"
         /\ Rest(o) # <<>> => Rest(o)[1].kind # "assignment"
<1> DEFINE N == Len(o)
           Is(n) == /\ \A i \in 1..n : o[i].kind = "assignment"
                    /\ n < Len(o) => o[n + 1].kind # "assignment"
           others == {n \in 0..N : n = N \/ o[n + 1].kind # "assignment"}
<1>1. N \in Nat /\ \A i \in 1..N : o[i] \in Token
  BY LenProperties, ElementOfSeq DEF Options
<1>2. PICK n \in others : \A m \in others : n <= m
  <2>1. others \in SUBSET Nat /\ others # {}
    BY <1>1
  <2> HIDE DEF others
  <2> QED
    BY <2>1, Least
<1>3. n \in 0..N /\ Is(n)
  <2>1. ASSUME NEW i \in 1..n PROVE o[i].kind = "assignment"
    <3>1. i - 1 \in 0..N /\ i - 1 \notin others /\ (i - 1) + 1 = i
      BY <1>1, <1>2
    <3> QED
      BY <3>1
  <2> QED
    BY <1>1, <1>2, <2>1
<1>4. Leading(o) \in 0..N /\ Is(Leading(o))
  <2>1. Leading(o) = CHOOSE k \in 0..N : Is(k)
    BY DEF Leading
  <2> HIDE DEF Is, N
  <2> QED
    BY <1>3, <2>1
<1> DEFINE k == Leading(o)
<1>5. /\ Environment(o) \in Seq(Token) /\ Len(Environment(o)) = k
      /\ \A i \in 1..k : Environment(o)[i] = o[i]
  <2>1. \A i \in 1..k : o[i] \in Token
    BY <1>1, <1>4
  <2> QED
    BY <1>4, <2>1, SubSeqProperties DEF Environment
<1>6. /\ Rest(o) \in Seq(Token) /\ Len(Rest(o)) = N - k
      /\ \A i \in 1..(N - k) : Rest(o)[i] = o[k + i]
  <2>1. k \in 0..N
    BY <1>4
  <2> HIDE DEF k
  <2>2. \A i \in (k + 1)..N : o[i] \in Token
    BY <1>1, <2>1
  <2> DEFINE r == SubSeq(o, k + 1, N)
  <2>3. /\ r \in Seq(Token) /\ Len(r) = IF k + 1 <= N THEN N - (k + 1) + 1 ELSE 0
        /\ \A i \in 1..(N - (k + 1) + 1) : r[i] = o[(k + 1) + i - 1]
    BY <1>1, <2>1, <2>2, SubSeqProperties
  <2>4. Rest(o) = r
    BY DEF Rest, k
  <2> HIDE DEF r, N
  <2> QED
    BY <1>1, <2>1, <2>3, <2>4
<1>7. o = Environment(o) \o Rest(o)
  <2> DEFINE e == Environment(o)
             r == Rest(o)
  <2>1. /\ e \o r \in Seq(Token) /\ Len(e \o r) = N
        /\ \A i \in 1..N : (e \o r)[i] = IF i <= k THEN e[i] ELSE r[i - k]
    <3> HIDE DEF e, r, k
    <3>1. Len(e) = k /\ Len(r) = N - k /\ k \in 0..N /\ e \in Seq(Token) /\ r \in Seq(Token)
      BY <1>4, <1>5, <1>6 DEF e, r, k
    <3> QED
      BY <1>1, <3>1, ConcatProperties
  <2>2. \A i \in 1..N : (e \o r)[i] = o[i]
    <3> HIDE DEF k
    <3>1. k \in 0..N
      BY <1>4 DEF k
    <3>2. \A i \in 1..N : i > k => i - k \in 1..(N - k) /\ k + (i - k) = i
      BY <1>1, <3>1
    <3> QED
      BY <1>1, <1>5, <1>6, <2>1, <3>1, <3>2
  <2> HIDE DEF e, r
  <2>3. e \o r = o
    BY <1>1, <2>1, <2>2, SeqEqual DEF Options
  <2> QED
    BY <2>3 DEF e, r
<1>8. Rest(o) # <<>> => k < N /\ Rest(o)[1] = o[k + 1]
  <2>1. Rest(o) # <<>> => Len(Rest(o)) \in Nat \ {0}
    BY <1>6, EmptySeq
  <2> HIDE DEF k
  <2>2. k \in 0..N
    BY <1>4 DEF k
  <2> QED
    BY <1>1, <1>6, <2>1, <2>2 DEF k
<1> QED
  BY <1>4, <1>5, <1>6, <1>7, <1>8 DEF Options

Settings(env) ==
  {t \in ToSet(env) : \E i \in DOMAIN env : /\ env[i] = t
                                             /\ \A j \in (i + 1)..Len(env) : env[j].name # t.name}

\* Assignments of other names leave the variables, and are the only ones more.
LEMMA MoreSettings ==
  ASSUME NEW env \in Options, NEW more \in Options,
         \A i \in 1..Len(env), j \in 1..Len(more) : env[i].name # more[j].name
  PROVE  /\ Settings(env) \subseteq Settings(env \o more)
         /\ \A t \in Settings(env \o more) : t \in Settings(env) \/ \E j \in 1..Len(more) : more[j] = t
<1> DEFINE all == env \o more
           M == Len(env)
           N == Len(more)
<1>1. /\ M \in Nat /\ N \in Nat /\ DOMAIN env = 1..M /\ DOMAIN all = 1..(M + N) /\ Len(all) = M + N
      /\ \A i \in 1..M : all[i] = env[i]
      /\ \A i \in (M + 1)..(M + N) : i - M \in 1..N /\ all[i] = more[i - M]
  <2>1. all \in Seq(Token) /\ Len(all) = M + N /\ M \in Nat /\ N \in Nat
        /\ \A i \in 1..(M + N) : all[i] = IF i <= M THEN env[i] ELSE more[i - M]
    BY LenProperties, ConcatProperties DEF Options
  <2> HIDE DEF all
  <2> QED
    BY <2>1, LenProperties DEF Options
<1> HIDE DEF all
<1>2. ASSUME NEW t \in Settings(env) PROVE t \in Settings(all)
  <2>1. PICK i \in 1..M : env[i] = t /\ \A j \in (i + 1)..M : env[j].name # t.name
    BY <1>1, <1>2 DEF Settings
  <2>2. \A j \in (i + 1)..(M + N) : all[j].name # t.name
    BY <1>1, <2>1
  <2> QED
    BY <1>1, <2>1, <2>2 DEF Settings, ToSet
<1>3. ASSUME NEW t \in Settings(all) PROVE t \in Settings(env) \/ \E j \in 1..N : more[j] = t
  <2>1. PICK i \in 1..(M + N) : all[i] = t /\ \A j \in (i + 1)..(M + N) : all[j].name # t.name
    BY <1>1, <1>3 DEF Settings
  <2>2. CASE i > M
    <3>1. i \in (M + 1)..(M + N)
      BY <1>1, <2>1, <2>2
    <3>2. i - M \in 1..N /\ more[i - M] = t
      BY <1>1, <2>1, <3>1
    <3> QED
      BY <3>2
  <2>3. CASE i <= M
    <3>1. env[i] = t /\ \A j \in (i + 1)..M : env[j].name # t.name
      BY <1>1, <2>1, <2>3
    <3>2. i \in DOMAIN env /\ env[i] = t
      BY <1>1, <2>1, <2>3, <3>1
    <3> QED
      BY <3>1, <3>2 DEF Settings, ToSet
  <2> QED
    BY <1>1, <2>2, <2>3
<1> QED
  BY <1>2, <1>3 DEF all

\* Added sets params that the environment does not set, to 1.
LEMMA AddedSettings ==
  ASSUME NEW o \in Options, NEW params \in Seq(STRING)
  PROVE  /\ Added(o, params) \in Options
         /\ \A i \in 1..Len(Added(o, params)) :
              /\ Added(o, params)[i].kind = "assignment" /\ Added(o, params)[i].value = "1"
              /\ \A j \in 1..Len(Environment(o)) : Environment(o)[j].name # Added(o, params)[i].name
<1> DEFINE names == {t.name : t \in ToSet(Environment(o))}
           added == Without(params, names)
<1>1. added \in Seq(STRING \ names)
  BY WithoutParts
<1>2. Len(added) \in Nat /\ DOMAIN added = 1..Len(added) /\ \A i \in 1..Len(added) : added[i] \in STRING \ names
  BY <1>1, LenProperties, ElementOfSeq
<1>3. Added(o, params) = [i \in 1..Len(added) |-> Assignment(added[i], "1")]
  BY <1>2 DEF Added
<1>4. \A j \in 1..Len(Environment(o)) : Environment(o)[j].name \in names
  <2>1. DOMAIN Environment(o) = 1..Len(Environment(o))
    BY EnvironmentAndRest, LenProperties DEF Options
  <2> QED
    BY <2>1 DEF ToSet
<1> HIDE DEF added, names
<1>5. \A p \in STRING : Assignment(p, "1") \in Token
  BY DEF Assignment, Token
<1>6. Added(o, params) \in Options /\ Len(Added(o, params)) = Len(added)
  <2>1. Added(o, params) \in [1..Len(added) -> Token]
    BY <1>2, <1>3, <1>5
  <2>2. Added(o, params) \in Options
    BY <1>2, <2>1, SeqDef DEF Options
  <2> QED
    BY <1>2, <2>1, <2>2, LenProperties DEF Options
<1> QED
  BY <1>2, <1>3, <1>4, <1>6 DEF Assignment

LEMMA VariablesAreSettings ==
  ASSUME NEW o, Has(o, Command) PROVE Started(o) = o /\ Variables(o) = Settings(Environment(o))
  BY DEF Started, Variables, Settings

LEMMA HasParts ==
  ASSUME NEW s \in Options, NEW t \in Options
  PROVE  \A token : Has(s \o t, token) <=> Has(s, token) \/ Has(t, token)
<1> DEFINE all == s \o t
           M == Len(s)
           N == Len(t)
<1>1. /\ M \in Nat /\ N \in Nat /\ Len(all) = M + N
      /\ \A i \in 1..M : i \in 1..(M + N) /\ all[i] = s[i]
      /\ \A i \in 1..N : M + i \in 1..(M + N) /\ all[M + i] = t[i]
      /\ \A i \in 1..(M + N) : i \in 1..M \/ (i - M \in 1..N /\ all[i] = t[i - M])
  <2>1. Len(all) = M + N /\ M \in Nat /\ N \in Nat
        /\ \A i \in 1..(M + N) : all[i] = IF i <= M THEN s[i] ELSE t[i - M]
    BY LenProperties, ConcatProperties DEF Options
  <2> HIDE DEF all
  <2> QED
    BY <2>1
<1> HIDE DEF all, M, N
<1>2. \A token : Has(all, token) => Has(s, token) \/ Has(t, token)
  BY <1>1 DEF Has, Contains, M, N
<1>3. \A token : Has(s, token) => Has(all, token)
  BY <1>1 DEF Has, Contains, M
<1>4. \A token : Has(t, token) => Has(all, token)
  BY <1>1 DEF Has, Contains, N
<1> QED
  BY <1>2, <1>3, <1>4 DEF all

\* Launch options as they are started: the command stands in them, after the environment.
LEMMA StartedParts ==
  ASSUME NEW o \in Options, ~Ambiguous(o)
  PROVE  /\ Started(o) \in Options /\ Has(Started(o), Command)
         /\ Environment(Started(o)) = Environment(o)
         /\ Rest(Started(o)) = IF Has(o, Command) THEN Rest(o) ELSE <<Command>> \o Rest(o)
         /\ Started(o) = IF Has(o, Command) THEN o ELSE <<Command>> \o o
<1>1. CASE Has(o, Command)
  BY <1>1 DEF Started
<1>2. CASE ~Has(o, Command)
  <2> DEFINE was == <<Command>> \o o
  <2>1. Environment(o) = <<>> /\ Rest(o) = o
    <3>1. Environment(o) = <<>>
      BY <1>2 DEF Ambiguous
    <3> QED
      <4>1. o = <<>> \o Rest(o) /\ Rest(o) \in Seq(Token)
        BY <3>1, EnvironmentAndRest DEF Options
      <4>2. <<>> \o Rest(o) = Rest(o)
        BY <4>1, ConcatEmptySeq
      <4> QED
        BY <3>1, <4>1, <4>2
  <2>2. /\ <<Command>> \in Options /\ was \in Options /\ was[1] = Command /\ was # <<>>
        /\ Has(<<Command>>, Command) /\ <<>> \in Options /\ Len(<<>>) = 0
    <3>1. <<Command>> \in Options /\ Len(<<Command>>) = 1 /\ <<Command>>[1] = Command
          /\ <<>> \in Options /\ Len(<<>>) = 0
      BY Tokens DEF Options
    <3> DEFINE c == <<Command>>
    <3>2. c \in Seq(Token) /\ o \in Seq(Token) /\ Len(c) = 1 /\ c[1] = Command
      BY <3>1 DEF Options
    <3> HIDE DEF c
    <3>3. c \o o \in Seq(Token) /\ Len(c \o o) = 1 + Len(o) /\ (c \o o)[1] = Command /\ Len(o) \in Nat
      BY <3>2, ConcatProperties, LenProperties
    <3>4. c \o o # <<>>
      BY <3>3, EmptySeq
    <3>5. Has(c, Command)
      BY <3>2 DEF Has, Contains
    <3> QED
      BY <3>1, <3>3, <3>4, <3>5 DEF c, Options
  <2>3. Command.kind # "assignment"
    BY DEF Command
  <2>4. Environment(<<>> \o was) = <<>> /\ Rest(<<>> \o was) = was
    <3> DEFINE e == <<>>
    <3> HIDE DEF was, e
    <3>1. e \in Options /\ was \in Options /\ (\A i \in 1..Len(e) : e[i].kind = "assignment")
          /\ was[1].kind # "assignment"
      BY <2>2, <2>3 DEF e
    <3>2. Environment(e \o was) = e /\ Rest(e \o was) = was
      BY <3>1, EnvironmentOf
    <3> QED
      BY <3>2 DEF e
  <2>5. <<>> \o was = was
    <3> HIDE DEF was
    <3> QED
      BY <2>2, ConcatEmptySeq DEF Options
  <2>6. Has(was, Command)
    BY <2>2, HasParts
  <2>7. Started(o) = was
    BY <1>2 DEF Started
  <2> HIDE DEF was
  <2> QED
    BY <1>2, <2>1, <2>2, <2>4, <2>5, <2>6, <2>7 DEF was
<1> QED
  BY <1>1, <1>2

-----------------------------------------------------------------------------
(* The launch options of a managed game.                                   *)

\* What a sequence of four parts is made of.
LEMMA FourParts ==
  ASSUME NEW S, NEW a \in Seq(S), NEW b \in Seq(S), NEW c \in Seq(S), NEW d \in Seq(S)
  PROVE  /\ ((a \o b) \o c) \o d = a \o (b \o (c \o d))
         /\ c \o d \in Seq(S) /\ b \o (c \o d) \in Seq(S) /\ a \o (b \o (c \o d)) \in Seq(S)
<1> DEFINE ab == a \o b
           cd == c \o d
<1>1. ab \in Seq(S) /\ cd \in Seq(S)
  BY ConcatProperties
<1> HIDE DEF ab
<1>2. (ab \o c) \o d = ab \o cd
  BY <1>1, ConcatAssociative
<1> HIDE DEF cd
<1>3. ab \o cd = a \o (b \o cd)
  BY <1>1, ConcatAssociative, Z3 DEF ab
<1>4. b \o cd \in Seq(S)
  BY <1>1, ConcatProperties
<1>5. a \o (b \o cd) \in Seq(S)
  <2> DEFINE bcd == b \o cd
  <2>1. bcd \in Seq(S)
    BY <1>4
  <2> HIDE DEF bcd
  <2>2. a \o bcd \in Seq(S)
    BY <2>1, ConcatProperties
  <2> QED
    BY <2>2 DEF bcd
<1> HIDE DEF ab
<1> QED
  BY <1>1, <1>2, <1>3, <1>4, <1>5 DEF ab, cd

LEMMA LauncherWords ==
  /\ <<Wrapper, Runtime>> \in Options /\ Len(<<Wrapper, Runtime>>) = 2
  /\ <<Wrapper, Runtime>>[1] = Wrapper
  /\ WithoutLauncher(<<Wrapper, Runtime>>) = <<>>
<1> DEFINE set == {Wrapper, Runtime}
           one == <<Wrapper>>
<1>1. <<Wrapper, Runtime>> \in Seq(Token) /\ Wrapper \in Token /\ Runtime \in Token /\ <<>> \in Seq(Token)
  BY Tokens
<1>2. one \in Seq(Token) /\ one = Append(<<>>, Wrapper) /\ <<Wrapper, Runtime>> = Append(one, Runtime)
  BY <1>1, Pair
<1>3. Wrapper \in set /\ Runtime \in set
  OBVIOUS
<1> HIDE DEF set, one
<1>4. Without(one, set) = <<>>
  BY <1>1, <1>2, <1>3, WithoutNothing, WithoutGrows DEF Sift
<1>5. Without(Append(one, Runtime), set) = <<>>
  BY <1>1, <1>2, <1>3, <1>4, WithoutGrows DEF Sift
<1> QED
  BY <1>1, <1>2, <1>5 DEF WithoutLauncher, set, Options

\* What stands behind the assignments, if it begins with the wrapper.
LEMMA Placed ==
  ASSUME NEW lead \in Options, NEW tail \in Options, tail # <<>>, tail[1] = Wrapper,
         \A i \in 1..Len(lead) : lead[i].kind = "assignment"
  PROVE  /\ Environment(lead \o tail) = lead /\ Rest(lead \o tail) = tail /\ lead \o tail # <<>>
         /\ \A i \in DOMAIN (lead \o tail) :
              (lead \o tail)[i] = Command => \E j \in 1..i : (lead \o tail)[j] = Wrapper
<1> DEFINE now == lead \o tail
           M == Len(lead)
           N == Len(tail)
<1>1. Wrapper.kind # "assignment" /\ Command.kind # "assignment"
  BY DEF Wrapper, Command
<1>2. /\ now \in Seq(Token) /\ M \in Nat /\ N \in Nat \ {0} /\ Len(now) = M + N
      /\ \A i \in 1..(M + N) : now[i] = IF i <= M THEN lead[i] ELSE tail[i - M]
  BY ConcatProperties, LenProperties, EmptySeq DEF Options
<1>3. Environment(now) = lead /\ Rest(now) = tail
  BY <1>1, EnvironmentOf
<1> HIDE DEF now, M, N
<1>4. DOMAIN now = 1..(M + N) /\ now # <<>>
  BY <1>2, LenProperties, EmptySeq
<1>5. ASSUME NEW i \in 1..(M + N), now[i] = Command PROVE \E j \in 1..i : now[j] = Wrapper
  <2>1. ~(i <= M)
    BY <1>1, <1>2, <1>5 DEF M
  <2>2. M + 1 \in 1..i /\ M + 1 \in 1..(M + N) /\ ~(M + 1 <= M) /\ (M + 1) - M = 1
    BY <1>2, <2>1
  <2>3. now[M + 1] = Wrapper
    BY <1>2, <2>2
  <2> QED
    BY <2>2, <2>3
<1> QED
  BY <1>3, <1>4, <1>5 DEF now

LEMMA RuntimeKeeps ==
  ASSUME NEW o \in Options, NEW params \in Seq(STRING)
  PROVE  /\ RuntimeOptions(o, params) \in Options /\ RuntimeOptions(o, params) # <<>>
         /\ ~Ambiguous(o) => StartsTheSame(o, RuntimeOptions(o, params))
<1> DEFINE env == Environment(o)
           add == Added(o, params)
           lead == env \o add
           launcher == <<Wrapper, Runtime>>
           command == IF Has(o, Command) THEN <<>> ELSE <<Command>>
           rest == command \o Rest(o)
           tail == launcher \o rest
           now == RuntimeOptions(o, params)
<1>1. /\ env \in Seq(Token) /\ Rest(o) \in Seq(Token) /\ add \in Seq(Token)
      /\ \A i \in 1..Len(env) : env[i].kind = "assignment"
      /\ \A j \in 1..Len(add) : add[j].kind = "assignment" /\ add[j].value = "1"
      /\ \A i \in 1..Len(env), j \in 1..Len(add) : env[i].name # add[j].name
  <2>1. /\ env \in Seq(Token) /\ Rest(o) \in Seq(Token)
        /\ \A i \in 1..Len(env) : env[i].kind = "assignment"
    BY EnvironmentAndRest DEF Options
  <2>2. /\ add \in Seq(Token)
        /\ \A j \in 1..Len(add) : add[j].kind = "assignment" /\ add[j].value = "1"
        /\ \A i \in 1..Len(env), j \in 1..Len(add) : env[i].name # add[j].name
    BY AddedSettings DEF Options
  <2> QED
    BY <2>1, <2>2
<1>2. command \in Seq(Token)
  <2>1. <<Command>> \in Seq(Token) /\ <<>> \in Seq(Token)
    BY Tokens
  <2> QED
    BY <2>1
<1>3. /\ launcher \in Seq(Token) /\ Len(launcher) = 2 /\ launcher[1] = Wrapper
      /\ WithoutLauncher(launcher) = <<>>
  BY LauncherWords DEF Options
<1>4. now = (((env \o add) \o launcher) \o command) \o Rest(o)
  BY DEF RuntimeOptions
<1>5. command \o Rest(o) = IF Has(o, Command) THEN Rest(o) ELSE <<Command>> \o Rest(o)
  BY <1>1, ConcatEmptySeq
<1> HIDE DEF env, add, launcher, command, now
<1>6. lead \in Seq(Token) /\ \A i \in 1..Len(lead) : lead[i].kind = "assignment"
  <2>1. /\ lead \in Seq(Token) /\ Len(env) \in Nat /\ Len(add) \in Nat /\ Len(lead) = Len(env) + Len(add)
        /\ \A i \in 1..(Len(env) + Len(add)) : lead[i] = IF i <= Len(env) THEN env[i] ELSE add[i - Len(env)]
    <3>1. env \in Seq(Token) /\ add \in Seq(Token)
      BY <1>1
    <3> QED
      BY <3>1, ConcatProperties, LenProperties
  <2>2. /\ \A i \in 1..Len(env) : env[i].kind = "assignment"
        /\ \A j \in 1..Len(add) : add[j].kind = "assignment"
    BY <1>1
  <2> HIDE DEF lead
  <2>3. ASSUME NEW i \in 1..Len(lead) PROVE lead[i].kind = "assignment"
    <3>1. CASE i <= Len(env)
      <4>1. i \in 1..Len(env) /\ lead[i] = env[i]
        BY <2>1, <3>1
      <4> QED
        BY <2>2, <4>1
    <3>2. CASE ~(i <= Len(env))
      <4>1. i - Len(env) \in 1..Len(add) /\ lead[i] = add[i - Len(env)]
        BY <2>1, <3>2
      <4> QED
        BY <2>2, <4>1
    <3> QED
      BY <3>1, <3>2
  <2> QED
    BY <2>1, <2>3
<1> HIDE DEF lead
<1>7. rest \in Seq(Token) /\ tail \in Seq(Token) /\ now = lead \o tail /\ now \in Seq(Token)
  <2>1. now = ((lead \o launcher) \o command) \o Rest(o)
    BY <1>4 DEF lead
  <2>2. lead \in Seq(Token) /\ launcher \in Seq(Token) /\ command \in Seq(Token) /\ Rest(o) \in Seq(Token)
    BY <1>1, <1>2, <1>3, <1>6
  <2>3. /\ ((lead \o launcher) \o command) \o Rest(o) = lead \o (launcher \o (command \o Rest(o)))
        /\ command \o Rest(o) \in Seq(Token) /\ launcher \o (command \o Rest(o)) \in Seq(Token)
        /\ lead \o (launcher \o (command \o Rest(o))) \in Seq(Token)
    BY <2>2, FourParts
  <2> QED
    BY <2>1, <2>3
<1> HIDE DEF rest
<1>8. tail # <<>> /\ tail[1] = Wrapper
  <2>1. /\ Len(rest) \in Nat /\ Len(tail) = 2 + Len(rest)
        /\ \A i \in 1..(2 + Len(rest)) : tail[i] = IF i <= 2 THEN launcher[i] ELSE rest[i - 2]
    <3>1. launcher \in Seq(Token) /\ rest \in Seq(Token) /\ Len(launcher) = 2
      BY <1>3, <1>7
    <3> HIDE DEF tail
    <3>2. tail = launcher \o rest /\ Len(rest) \in Nat
      BY <3>1, LenProperties DEF tail
    <3>3. /\ Len(launcher \o rest) = Len(launcher) + Len(rest)
          /\ \A i \in 1..(Len(launcher) + Len(rest)) :
               (launcher \o rest)[i] = IF i <= Len(launcher) THEN launcher[i] ELSE rest[i - Len(launcher)]
      BY <3>1, ConcatProperties
    <3> QED
      BY <3>1, <3>2, <3>3
  <2> HIDE DEF tail
  <2>2. tail[1] = Wrapper
    BY <1>3, <2>1
  <2> QED
    BY <1>7, <2>1, <2>2, EmptySeq
<1>9. WithoutLauncher(tail) = WithoutLauncher(rest)
  <2> DEFINE set == {Wrapper, Runtime}
  <2> HIDE DEF set
  <2>1. Without(tail, set) = Without(launcher, set) \o Without(rest, set) /\ Without(rest, set) \in Seq(Token \ set)
    <3>1. launcher \in Seq(Token) /\ rest \in Seq(Token)
      BY <1>3, <1>7
    <3>2. /\ \A x, y \in Seq(Token) : Without(x \o y, set) = Without(x, set) \o Without(y, set)
          /\ \A x \in Seq(Token) : Without(x, set) \in Seq(Token \ set)
      BY WithoutParts
    <3> QED
      BY <3>1, <3>2
  <2>2. Without(launcher, set) = <<>>
    BY <1>3 DEF WithoutLauncher, set
  <2>3. Without(tail, set) = Without(rest, set)
    BY <2>1, <2>2, ConcatEmptySeq
  <2> QED
    BY <2>3 DEF WithoutLauncher, set
<1>10. /\ Environment(now) = lead /\ Rest(now) = tail /\ now # <<>>
       /\ \A i \in DOMAIN now : now[i] = Command => \E j \in 1..i : now[j] = Wrapper
  BY <1>6, <1>7, <1>8, Placed DEF Options
<1> SUFFICES ASSUME ~Ambiguous(o) PROVE StartsTheSame(o, now)
  BY <1>7, <1>10 DEF now, Options
<1>14. Rest(Started(o)) = rest /\ Environment(Started(o)) = env /\ Has(Started(o), Command) /\ Started(o) \in Options
  BY <1>5, StartedParts DEF rest, env
<1>11. Has(rest, Command)
  <2>1. Started(o) = env \o rest
    BY <1>14, EnvironmentAndRest
  <2>2. ~Has(env, Command)
    <3>1. Command.kind # "assignment"
      BY DEF Command
    <3> QED
      BY <1>1, <3>1 DEF Has, Contains
  <2> QED
    BY <1>1, <1>7, <1>14, <2>1, <2>2, HasParts DEF Options
<1>12. Has(tail, Command)
  BY <1>3, <1>7, <1>11, HasParts DEF Options
<1> HIDE DEF tail
<1>13. Has(now, Command)
  BY <1>6, <1>7, <1>12, HasParts DEF Options
<1>15. Variables(Started(o)) = Settings(env) /\ Variables(now) = Settings(lead) /\ Started(now) = now
  <2>1. Started(now) = now /\ Variables(now) = Settings(lead)
    BY <1>10, <1>13, VariablesAreSettings
  <2>2. Started(Started(o)) = Started(o) /\ Variables(Started(o)) = Settings(env)
    BY <1>14, VariablesAreSettings
  <2> QED
    BY <2>1, <2>2
<1>16. /\ Settings(env) \subseteq Settings(lead)
       /\ \A t \in Settings(lead) \ Settings(env) : t.value = "1"
  <2>1. /\ Settings(env) \subseteq Settings(lead)
        /\ \A t \in Settings(lead) : t \in Settings(env) \/ \E j \in 1..Len(add) : add[j] = t
    BY <1>1, MoreSettings DEF lead, Options
  <2> QED
    BY <1>1, <2>1
<1>17. StartsTheSame(o, now)
  BY <1>9, <1>10, <1>14, <1>15, <1>16 DEF StartsTheSame
<1> QED
  BY <1>17

LEMMA HasAppends ==
  ASSUME NEW S, NEW s \in Seq(S), NEW e \in S
  PROVE  \A x : Has(Append(s, e), x) <=> Has(s, x) \/ e = x
<1> DEFINE N == Len(s)
           more == Append(s, e)
<1>1. /\ N \in Nat /\ Len(more) = N + 1 /\ more[N + 1] = e
      /\ \A i \in 1..N : more[i] = s[i]
  BY LenProperties, AppendProperties
<1> HIDE DEF more, N
<1>2. \A x : Has(more, x) <=> \E i \in 1..(N + 1) : more[i] = x
  BY <1>1 DEF Has, Contains
<1>3. \A x : Has(s, x) <=> \E i \in 1..N : s[i] = x
  BY DEF Has, Contains, N
<1> QED
  BY <1>1, <1>2, <1>3 DEF more

\* InFront leaves the command where it was.
LEMMA InFrontHas == ASSUME NEW options \in Options, Has(options, Command) PROVE Has(InFront(options), Command)
<1> DEFINE T == {o \in Options : Has(o, Command) => Has(InFront(o), Command)}
<1>1. <<>> \in T
  <2>1. <<>> \in Options
    BY EmptySeq DEF Options
  <2> QED
    BY <2>1, InFrontNothing
<1>2. ASSUME NEW o \in Seq(Token), NEW token \in Token, o \in T PROVE Append(o, token) \in T
  <2> DEFINE put == InFront(o)
             two == Append(put, Wrapper)
  <2>1. /\ Append(o, token) \in Options /\ put \in Seq(Token)
        /\ InFront(Append(o, token)) = IF token = Command THEN Append(two, Command)
                                       ELSE Append(put, token)
    BY InFrontGrows, FrontAppends, AppendProperties DEF Options
  <2>2. Has(o, Command) => Has(put, Command)
    BY <1>2
  <2> HIDE DEF put
  <2>3. two \in Seq(Token)
    BY <2>1, Tokens, AppendProperties
  <2> HIDE DEF two
  <2>4. Has(Append(o, token), Command) => token = Command \/ Has(put, Command)
    BY <2>2, HasAppends
  <2>5. Has(Append(two, Command), Command)
    BY <2>3, Tokens, HasAppends
  <2>6. Has(put, Command) => Has(Append(put, token), Command)
    BY <2>1, HasAppends
  <2> QED
    BY <2>1, <2>4, <2>5, <2>6
<1>3. options \in T
  <2> HIDE DEF T
  <2> QED
    BY <1>1, <1>2, Appending DEF Options
<1> QED
  BY <1>3

\* Proton's options where the user wrote %command%.
LEMMA ProtonInFront ==
  ASSUME NEW o \in Options, Has(o, Command)
  PROVE  InFront(o) \in Options /\ InFront(o) # <<>> /\ StartsTheSame(o, InFront(o))
<1> DEFINE env == Environment(o)
           r == Rest(o)
           now == InFront(o)
           tail == InFront(r)
<1>1. /\ env \in Options /\ r \in Options /\ o = env \o r
      /\ \A i \in 1..Len(env) : env[i].kind = "assignment"
      /\ r # <<>> => r[1].kind # "assignment"
  BY EnvironmentAndRest
<1> HIDE DEF env, r
<1>2. Command.kind # "assignment" /\ Wrapper.kind # "assignment"
  BY DEF Command, Wrapper
<1>3. \A i \in 1..Len(env) : env[i] # Command
  BY <1>1, <1>2
<1>4. now = env \o tail
  <2>1. InFront(env) = env /\ InFront(env \o r) = InFront(env) \o InFront(r)
    BY <1>1, <1>3, InFrontParts
  <2> QED
    BY <1>1, <2>1
<1>5. /\ tail \in Options /\ WithoutLauncher(tail) = WithoutLauncher(r)
      /\ now \in Options /\ Behind(now)
  BY <1>1, InFrontKeeps
<1>6. r # <<>>
  <2>1. ~Has(env, Command)
    BY <1>3 DEF Has, Contains
  <2>2. ~Has(<<>>, Command)
    <3>1. Len(<<>>) = 0
      BY EmptySeq
    <3> QED
      BY <3>1 DEF Has, Contains
  <2> QED
    BY <1>1, <2>1, <2>2, HasParts
<1>7. tail # <<>> /\ tail[1].kind # "assignment"
  BY <1>1, <1>2, <1>6, InFrontParts
<1> HIDE DEF tail
<1>8. Environment(now) = env /\ Rest(now) = tail
  BY <1>1, <1>4, <1>5, <1>7, EnvironmentOf
<1>9. Has(now, Command)
  BY InFrontHas
<1>10. now # <<>>
  <2>1. Len(<<>>) = 0
    BY EmptySeq
  <2> QED
    BY <1>9, <2>1 DEF Has, Contains
<1> HIDE DEF now
<1>11. /\ Started(now) = now /\ Variables(now) = Settings(env)
       /\ Started(o) = o /\ Variables(o) = Settings(env)
  BY <1>8, <1>9, VariablesAreSettings DEF env
<1>12. \A i \in DOMAIN now : now[i] = Command => \E j \in 1..i : now[j] = Wrapper
  BY <1>5, LenProperties DEF Behind, Options
<1>13. StartsTheSame(o, now)
  BY <1>5, <1>8, <1>11, <1>12 DEF StartsTheSame, r
<1> QED
  BY <1>5, <1>10, <1>13 DEF now

\* And where there is none.
LEMMA ProtonAlone ==
  ASSUME NEW o \in Options, ~Has(o, Command)
  PROVE  /\ <<Wrapper, Command>> \o o \in Options /\ <<Wrapper, Command>> \o o # <<>>
         /\ ~Ambiguous(o) => StartsTheSame(o, <<Wrapper, Command>> \o o)
<1> DEFINE set == {Wrapper, Runtime}
           one == <<Wrapper>>
           lead == <<Wrapper, Command>>
           command == <<Command>>
           now == lead \o o
           was == command \o o
<1>1. /\ lead \in Seq(Token) /\ command \in Seq(Token) /\ o \in Seq(Token) /\ one \in Seq(Token) /\ <<>> \in Seq(Token)
      /\ Wrapper \in Token /\ Command \in Token
      /\ Len(lead) = 2 /\ lead[1] = Wrapper /\ lead[2] = Command
  BY Tokens DEF Options
<1>2. lead = Append(one, Command) /\ one = Append(<<>>, Wrapper) /\ command = Append(<<>>, Command)
  BY <1>1, Pair
<1>3. Wrapper \in set /\ Command \notin set
  BY DEF Wrapper, Command, Runtime
<1> HIDE DEF set, one, lead, command
<1>4. Without(lead, set) = Without(command, set)
  <2>1. \A w \in Seq(Token), x \in Token : Without(Append(w, x), set) = Sift(Without(w, set), x, set)
    BY WithoutGrows
  <2>2. Without(<<>>, set) = <<>>
    BY WithoutNothing
  <2>3. Without(one, set) = <<>>
    <3>1. Without(Append(<<>>, Wrapper), set) = Sift(Without(<<>>, set), Wrapper, set)
      BY <1>1, <2>1
    <3> QED
      BY <1>2, <1>3, <2>2, <3>1 DEF Sift
  <2>4. Without(Append(one, Command), set) = Append(<<>>, Command)
    <3>1. Without(Append(one, Command), set) = Sift(Without(one, set), Command, set)
      BY <1>1, <2>1
    <3> QED
      BY <1>3, <2>3, <3>1 DEF Sift
  <2>5. Without(Append(<<>>, Command), set) = Append(<<>>, Command)
    <3>1. Without(Append(<<>>, Command), set) = Sift(Without(<<>>, set), Command, set)
      BY <1>1, <2>1
    <3> QED
      BY <1>3, <2>2, <3>1 DEF Sift
  <2> QED
    BY <1>2, <2>4, <2>5
<1>5. Without(now, set) = Without(was, set)
  <2>1. \A x, y \in Seq(Token) : Without(x \o y, set) = Without(x, set) \o Without(y, set)
    BY WithoutParts
  <2>2. Without(now, set) = Without(lead, set) \o Without(o, set)
    BY <1>1, <2>1
  <2>3. Without(was, set) = Without(command, set) \o Without(o, set)
    BY <1>1, <2>1
  <2> QED
    BY <1>4, <2>2, <2>3
<1>6. now \in Seq(Token) /\ now # <<>> /\ now[1] = Wrapper /\ now = <<>> \o now
  <2>1. /\ now \in Seq(Token) /\ Len(now) = 2 + Len(o) /\ Len(o) \in Nat
        /\ \A i \in 1..(2 + Len(o)) : now[i] = IF i <= 2 THEN lead[i] ELSE o[i - 2]
    <3>1. lead \in Seq(Token) /\ o \in Seq(Token) /\ Len(lead) = 2
      BY <1>1
    <3>2. /\ now \in Seq(Token) /\ Len(now) = Len(lead) + Len(o)
          /\ \A i \in 1..(Len(lead) + Len(o)) : now[i] = IF i <= Len(lead) THEN lead[i] ELSE o[i - Len(lead)]
      BY <3>1, ConcatProperties
    <3>3. Len(o) \in Nat
      BY <3>1, LenProperties
    <3> HIDE DEF now
    <3> QED
      BY <3>1, <3>2, <3>3
  <2> HIDE DEF now
  <2>2. now[1] = Wrapper
    BY <1>1, <2>1
  <2> QED
    BY <2>1, <2>2, EmptySeq, ConcatEmptySeq
<1> SUFFICES ASSUME ~Ambiguous(o) PROVE StartsTheSame(o, now)
  BY <1>6 DEF now, lead, Options
<1>7. /\ Started(o) = was /\ Has(was, Command) /\ Environment(was) = <<>> /\ Rest(was) = was
      /\ was \in Options
  <2>1. Started(o) = was
    BY DEF Started, command
  <2>2. Environment(o) = <<>>
    BY DEF Ambiguous
  <2>3. was \in Options /\ Has(was, Command) /\ Environment(was) = <<>>
    BY <2>1, <2>2, StartedParts
  <2>4. was = <<>> \o Rest(was) /\ Rest(was) \in Seq(Token)
    BY <2>3, EnvironmentAndRest DEF Options
  <2> QED
    BY <2>1, <2>3, <2>4, ConcatEmptySeq
<1>8. Has(now, Command)
  <2>1. Has(lead, Command)
    BY <1>1 DEF Has, Contains
  <2> QED
    BY <1>1, <2>1, HasParts DEF Options
<1> HIDE DEF now, was
<1>9. /\ Environment(now) = <<>> /\ Rest(now) = now
      /\ \A i \in DOMAIN now : now[i] = Command => \E j \in 1..i : now[j] = Wrapper
  <2> DEFINE e == <<>>
  <2>1. e \in Options /\ (\A i \in 1..Len(e) : e[i].kind = "assignment") /\ now = e \o now
    BY <1>1, <1>6, EmptySeq DEF Options
  <2> HIDE DEF e
  <2>2. Environment(e \o now) = e /\ Rest(e \o now) = now
        /\ \A i \in DOMAIN (e \o now) : (e \o now)[i] = Command => \E j \in 1..i : (e \o now)[j] = Wrapper
    BY <1>6, <2>1, Placed DEF Options
  <2> QED
    BY <2>1, <2>2 DEF e
<1>10. /\ Started(now) = now /\ Variables(now) = Settings(<<>>)
       /\ Variables(was) = Settings(<<>>)
  BY <1>7, <1>8, <1>9, VariablesAreSettings
<1>11. StartsTheSame(o, now)
  BY <1>5, <1>7, <1>9, <1>10 DEF StartsTheSame, WithoutLauncher, set
<1> QED
  BY <1>11

\* For launch options of any length, each mode and any params: the managed options are
\* launch options that are not empty, and start what the user's started.
THEOREM ManagedStartsTheSame ==
  ASSUME NEW o \in Options, NEW method, method.params \in Seq(STRING)
  PROVE  /\ Managed(o, method) \in Options /\ Managed(o, method) # <<>>
         /\ ~Ambiguous(o) => StartsTheSame(o, Managed(o, method))
<1>1. CASE method.mode = "runtime"
  BY <1>1, RuntimeKeeps DEF Managed
<1>2. CASE method.mode # "runtime" /\ Has(o, Command)
  BY <1>2, ProtonInFront DEF Managed, ProtonOptions
<1>3. CASE method.mode # "runtime" /\ ~Has(o, Command)
  BY <1>3, ProtonAlone DEF Managed, ProtonOptions
<1> QED
  BY <1>1, <1>2, <1>3

=============================================================================
