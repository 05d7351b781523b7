---------------------------- MODULE LaunchOptions ----------------------------
(***************************************************************************)
(* Steam launch options, and what HV Launcher puts around them             *)
(* (ManagedLaunchValueForMode in backend/internal/shortcuts/launch.go).    *)
(*                                                                         *)
(* Launch options are a sequence of shell tokens.  The characters of a     *)
(* token are left out; of its text, only what the code looks at is kept: a *)
(* leading assignment, %command%, and the wrapper.                         *)
(***************************************************************************)
EXTENDS Integers, SequencesExt

Assignment(name, value) == [kind |-> "assignment", name |-> name, value |-> value]
Word(name) == [kind |-> "word", name |-> name, value |-> ""]
Command == [kind |-> "command", name |-> "", value |-> ""]

\* The wrapper as the code writes it: the path is in quotes.
Wrapper == [kind |-> "wrapper", name |-> "quoted", value |-> ""]

\* And as it may be typed by hand.
BareWrapper == [Wrapper EXCEPT !.name = "bare"]

\* The program of the LinUwUx runtime.
Runtime == [kind |-> "runtime", name |-> "", value |-> ""]

\* A value is any string, "1" among them.
Token ==
  [kind : {"assignment"}, name : STRING, value : STRING \cup {"1"}]
  \cup [kind : {"word"}, name : STRING, value : {""}]
  \cup {Command, Wrapper, BareWrapper, Runtime}
Options == Seq(Token)

Has(options, token) == Contains(options, token)

\* leadingEnvironment: the assignments before anything else, and the rest.
Leading(options) ==
  CHOOSE n \in 0..Len(options) :
    /\ \A i \in 1..n : options[i].kind = "assignment"
    /\ n < Len(options) => options[n + 1].kind # "assignment"

Environment(options) == SubSeq(options, 1, Leading(options))

Rest(options) == SubSeq(options, Leading(options) + 1, Len(options))

\* The check for a wrapper is for "hv-launcher run --app-id", which the quote
\* after the quoted path of the program does not let through.
AlreadyManaged(options) == Has(options, BareWrapper)

\* A selected param that the environment sets to something else than 1.
Conflicts(options, params) ==
  \E t \in ToSet(Environment(options)) : t.name \in ToSet(params) /\ t.value # "1"

Refused(options, method) ==
  \/ AlreadyManaged(options)
  \/ method.mode = "runtime" /\ Conflicts(options, method.params)

\* The words but those of a set.
Without(words, set) ==
  LET kept[n \in 0..Len(words)] ==
        IF n = 0 THEN <<>>
        ELSE IF words[n] \in set THEN kept[n - 1] ELSE Append(kept[n - 1], words[n])
  IN  kept[Len(words)]

\* Params that are not set yet, set to 1.
Added(options, params) ==
  LET added == Without(params, {t.name : t \in ToSet(Environment(options))})
  IN  [i \in DOMAIN added |-> Assignment(added[i], "1")]

\* Runtime: after the environment, outermost, before the original command.
RuntimeOptions(options, params) ==
  Environment(options) \o Added(options, params) \o <<Wrapper, Runtime>>
    \o (IF Has(options, Command) THEN <<>> ELSE <<Command>>) \o Rest(options)

InFront(options) ==
  LET put[n \in 0..Len(options)] ==
        IF n = 0 THEN <<>>
        ELSE put[n - 1] \o IF options[n] = Command THEN <<Wrapper, Command>> ELSE <<options[n]>>
  IN  put[Len(options)]

\* Proton: in front of every %command%.
ProtonOptions(options) ==
  IF Has(options, Command) THEN InFront(options) ELSE <<Wrapper, Command>> \o options

\* Mutant: what stood before the command goes to the program behind it.
ManagedInFront(options, method) ==
  IF method.mode = "runtime"
  THEN Added(options, method.params) \o <<Wrapper, Runtime>>
         \o (IF Has(options, Command) THEN <<>> ELSE <<Command>>) \o options
  ELSE ProtonOptions(options)

Managed(options, method) ==
  IF method.mode = "runtime" THEN RuntimeOptions(options, method.params) ELSE ProtonOptions(options)

-----------------------------------------------------------------------------
(* What Steam makes of launch options: the shell runs them with the game's *)
(* command for %command%, or they are arguments of that command.           *)

Started(options) == IF Has(options, Command) THEN options ELSE <<Command>> \o options

\* The last assignment of a name counts.
Variables(options) ==
  LET env == Environment(Started(options))
  IN  {t \in ToSet(env) : \E i \in DOMAIN env : /\ env[i] = t
                                                 /\ \A j \in (i + 1)..Len(env) : env[j].name # t.name}

WithoutLauncher(words) == Without(words, {Wrapper, Runtime})

\* An assignment without a %command% is an argument to Steam, and a variable to
\* the code.
Ambiguous(options) == ~Has(options, Command) /\ Environment(options) # <<>>

\* Both start the same command; the managed ones with the variables of the original
\* ones and more that are 1, and each %command% behind the wrapper.
StartsTheSame(original, managed) ==
  LET was == Started(original)
      now == Started(managed)
  IN  /\ WithoutLauncher(Rest(now)) = WithoutLauncher(Rest(was))
      /\ Variables(was) \subseteq Variables(now)
      /\ \A t \in Variables(now) \ Variables(was) : t.value = "1"
      /\ \A i \in DOMAIN now : now[i] = Command => \E j \in 1..i : now[j] = Wrapper

Wrappers(options) == Len(SelectSeq(options, LAMBDA t : t \in {Wrapper, BareWrapper}))

=============================================================================
