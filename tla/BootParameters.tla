--------------------------- MODULE BootParameters ---------------------------
(***************************************************************************)
(* What HV Launcher reads from, and writes into, the configuration of a    *)
(* boot loader (backend/internal/umip/parser.go, inspect.go, umip.go).     *)
(*                                                                         *)
(* A configuration is a sequence of lines.  Of a line it matters whether   *)
(* it assigns the variable of the kernel's arguments (KERNEL_CMDLINE[...]  *)
(* of Limine, GRUB_CMDLINE_LINUX_DEFAULT), how, and which arguments are in *)
(* it: clearcpuid=514, another clearcpuid, any other, or what a write that *)
(* was cut off has left.                                                   *)
(***************************************************************************)
EXTENDS Naturals, Sequences

Bootloaders == {"limine", "grub"}

\* "clear" is clearcpuid=514 or clearcpuid=umip, "clash" any other clearcpuid.
Arguments == {"quiet", "clear", "clash", "damaged"}

\* "invalid" is a line about the variable in a form the parser refuses.
Ops == {"other", "set", "append", "invalid"}

Line == [op : Ops, args : SUBSET Arguments]
Text == Seq(Line)

ValuesAt(text, ops) == {i \in DOMAIN text : text[i].op \in ops}
ArgumentsAt(text, at) == UNION {text[i].args : i \in at}

\* parseLimine: the last "=" starts over, "+=" adds to what is before it.
LimineValues(text) ==
  {i \in ValuesAt(text, {"set", "append"}) : \A j \in ValuesAt(text, {"set"}) : j <= i}

\* parseGRUB: there is one assignment, and it is a "=".
GrubValues(text) == ValuesAt(text, {"set"})

Parses(b, text) ==
  /\ ValuesAt(text, {"invalid"}) = {}
  /\ b = "grub" => /\ ValuesAt(text, {"append"}) = {}
                   /\ \E i \in DOMAIN text : GrubValues(text) = {i}

\* The kernel arguments a configuration gives.
KernelArguments(b, text) ==
  ArgumentsAt(text, IF b = "limine" THEN LimineValues(text) ELSE GrubValues(text))

\* inspectArguments
State(args) ==
  IF "clash" \in args THEN "conflicting"
  ELSE IF "clear" \in args THEN "configured" ELSE "action-required"

\* buildReplacement refuses what it cannot read and what needs no change.
NeedsChange(b, text) == Parses(b, text) /\ State(KernelArguments(b, text)) = "action-required"

\* Mutant: the argument goes to the head of the file, where a "=" undoes it.
ReplacementAtHead(b, text) ==
  IF b = "limine" THEN <<[op |-> "append", args |-> {"clear"}]>> \o text
  ELSE [i \in DOMAIN text |-> IF text[i].op = "set"
                              THEN [text[i] EXCEPT !.args = @ \cup {"clear"}] ELSE text[i]]

\* buildReplacement: Limine gets a line more, GRUB the argument in its value.
Replacement(b, text) ==
  IF b = "limine" THEN Append(text, [op |-> "append", args |-> {"clear"}])
  ELSE [i \in DOMAIN text |-> IF text[i].op = "set"
                              THEN [text[i] EXCEPT !.args = @ \cup {"clear"}] ELSE text[i]]

\* candidate: what the review shows, given whether the running kernel has UMIP.
Candidate(b, text, liveUMIP) ==
  IF ~Parses(b, text) THEN "unsupported-syntax"
  ELSE LET state == State(KernelArguments(b, text))
       IN  IF state = "configured" /\ liveUMIP THEN "restart-required" ELSE state

\* A line of which a write has reached a part.
Scraps == {line \in Line : line.args = {"damaged"}}

Alike(new, old, n) == n <= Len(old) /\ \A i \in 1..n : new[i] = old[i]

\* What a write of new over old can leave when it fails, or is cut off: up to the
\* first difference the two are alike; there is no truncation yet.
Torn(new, old) ==
  {SubSeq(new, 1, n) \o SubSeq(old, n + 1, Len(old)) : n \in 0..Len(new)}
  \cup UNION {{SubSeq(new, 1, n) \o <<scrap>> \o SubSeq(old, n + 2, Len(old)) : scrap \in Scraps} :
               n \in {m \in 0..(Len(new) - 1) : ~Alike(new, old, m + 1)}}

=============================================================================
