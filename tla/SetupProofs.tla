----------------------------- MODULE SetupProofs -----------------------------
(***************************************************************************)
(* Proofs about turning UMIP off (Umip), for every configuration a boot    *)
(* loader may have, any number of attempts and edits, and a failure or a   *)
(* kill at any step; about the installers of the CPUID module              *)
(* (ModuleInstall) and of a patched Proton (ProtonInstall, Archive), for   *)
(* every archive and any number of installations and of changes by others; *)
(* and about the setup of a host (Setup): what was proved of each          *)
(* installer holds of them together, under kills, reboots and people who   *)
(* change the host, and the inspection beside them never calls a host      *)
(* ready that is not.  Beside its own steps, each installer meets those of *)
(* the setup around it, which forgets how it ended and resets the stored   *)
(* verification.                                                           *)
(***************************************************************************)
EXTENDS Setup, SequenceTheorems, Recursion

(* What is written.                                                        *)

LEMMA LineFields == \A line \in Line : line.op \in Ops /\ line.args \subseteq Arguments
  BY DEF Line

LEMMA OneLine == ASSUME NEW line \in Line PROVE <<line>> \in Text
  BY DEF Text

\* A cut-off write leaves a configuration, too.
LEMMA TornIsText ==
  ASSUME NEW new \in Text, NEW old \in Text, NEW torn \in Torn(new, old) PROVE torn \in Text
<1>1. /\ Len(new) \in Nat /\ Len(old) \in Nat
      /\ (\A i \in 1..Len(new) : new[i] \in Line) /\ (\A i \in 1..Len(old) : old[i] \in Line)
  BY ElementOfSeq, LenProperties DEF Text
<1>2. ASSUME NEW n \in 0..Len(new) PROVE SubSeq(new, 1, n) \in Text
  <2>1. \A i \in 1..n : new[i] \in Line
    BY <1>1
  <2> QED
    BY <1>1, <2>1, SubSeqProperties DEF Text
<1>3. ASSUME NEW n \in 1..(Len(new) + 2) PROVE SubSeq(old, n, Len(old)) \in Text
  <2>1. \A i \in n..Len(old) : old[i] \in Line
    BY <1>1
  <2> QED
    BY <1>1, <2>1, SubSeqProperties DEF Text
<1>4. \A s, t \in Text : s \o t \in Text
  BY ConcatProperties DEF Text
<1>5. CASE \E n \in 0..Len(new) : torn = SubSeq(new, 1, n) \o SubSeq(old, n + 1, Len(old))
  BY <1>1, <1>2, <1>3, <1>4, <1>5
<1>6. CASE \E n \in 0..(Len(new) - 1), scrap \in Scraps :
             torn = SubSeq(new, 1, n) \o <<scrap>> \o SubSeq(old, n + 2, Len(old))
  <2>1. PICK n \in 0..(Len(new) - 1), scrap \in Scraps :
               torn = SubSeq(new, 1, n) \o <<scrap>> \o SubSeq(old, n + 2, Len(old))
    BY <1>6
  <2>2. <<scrap>> \in Text
    BY OneLine DEF Scraps
  <2>3. SubSeq(new, 1, n) \in Text /\ SubSeq(old, n + 2, Len(old)) \in Text
    BY <1>1, <1>2, <1>3
  <2> QED
    BY <1>4, <2>1, <2>2, <2>3
<1> QED
  BY <1>5, <1>6 DEF Torn

\* The new text of a Limine configuration, line by line.
LEMMA LimineReplacement ==
  ASSUME NEW text \in Text
  PROVE  LET new == Replacement("limine", text)
             n == Len(text) + 1
         IN  /\ new \in Text /\ DOMAIN text = 1..Len(text) /\ DOMAIN new = 1..n /\ Len(text) \in Nat
             /\ \A i \in 1..Len(text) : new[i] = text[i]
             /\ new[n] = [op |-> "append", args |-> {"clear"}]
<1> DEFINE line == [op |-> "append", args |-> {"clear"}]
<1>1. line \in Line
  BY DEF Line, Ops, Arguments
<1>2. Replacement("limine", text) = Append(text, line)
  BY DEF Replacement
<1> HIDE DEF line
<1>3. /\ Append(text, line) \in Text /\ Len(Append(text, line)) = Len(text) + 1
      /\ \A i \in 1..Len(text) : Append(text, line)[i] = text[i]
      /\ Append(text, line)[Len(text) + 1] = line
  BY <1>1, AppendProperties DEF Text
<1>4. DOMAIN text = 1..Len(text) /\ DOMAIN Append(text, line) = 1..(Len(text) + 1) /\ Len(text) \in Nat
  BY <1>3, LenProperties DEF Text
<1> QED
  BY <1>2, <1>3, <1>4 DEF line

\* And that of a GRUB configuration.
LEMMA GrubReplacement ==
  ASSUME NEW text \in Text
  PROVE  LET new == Replacement("grub", text)
         IN  /\ new \in Text /\ DOMAIN new = DOMAIN text
             /\ \A i \in DOMAIN text :
                  /\ text[i] \in Line /\ new[i] \in Line /\ new[i].op = text[i].op
                  /\ new[i].args = IF text[i].op = "set" THEN text[i].args \cup {"clear"} ELSE text[i].args
<1> DEFINE new == Replacement("grub", text)
<1>1. DOMAIN text = 1..Len(text) /\ Len(text) \in Nat /\ \A i \in DOMAIN text : text[i] \in Line
  BY ElementOfSeq, LenProperties DEF Text
<1>2. new = [i \in DOMAIN text |-> IF text[i].op = "set"
                                   THEN [text[i] EXCEPT !.args = @ \cup {"clear"}] ELSE text[i]]
  BY DEF Replacement
<1>3. ASSUME NEW i \in DOMAIN text
      PROVE  /\ new[i] \in Line /\ new[i].op = text[i].op
             /\ new[i].args = IF text[i].op = "set" THEN text[i].args \cup {"clear"} ELSE text[i].args
  <2>1. text[i] \in Line
    BY <1>1
  <2>2. new[i] = IF text[i].op = "set" THEN [text[i] EXCEPT !.args = @ \cup {"clear"}] ELSE text[i]
    BY <1>2
  <2> QED
    BY <2>1, <2>2 DEF Line, Arguments
<1> HIDE DEF new
<1>4. new \in [1..Len(text) -> Line]
  BY <1>1, <1>2, <1>3
<1>5. new \in Text
  BY <1>1, <1>4, SeqDef DEF Text
<1> QED
  BY <1>1, <1>2, <1>3, <1>5 DEF new

LEMMA ReplacementIsText ==
  ASSUME NEW b \in Bootloaders, NEW text \in Text PROVE Replacement(b, text) \in Text
  BY LimineReplacement, GrubReplacement DEF Bootloaders

\* What kept the next inspection from being content is gone, and no more.
LEMMA StateOfAdded ==
  ASSUME NEW args, State(args) = "action-required" PROVE State(args \cup {"clear"}) = "configured"
  BY DEF State

LEMMA LimineAdded ==
  ASSUME NEW text \in Text, Parses("limine", text)
  PROVE  LET new == Replacement("limine", text)
         IN  /\ Parses("limine", new)
             /\ KernelArguments("limine", new) = KernelArguments("limine", text) \cup {"clear"}
<1> DEFINE new == Replacement("limine", text)
           n == Len(text) + 1
<1>1. /\ DOMAIN text = 1..Len(text) /\ DOMAIN new = 1..n /\ Len(text) \in Nat
      /\ \A i \in 1..Len(text) : new[i] = text[i]
      /\ new[n].op = "append" /\ new[n].args = {"clear"}
  BY LimineReplacement
<1> HIDE DEF new
<1>2. ValuesAt(new, {"invalid"}) = ValuesAt(text, {"invalid"})
  BY <1>1 DEF ValuesAt
<1>3. ValuesAt(new, {"set"}) = ValuesAt(text, {"set"})
  BY <1>1 DEF ValuesAt
<1>4. ValuesAt(new, {"set", "append"}) = ValuesAt(text, {"set", "append"}) \cup {n}
  BY <1>1 DEF ValuesAt
<1>5. ValuesAt(text, {"set"}) \subseteq 1..Len(text) /\ ValuesAt(text, {"set", "append"}) \subseteq 1..Len(text)
  BY <1>1 DEF ValuesAt
<1>6. LimineValues(new) = LimineValues(text) \cup {n}
  BY <1>1, <1>3, <1>4, <1>5 DEF LimineValues
<1>7. LimineValues(text) \subseteq 1..Len(text)
  BY <1>5 DEF LimineValues
<1> DEFINE values == LimineValues(text)
<1> HIDE DEF values
<1>8. ArgumentsAt(new, values \cup {n}) = ArgumentsAt(text, values) \cup {"clear"}
  <2>1. \A i \in values : new[i].args = text[i].args
    BY <1>1, <1>7 DEF values
  <2>2. {new[i].args : i \in values \cup {n}} = {text[i].args : i \in values} \cup {{"clear"}}
    BY <1>1, <2>1
  <2> QED
    BY <2>2 DEF ArgumentsAt
<1> QED
  BY <1>2, <1>6, <1>8 DEF new, values, Parses, KernelArguments

LEMMA GrubAdded ==
  ASSUME NEW text \in Text, Parses("grub", text)
  PROVE  LET new == Replacement("grub", text)
         IN  /\ Parses("grub", new)
             /\ KernelArguments("grub", new) = KernelArguments("grub", text) \cup {"clear"}
<1> DEFINE new == Replacement("grub", text)
<1>1. /\ DOMAIN new = DOMAIN text
      /\ \A i \in DOMAIN text :
           /\ new[i].op = text[i].op
           /\ text[i].op = "set" => new[i].args = text[i].args \cup {"clear"}
  BY GrubReplacement
<1> HIDE DEF new
<1>2. \A ops : ValuesAt(new, ops) = ValuesAt(text, ops)
  BY <1>1 DEF ValuesAt
<1>3. PICK i \in DOMAIN text : GrubValues(text) = {i}
  BY DEF Parses
<1>4. GrubValues(new) = {i} /\ text[i].op = "set"
  BY <1>2, <1>3 DEF GrubValues, ValuesAt
<1>5. ArgumentsAt(new, {i}) = ArgumentsAt(text, {i}) \cup {"clear"}
  <2>1. ArgumentsAt(new, {i}) = new[i].args /\ ArgumentsAt(text, {i}) = text[i].args
    BY DEF ArgumentsAt
  <2> QED
    BY <1>1, <1>4, <2>1
<1>6. Parses("grub", new)
  BY <1>1, <1>2, <1>3, <1>4 DEF Parses
<1>7. KernelArguments("grub", new) = KernelArguments("grub", text) \cup {"clear"}
  BY <1>3, <1>4, <1>5 DEF KernelArguments
<1> QED
  BY <1>6, <1>7 DEF new

\* For every configuration that buildReplacement does not refuse: the kernel gets the
\* arguments it had and clearcpuid=514, and the next inspection finds it configured.
THEOREM ReplacementAddsTheArgument ==
  ASSUME NEW b \in Bootloaders, NEW text \in Text, NeedsChange(b, text)
  PROVE  /\ KernelArguments(b, Replacement(b, text)) = KernelArguments(b, text) \cup {"clear"}
         /\ Candidate(b, Replacement(b, text), FALSE) = "configured"
<1>1. /\ Parses(b, Replacement(b, text))
      /\ KernelArguments(b, Replacement(b, text)) = KernelArguments(b, text) \cup {"clear"}
  BY LimineAdded, GrubAdded DEF NeedsChange, Bootloaders
<1>2. State(KernelArguments(b, text) \cup {"clear"}) = "configured"
  BY StateOfAdded DEF NeedsChange
<1> QED
  BY <1>1, <1>2 DEF Candidate

-----------------------------------------------------------------------------
(* The inductive invariant of Umip.                                        *)

\* What the files hold at each step of Apply.
FilesInv ==
  /\ pc # "idle" => result = "none"
  /\ pc \in {"back_up", "write"} =>
       config = original /\ generated = menu /\ NeedsChange(bootloader, original)
  /\ pc \in {"update", "discard_applied"} => config = Replacement(bootloader, original)
  /\ pc = "discard_applied" => generated = config
  /\ pc = "undo_write" => generated = menu
  /\ pc \in {"discard_undone", "regenerate", "discard_rolled_back"} => config = original
  /\ pc = "discard_undone" => generated = menu
  /\ pc = "discard_rolled_back" => generated = original

Kept(copies) == \E b \in copies : b.text = intended

\* From the copy on, the file is of no account: what was meant is in a backup, and once
\* the new text is meant, in one that is not about to be discarded.
BackupInv ==
  /\ pc \notin {"idle", "back_up"} => OwnBackup \in backups
  /\ pc \notin {"idle", "back_up", "discard_applied"} => Kept(backups)
  /\ pc = "discard_applied" => config = intended \/ Kept(backups \ {OwnBackup})

UmipInv == UmipTypeOK /\ FilesInv /\ BackupInv /\ TextIsKept /\ OutcomeIsTrue

LEMMA UmipInitially == UmipInit => UmipInv
<1> SUFFICES ASSUME UmipInit PROVE UmipInv
  OBVIOUS
<1>1. <<>> \in Text
  BY EmptySeq DEF Text
<1>2. UmipTypeOK
  BY <1>1, TextsAssumption, UmipBounds DEF UmipInit, UmipTypeOK, Outcomes
<1> QED
  BY <1>2 DEF UmipInit, UmipInv, FilesInv, BackupInv, TextIsKept, OutcomeIsTrue

\* The setup forgets what Apply returned, and the host may be booted with another menu.
LEMMA UmipForgotten ==
  ASSUME UmipInv, booted' \in {booted, generated},
         \/ Forget
         \/ UNCHANGED <<pc, original, result, menu>>,
         UNCHANGED <<bootloader, bootFiles, applies, edits, intended>>
  PROVE  UmipInv'
<1> USE DEF UmipInv, bootFiles
<1>1. <<>> \in Text
  BY EmptySeq DEF Text
<1>2. CASE Forget
  <2>1. UmipTypeOK'
    BY <1>1, <1>2 DEF UmipTypeOK, Forget, Outcomes
  <2> QED
    BY <1>2, <2>1 DEF Forget, FilesInv, BackupInv, TextIsKept, OutcomeIsTrue
<1>3. CASE UNCHANGED <<pc, original, result, menu>>
  <2>1. UmipTypeOK'
    BY <1>3 DEF UmipTypeOK
  <2>2. FilesInv' /\ OutcomeIsTrue'
    BY <1>3 DEF FilesInv, OutcomeIsTrue, OwnBackup
  <2>3. BackupInv' /\ TextIsKept'
    BY <1>3 DEF BackupInv, TextIsKept, OwnBackup, Kept
  <2> QED
    BY <2>1, <2>2, <2>3
<1> QED
  BY <1>2, <1>3

\* Apply begins or is refused.
LEMMA ApplyBegins == ASSUME UmipInv, RefuseApply \/ Review PROVE UmipInv'
<1> USE DEF UmipInv, bootFiles
<1>1. <<>> \in Text /\ applies + 1 \in Nat
  BY EmptySeq DEF Text, UmipTypeOK
<1>2. UmipTypeOK'
  BY <1>1, UmipBounds DEF RefuseApply, Review, UmipTypeOK, Outcomes, UmipSteps
<1>3. FilesInv' /\ OutcomeIsTrue' /\ TextIsKept'
  BY DEF RefuseApply, Review, FilesInv, OutcomeIsTrue, TextIsKept
<1>4. BackupInv'
  BY DEF RefuseApply, Review, BackupInv
<1> QED
  BY <1>2, <1>3, <1>4

LEMMA BackUpKeeps == ASSUME UmipInv, BackUp PROVE UmipInv'
<1> USE DEF UmipInv, Goto, End, umipHistory
<1>1. OwnBackup \in Backup /\ OwnBackup.text = original
  BY DEF UmipTypeOK, OwnBackup, Backup
<1>2. /\ pc = "back_up" /\ backups' \in {backups, backups \cup {OwnBackup}} /\ OwnBackup' = OwnBackup
      /\ UNCHANGED <<bootloader, config, generated, booted, original, applies, edits, intended, menu>>
      /\ \/ pc' = "write" /\ result' = result /\ OwnBackup \in backups'
         \/ pc' = "idle" /\ result' = "refused"
  BY DEF BackUp, OwnBackup
<1>3. UmipTypeOK'
  BY <1>1, <1>2 DEF UmipTypeOK, Outcomes, UmipSteps
<1>4. FilesInv' /\ OutcomeIsTrue'
  BY <1>2 DEF FilesInv, OutcomeIsTrue
<1>5. TextIsKept'
  BY <1>2 DEF TextIsKept
<1>6. BackupInv'
  BY <1>1, <1>2, <1>5 DEF BackupInv, FilesInv, TextIsKept, Kept
<1> QED
  BY <1>3, <1>4, <1>5, <1>6

\* The steps that write the configuration; each has what was meant in a backup.
LEMMA WritesKeep == ASSUME UmipInv, WriteReplacement \/ UndoWrite \/ RollBack PROVE UmipInv'
<1> USE DEF UmipInv, Goto, End, umipHistory
<1>1. /\ pc \in {"write", "undo_write", "roll_back"} /\ result = "none"
      /\ UNCHANGED <<bootloader, generated, booted, backups, original, applies, edits, intended, menu>>
      /\ OwnBackup' = OwnBackup /\ OwnBackup \in backups /\ Kept(backups)
  BY DEF WriteReplacement, UndoWrite, RollBack, FilesInv, BackupInv, OwnBackup
<1>2. /\ config \in Text /\ original \in Text /\ Replacement(bootloader, original) \in Text
      /\ \A new \in Text : Torn(new, config) \cup {new} \subseteq Text
  BY TornIsText, ReplacementIsText DEF UmipTypeOK
<1>3. \/ pc = "write" /\ config' = Replacement(bootloader, original) /\ pc' = "update" /\ result' = result
      \/ pc = "write" /\ config' \in Text /\ pc' = "undo_write" /\ result' = result
      \/ pc = "undo_write" /\ config' = original /\ pc' = "discard_undone" /\ result' = result
      \/ pc = "roll_back" /\ config' = original /\ pc' = "regenerate" /\ result' = result
      \/ config' \in Text /\ pc' = "idle" /\ result' = "recovery-required"
  <2>1. CASE WriteReplacement
    BY <1>2, <2>1 DEF WriteReplacement, WriteConfiguration
  <2>2. CASE UndoWrite
    BY <1>2, <2>2 DEF UndoWrite, WriteConfiguration
  <2>3. CASE RollBack
    BY <1>2, <2>3 DEF RollBack, WriteConfiguration
  <2> QED
    BY <2>1, <2>2, <2>3
<1>4. UmipTypeOK'
  <2>1. config' \in Text
    BY <1>2, <1>3
  <2> QED
    BY <1>1, <1>3, <2>1 DEF UmipTypeOK, Outcomes, UmipSteps
<1>5. FilesInv' /\ OutcomeIsTrue'
  BY <1>1, <1>3 DEF FilesInv, OutcomeIsTrue
<1>6. BackupInv' /\ TextIsKept'
  BY <1>1, <1>3 DEF BackupInv, TextIsKept, Kept
<1> QED
  BY <1>4, <1>5, <1>6

\* Once the menu is generated, the new text is the one that is meant.
LEMMA UpdateKeeps == ASSUME UmipInv, Update PROVE UmipInv'
<1> USE DEF UmipInv, Goto, umipHistory
<1>1. /\ pc = "update" /\ result' = "none"
      /\ UNCHANGED <<bootloader, config, booted, backups, original, applies, edits, menu>>
      /\ OwnBackup' = OwnBackup /\ OwnBackup \in backups /\ Kept(backups) /\ OwnBackup.text = original
  BY DEF Update, RunUpdater, FilesInv, BackupInv, OwnBackup
<1>2. \/ /\ pc' = "discard_applied" /\ generated' = config
         /\ intended' = IF original = intended THEN config ELSE intended
      \/ pc' = "roll_back" /\ generated' \in {generated, config, <<[op |-> "other", args |-> {"damaged"}]>>}
         /\ UNCHANGED intended
  BY DEF Update, RunUpdater
<1>3. UmipTypeOK'
  <2>1. [op |-> "other", args |-> {"damaged"}] \in Line
    BY DEF Line, Ops, Arguments
  <2>2. config \in Text /\ generated \in Text /\ intended \in Text
        /\ <<[op |-> "other", args |-> {"damaged"}]>> \in Text
    BY <2>1, OneLine DEF UmipTypeOK
  <2>3. generated' \in Text /\ intended' \in Text
    BY <1>2, <2>2
  <2> QED
    BY <1>1, <1>2, <2>3 DEF UmipTypeOK, Outcomes, UmipSteps
<1>4. FilesInv' /\ OutcomeIsTrue'
  BY <1>1, <1>2 DEF FilesInv, OutcomeIsTrue
<1>5. BackupInv' /\ TextIsKept'
  <2>1. PICK b \in backups : b.text = intended
    BY <1>1 DEF Kept
  <2>2. CASE UNCHANGED intended /\ pc' = "roll_back"
    BY <1>1, <2>1, <2>2 DEF BackupInv, TextIsKept, Kept
  <2>3. CASE pc' = "discard_applied" /\ original = intended
    <3>1. config' = intended'
      BY <1>1, <1>2, <2>3
    <3> QED
      BY <1>1, <2>3, <3>1 DEF BackupInv, TextIsKept
  <2>4. CASE pc' = "discard_applied" /\ original # intended
    <3>1. b \in backups \ {OwnBackup} /\ intended' = intended
      BY <1>1, <1>2, <2>1, <2>4
    <3> QED
      BY <1>1, <2>1, <2>4, <3>1 DEF BackupInv, TextIsKept, Kept
  <2> QED
    BY <1>2, <2>2, <2>3, <2>4
<1> QED
  BY <1>3, <1>4, <1>5

LEMMA RegenerateKeeps == ASSUME UmipInv, Regenerate PROVE UmipInv'
<1> USE DEF UmipInv, Goto, End, umipHistory
<1>1. /\ pc = "regenerate" /\ config = original
      /\ UNCHANGED <<bootloader, config, booted, backups, original, applies, edits, intended, menu>>
      /\ OwnBackup' = OwnBackup /\ OwnBackup \in backups /\ Kept(backups)
  BY DEF Regenerate, FilesInv, BackupInv, OwnBackup
<1>2. \/ pc' = "discard_rolled_back" /\ generated' = config /\ result' = result
      \/ pc' = "idle" /\ generated' \in {generated, config, <<[op |-> "other", args |-> {"damaged"}]>>}
         /\ result' = "recovery-required"
  BY DEF Regenerate, RunUpdater
<1>3. UmipTypeOK'
  <2>1. [op |-> "other", args |-> {"damaged"}] \in Line
    BY DEF Line, Ops, Arguments
  <2>2. generated' \in Text
    BY <1>2, <2>1, OneLine DEF UmipTypeOK
  <2> QED
    BY <1>1, <1>2, <2>2 DEF UmipTypeOK, Outcomes, UmipSteps
<1>4. FilesInv' /\ OutcomeIsTrue'
  BY <1>1, <1>2 DEF FilesInv, OutcomeIsTrue
<1>5. BackupInv' /\ TextIsKept'
  BY <1>1, <1>2 DEF BackupInv, TextIsKept, Kept
<1> QED
  BY <1>3, <1>4, <1>5

LEMMA DiscardKeeps == ASSUME UmipInv, DiscardBackup PROVE UmipInv'
<1> USE DEF UmipInv, End, umipHistory
<1>1. /\ UNCHANGED <<bootloader, config, generated, booted, original, applies, edits, intended, menu>>
      /\ OwnBackup' = OwnBackup /\ OwnBackup.text = original
      /\ backups' \in {backups, backups \ {OwnBackup}} /\ pc' = "idle"
      /\ \/ pc = "discard_applied" /\ result' = "applied"
         \/ pc = "discard_undone" /\ result' \in {"rolled-back", "recovery-required"}
         \/ pc = "discard_rolled_back" /\ result' = "rolled-back"
  BY DEF DiscardBackup, Discard, OwnBackup
<1>2. UmipTypeOK'
  BY <1>1 DEF UmipTypeOK, Outcomes
<1>3. FilesInv' /\ OutcomeIsTrue' /\ BackupInv'
  BY <1>1 DEF FilesInv, OutcomeIsTrue, BackupInv
<1>4. TextIsKept'
  <2>1. CASE pc = "discard_applied"
    BY <1>1, <2>1 DEF BackupInv, Kept, TextIsKept
  <2>2. CASE pc \in {"discard_undone", "discard_rolled_back"}
    <3>1. config = original
      BY <2>2 DEF FilesInv
    <3>2. PICK b \in backups : b.text = intended
      BY <2>2 DEF BackupInv, Kept
    <3>3. b = OwnBackup \/ b \in backups'
      BY <1>1
    <3> QED
      BY <1>1, <3>1, <3>2, <3>3 DEF TextIsKept
  <2> QED
    BY <1>1, <2>1, <2>2
<1> QED
  BY <1>2, <1>3, <1>4

\* A kill, with what was being written cut off, or with the host.
LEMMA UmipEnds == ASSUME UmipInv, KillUmip \/ RebootUmip PROVE UmipInv'
<1> USE DEF UmipInv, bootFiles
<1>1. /\ pc' = "idle" /\ result' = "none" /\ original' = <<>> /\ menu' = <<>> /\ <<>> \in Text
      /\ booted' \in {booted, generated} /\ UNCHANGED <<bootloader, backups, applies, edits, intended>>
  BY EmptySeq DEF KillUmip, RebootUmip, Forget, Text
<1>2. /\ config \in Text /\ original \in Text /\ Replacement(bootloader, original) \in Text
      /\ \A new \in Text : Torn(new, config) \subseteq Text
  BY TornIsText, ReplacementIsText DEF UmipTypeOK
<1>3. /\ generated' \in {generated, config} /\ config' \in Text
      /\ config' = config \/ pc \in {"write", "undo_write", "roll_back"}
  <2>1. CASE KillUmip
    BY <1>2, <2>1 DEF KillUmip
  <2>2. CASE RebootUmip
    BY <1>2, <2>2 DEF RebootUmip
  <2> QED
    BY <2>1, <2>2
<1>4. UmipTypeOK'
  BY <1>1, <1>3 DEF UmipTypeOK, Outcomes
<1>5. TextIsKept'
  <2>1. CASE config' = config
    BY <1>1, <2>1 DEF TextIsKept
  <2>2. CASE pc \in {"write", "undo_write", "roll_back"}
    BY <1>1, <2>2 DEF TextIsKept, BackupInv, Kept
  <2> QED
    BY <1>3, <2>1, <2>2
<1> QED
  BY <1>1, <1>4, <1>5 DEF FilesInv, BackupInv, OutcomeIsTrue

LEMMA EditKeeps == ASSUME UmipInv, Edit PROVE UmipInv'
<1> USE DEF UmipInv, Forget
<1>1. <<>> \in Text /\ config' \in Text /\ generated' \in Text /\ intended' = config' /\ edits' \in 0..MaxEdits
  BY EmptySeq, TextsAssumption, UmipBounds DEF Edit, Text, UmipTypeOK
<1>2. UmipTypeOK'
  BY <1>1 DEF Edit, UmipTypeOK, Outcomes
<1> QED
  BY <1>1, <1>2 DEF Edit, FilesInv, BackupInv, OutcomeIsTrue, TextIsKept

LEMMA ApplyKeeps == ASSUME UmipInv, UmipStep PROVE UmipInv'
  BY BackUpKeeps, WritesKeep, UpdateKeeps, RegenerateKeeps, DiscardKeeps DEF UmipStep

LEMMA UmipInductive == ASSUME UmipInv, [UmipNext]_umipVars PROVE UmipInv'
<1>1. CASE UNCHANGED umipVars
  BY <1>1, UmipForgotten DEF umipVars, applyVars, umipHistory
<1> QED
  BY <1>1, ApplyBegins, ApplyKeeps, UmipEnds, EditKeeps DEF UmipNext

LEMMA ArgumentIsAdded == UmipInv => OnlyTheArgumentIsAdded
<1>1. UmipInv /\ pc = "write" => /\ original \in Text /\ bootloader \in Bootloaders
                                 /\ NeedsChange(bootloader, original)
  BY DEF UmipInv, UmipTypeOK, FilesInv
<1> QED
  BY <1>1, ReplacementAddsTheArgument DEF OnlyTheArgumentIsAdded

\* The files and local variables of Apply are well-formed, torn files included.
THEOREM UmipTypeCorrect == UmipSpec => []UmipTypeOK
<1>1. UmipInv => UmipTypeOK
  BY DEF UmipInv
<1> QED
  BY <1>1, UmipInitially, UmipInductive, PTL DEF UmipSpec

\* The text the administrator last meant is never lost, whatever fails or is killed.
THEOREM TextNeverLost == UmipSpec => []TextIsKept
<1>1. UmipInv => TextIsKept
  BY DEF UmipInv
<1> QED
  BY <1>1, UmipInitially, UmipInductive, PTL DEF UmipSpec

\* What Apply returns is so of the files, the menu and the backup.
THEOREM OutcomesAreTrue == UmipSpec => []OutcomeIsTrue
<1>1. UmipInv => OutcomeIsTrue
  BY DEF UmipInv
<1> QED
  BY <1>1, UmipInitially, UmipInductive, PTL DEF UmipSpec

\* Whatever text Apply found, of either bootloader and however it was edited or torn before, the text
\* it is about to write passes the same kernel arguments and clearcpuid=514, and reads as configured.
THEOREM ArgumentAddedAlone == UmipSpec => []OnlyTheArgumentIsAdded
<1> QED
  BY ArgumentIsAdded, UmipInitially, UmipInductive, PTL DEF UmipSpec

-----------------------------------------------------------------------------
(* The installer of the CPUID module.                                      *)

\* Whose the registration is follows from where Install is; the module that is
\* tested is there; and what is stored as verified has been loaded.
RegistrationInv ==
  /\ mpc # "idle" => outcome = "none"
  /\ mpc \in {"dependencies", "add"} => registry # "ours"
  /\ mpc \in {"build", "install", "verify", "test", "clean_up"} => registry = "ours"
  /\ mpc = "test" => module = "compatible"
  /\ verification = "verified" => accepted

ModuleInv == ModuleTypeOK /\ RegistrationInv /\ FailuresCleanUp /\ InstalledIsThere

LEMMA ModuleInitially == ModuleInit => ModuleInv
<1> SUFFICES ASSUME ModuleInit PROVE ModuleInv
  OBVIOUS
<1>1. /\ registry \in Registrations /\ module \in ModuleStates /\ verification \in Verdicts
      /\ outcome \in InstallOutcomes /\ mpc = "idle" /\ installs \in 0..MaxInstalls
      /\ adminChanges \in 0..MaxAdmin
  BY ModuleBounds DEF ModuleInit, Registrations, ModuleStates, Verdicts, InstallOutcomes
<1>2. tools \in BOOLEAN /\ accepted \in BOOLEAN /\ plan \in BOOLEAN
  BY DEF ModuleInit
<1>3. ModuleTypeOK
  BY <1>1, <1>2 DEF ModuleTypeOK
<1>4. RegistrationInv /\ FailuresCleanUp /\ InstalledIsThere
  BY DEF ModuleInit, RegistrationInv, FailuresCleanUp, InstalledIsThere
<1> QED
  BY <1>3, <1>4 DEF ModuleInv

\* The setup forgets how Install ended, and an inspection resets what is stored.
LEMMA ModuleForgotten ==
  ASSUME ModuleInv, outcome' \in {outcome, "none"}, verification' \in {verification, "pending"},
         UNCHANGED <<moduleHost, accepted, mpc, plan, installs, adminChanges>>
  PROVE  ModuleInv'
  BY DEF ModuleInv, ModuleTypeOK, RegistrationInv, FailuresCleanUp, InstalledIsThere,
         moduleHost, Verdicts, InstallOutcomes

LEMMA InstallKeeps ==
  ASSUME ModuleInv, InstallStep PROVE ModuleInv'
<1> USE DEF ModuleInv, ModuleTypeOK, RegistrationInv, FailuresCleanUp, InstalledIsThere,
            moduleHost, stored, MGoto, MEnd, InstallSteps, InstallOutcomes
<1>1. CASE Stage
  BY <1>1 DEF Stage
<1>2. CASE Look
  BY <1>2 DEF Look, Seen
<1>3. CASE InstallDependencies
  BY <1>3 DEF InstallDependencies
<1>4. CASE Add
  BY <1>4 DEF Add, Registrations
<1>5. CASE Build
  BY <1>5 DEF Build
<1>6. CASE InstallModule
  BY <1>6 DEF InstallModule, ModuleStates
<1>7. CASE Verify
  BY <1>7 DEF Verify, Seen
<1>8. CASE Test
  BY <1>8 DEF Test, Try, Verdicts
<1>9. CASE CleanUp
  BY <1>9 DEF CleanUp, ModuleStates, Registrations
<1> QED
  BY <1>1, <1>2, <1>3, <1>4, <1>5, <1>6, <1>7, <1>8, <1>9 DEF InstallStep

LEMMA ModuleSurroundings ==
  ASSUME ModuleInv, BeginInstall \/ TestByRequest \/ KillInstall \/ RebootModule \/ Administer
  PROVE  ModuleInv'
<1> USE ModuleBounds
    DEF ModuleInv, ModuleTypeOK, RegistrationInv, FailuresCleanUp, InstalledIsThere,
        moduleHost, stored, installVars, MEnd, InstallSteps, InstallOutcomes
<1>1. CASE BeginInstall
  BY <1>1 DEF BeginInstall
<1>2. CASE TestByRequest
  BY <1>2 DEF TestByRequest, Try, Verdicts
<1>3. CASE KillInstall
  BY <1>3 DEF KillInstall, ModuleStates, Registrations
<1>4. CASE RebootModule
  BY <1>4 DEF RebootModule, ModuleStates
<1>5. CASE Administer
  BY <1>5 DEF Administer, ModuleStates, Registrations
<1> QED
  BY <1>1, <1>2, <1>3, <1>4, <1>5

LEMMA ModuleInductive == ASSUME ModuleInv, [ModuleNext]_moduleVars PROVE ModuleInv'
<1>1. CASE UNCHANGED moduleVars
  BY <1>1, ModuleForgotten DEF moduleVars, stored, installVars
<1> QED
  BY <1>1, InstallKeeps, ModuleSurroundings DEF ModuleNext

\* What no step of Install does: the guards on whose registration it is need RegistrationInv.
LEMMA OthersRegistrationKept ==
  ASSUME ModuleInv, InstallStep, registry = "others" PROVE registry' = "others"
  BY DEF ModuleInv, RegistrationInv, moduleHost, InstallStep, Stage, Look, InstallDependencies,
         Add, Build, InstallModule, Verify, Test, CleanUp

\* The state of the CPUID module's installer is well-formed.
THEOREM ModuleTypeCorrect == ModuleSpec => []ModuleTypeOK
<1>1. ModuleInv => ModuleTypeOK
  BY DEF ModuleInv
<1> QED
  BY <1>1, ModuleInitially, ModuleInductive, PTL DEF ModuleSpec

\* After a failure that does not say otherwise the version is free to be installed again
\* (the clean-up of Install).
THEOREM FailuresAreCleanedUp == ModuleSpec => []FailuresCleanUp
<1>1. ModuleInv => FailuresCleanUp
  BY DEF ModuleInv
<1> QED
  BY <1>1, ModuleInitially, ModuleInductive, PTL DEF ModuleSpec

\* What Install reports as installed, or as there already, is there for the running kernel,
\* over kills, reboots into other kernels and what people do with DKMS.
THEOREM InstalledStays == ModuleSpec => []InstalledIsThere
<1>1. ModuleInv => InstalledIsThere
  BY DEF ModuleInv
<1> QED
  BY <1>1, ModuleInitially, ModuleInductive, PTL DEF ModuleSpec

\* Install never removes or takes over what another registered with DKMS, whenever that was.
THEOREM RegistrationsRespected == ModuleSpec => OthersRegistrationStays
<1>1. ModuleInv => [InstallStep /\ registry = "others" => registry' = "others"]_moduleVars
  BY OthersRegistrationKept
<1> QED
  BY <1>1, ModuleInitially, ModuleInductive, PTL DEF ModuleSpec, OthersRegistrationStays

-----------------------------------------------------------------------------
(* What becomes of an archive.  The functions that it is defined by are    *)
(* what their equations say, by RecursiveFunction.                         *)

\* The fields of an entry.
LEMMA Entries ==
  ASSUME NEW a \in Seq(Entry)
  PROVE  /\ Len(a) \in Nat /\ DOMAIN a = 1..Len(a)
         /\ \A i \in 1..Len(a) : a[i].name \in Path /\ a[i].kind \in Kinds /\ a[i].target \in Path
         /\ \A kind : Names(a, kind) \subseteq Path
<1>1. Len(a) \in Nat /\ DOMAIN a = 1..Len(a) /\ \A i \in 1..Len(a) : a[i] \in Entry
  BY LenProperties, ElementOfSeq
<1>2. \A i \in 1..Len(a) : a[i].name \in Path /\ a[i].kind \in Kinds /\ a[i].target \in Path
  BY <1>1 DEF Entry
<1> QED
  BY <1>1, <1>2 DEF Names

\* A pass keeps what is there and makes every link whose target is there.
LEMMA OnePass ==
  ASSUME NEW a \in Seq(Entry), NEW there \in SUBSET Path
  PROVE  /\ there \subseteq LinkPass(a, there) /\ LinkPass(a, there) \in SUBSET Path
         /\ \A i \in 1..Len(a) :
              a[i].kind = "hard-link" /\ a[i].target \in there => a[i].name \in LinkPass(a, there)
<1> DEFINE N == Len(a)
           link(i, m) == IF a[i].kind = "hard-link" /\ a[i].target \in m THEN {a[i].name} ELSE {}
           made == CHOOSE f : f = [n \in 0..N |-> IF n = 0 THEN there ELSE f[n - 1] \cup link(n, f[n - 1])]
<1>1. N \in Nat /\ \A i \in 1..N : a[i].name \in Path
  BY Entries
<1>2. made = [n \in 0..N |-> IF n = 0 THEN there ELSE made[n - 1] \cup link(n, made[n - 1])]
  <2> DEFINE S == SUBSET Path
             step == [i \in 1..N |-> [m \in S |-> m \cup link(i, m)]]
  <2>1. step \in [1..N -> [S -> S]]
    BY <1>1
  <2>2. PICK f : StepByStep(f, N, S, there, step)
    <3>1. there \in S /\ N \in Nat
      BY <1>1
    <3> HIDE DEF S, step, N
    <3> QED
      BY <2>1, <3>1, RecursiveFunction
  <2>3. f = [n \in 0..N |-> IF n = 0 THEN there ELSE f[n - 1] \cup link(n, f[n - 1])]
    <3>1. ASSUME NEW n \in 1..N PROVE f[n] = f[n - 1] \cup link(n, f[n - 1])
      <4>1. f[n - 1] \in S /\ f[n] = step[n][f[n - 1]]
        <5> HIDE DEF S, step
        <5> QED
          BY <1>1, <2>2 DEF StepByStep
      <4> HIDE DEF link
      <4> QED
        BY <4>1
    <3> HIDE DEF link
    <3> QED
      BY <1>1, <2>2, <3>1 DEF StepByStep
  <2> HIDE DEF link
  <2> QED
    BY <2>3
<1>3. LinkPass(a, there) = made[N]
  BY DEF LinkPass
<1> HIDE DEF made
<1>4. made[0] = there /\ \A n \in 1..N : made[n] = made[n - 1] \cup link(n, made[n - 1])
  BY <1>1, <1>2
<1>5. \A n \in 0..N : there \subseteq made[n] /\ made[n] \in SUBSET Path
  <2> DEFINE T == {n \in 0..N : there \subseteq made[n] /\ made[n] \in SUBSET Path}
  <2>1. 0 \in T
    BY <1>1, <1>4
  <2>2. \A n \in 1..N : n - 1 \in T => n \in T
    BY <1>1, <1>4
  <2>3. \A n \in 0..N : n \in T
    <3> HIDE DEF T, N
    <3> QED
      BY <1>1, <2>1, <2>2, Inductive
  <2> QED
    BY <2>3
<1>6. ASSUME NEW i \in 1..N, a[i].kind = "hard-link", a[i].target \in there PROVE a[i].name \in made[N]
  <2> DEFINE T == {n \in 0..N : n >= i => a[i].name \in made[n]}
  <2>1. 0 \in T
    BY <1>1
  <2>2. ASSUME NEW n \in 1..N, n - 1 \in T PROVE n \in T
    <3>1. CASE n = i
      BY <1>1, <1>4, <1>5, <1>6, <3>1
    <3>2. CASE n # i
      BY <1>1, <1>4, <2>2, <3>2
    <3> QED
      BY <3>1, <3>2
  <2>3. \A n \in 0..N : n \in T
    <3>1. \A n \in 1..N : n - 1 \in T => n \in T
      BY <2>2
    <3> HIDE DEF T, N
    <3> QED
      BY <1>1, <2>1, <3>1, Inductive
  <2> QED
    BY <1>1, <2>3
<1> QED
  BY <1>1, <1>3, <1>5, <1>6

\* The passes start from the files, and none loses what is there.
LEMMA Passes ==
  ASSUME NEW a \in Seq(Entry)
  PROVE  \E f : /\ HardLinks(a) = f[Len(a)] /\ f[0] = Names(a, "regular")
                /\ \A n \in 1..Len(a) : f[n] = LinkPass(a, f[n - 1])
                /\ \A n \in 0..Len(a) : f[n] \in SUBSET Path /\ f[0] \subseteq f[n]
<1> DEFINE N == Len(a)
           regular == Names(a, "regular")
           passes == CHOOSE f : f = [n \in 0..N |-> IF n = 0 THEN regular ELSE LinkPass(a, f[n - 1])]
           S == SUBSET Path
           step == [i \in 1..N |-> [there \in S |-> LinkPass(a, there)]]
<1>1. N \in Nat /\ regular \in S
  BY Entries
<1>2. step \in [1..N -> [S -> S]]
  BY OnePass
<1>3. PICK f : StepByStep(f, N, S, regular, step)
  <2> HIDE DEF S, step, N, regular
  <2> QED
    BY <1>1, <1>2, RecursiveFunction
<1>4. \A n \in 1..N : f[n - 1] \in S /\ f[n] = LinkPass(a, f[n - 1])
  <2>1. \A n \in 1..N : f[n - 1] \in S /\ f[n] = step[n][f[n - 1]]
    <3> HIDE DEF S, step
    <3> QED
      BY <1>1, <1>3 DEF StepByStep
  <2> QED
    BY <2>1
<1>5. f = [n \in 0..N |-> IF n = 0 THEN regular ELSE LinkPass(a, f[n - 1])]
  BY <1>1, <1>3, <1>4 DEF StepByStep
<1>6. passes = [n \in 0..N |-> IF n = 0 THEN regular ELSE LinkPass(a, passes[n - 1])]
  BY <1>5
<1>7. HardLinks(a) = passes[N]
  BY DEF HardLinks
<1> HIDE DEF passes
<1>8. passes[0] = regular /\ \A n \in 1..N : passes[n] = LinkPass(a, passes[n - 1])
  BY <1>1, <1>6
<1>9. \A n \in 0..N : passes[n] \in SUBSET Path /\ passes[0] \subseteq passes[n]
  <2> DEFINE T == {n \in 0..N : passes[n] \in SUBSET Path /\ passes[0] \subseteq passes[n]}
  <2>1. 0 \in T
    BY <1>1, <1>8
  <2>2. ASSUME NEW n \in 1..N, n - 1 \in T PROVE n \in T
    BY <1>1, <1>8, <2>2, OnePass
  <2>3. \A n \in 0..N : n \in T
    <3>1. \A n \in 1..N : n - 1 \in T => n \in T
      BY <2>2
    <3> HIDE DEF T, N
    <3> QED
      BY <1>1, <2>1, <3>1, Inductive
  <2> QED
    BY <2>3
<1> QED
  BY <1>7, <1>8, <1>9

\* A name is given to one entry, unless it is a directory's.
LEMMA NamedOnce ==
  ASSUME NEW a \in Seq(Entry), Accepted(a), NEW i \in DOMAIN a, NEW j \in DOMAIN a,
         a[i].name = a[j].name, a[i].kind # "directory"
  PROVE  i = j
<1>1. i \in 1..Len(a) /\ j \in 1..Len(a) /\ Len(a) \in Nat /\ Recorded(a, i) /\ Recorded(a, j)
  BY Entries DEF Accepted
<1>2. ~(i < j)
  BY <1>1 DEF Recorded
<1>3. ~(j < i)
  BY <1>1 DEF Recorded
<1> QED
  BY <1>1, <1>2, <1>3

\* Where the search from a link goes.
LEMMA Walk ==
  ASSUME NEW a \in Seq(Entry), NEW link \in Path, TargetsRegular(a, link)
  PROVE  \E w : /\ w[0] = link /\ w[Len(a)] \in Names(a, "regular")
                /\ \A n \in 1..Len(a) :
                     w[n] = IF w[n - 1] \in Names(a, "hard-link") THEN TargetOf(a, w[n - 1]) ELSE w[n - 1]
<1> DEFINE N == Len(a)
           next(p) == IF p \in Names(a, "hard-link") THEN TargetOf(a, p) ELSE p
           walk == CHOOSE f : f = [n \in 0..N |-> IF n = 0 THEN link
                                                  ELSE IF f[n - 1] \in Names(a, "hard-link")
                                                       THEN TargetOf(a, f[n - 1]) ELSE f[n - 1]]
           step == [i \in 1..N |-> [p \in Path |-> next(p)]]
<1>1. N \in Nat
  BY Entries
<1>2. step \in [1..N -> [Path -> Path]]
  <2>1. ASSUME NEW p \in Names(a, "hard-link") PROVE TargetOf(a, p) \in Path
    <3>1. \E i \in DOMAIN a : a[i].name = p
      BY <2>1 DEF Names
    <3> QED
      BY <3>1, Entries DEF TargetOf
  <2>2. \A p \in Path : next(p) \in Path
    BY <2>1
  <2> HIDE DEF next
  <2> QED
    BY <2>2
<1>3. PICK f : StepByStep(f, N, Path, link, step)
  <2> HIDE DEF step, N
  <2> QED
    BY <1>1, <1>2, RecursiveFunction
<1>4. \A n \in 1..N : f[n] = next(f[n - 1])
  <2>1. \A n \in 1..N : f[n - 1] \in Path /\ f[n] = step[n][f[n - 1]]
    <3> HIDE DEF step
    <3> QED
      BY <1>1, <1>3 DEF StepByStep
  <2> HIDE DEF next
  <2> QED
    BY <2>1
<1>5. f = [n \in 0..N |-> IF n = 0 THEN link
                          ELSE IF f[n - 1] \in Names(a, "hard-link")
                               THEN TargetOf(a, f[n - 1]) ELSE f[n - 1]]
  BY <1>1, <1>3, <1>4 DEF StepByStep
<1>6. walk = [n \in 0..N |-> IF n = 0 THEN link
                             ELSE IF walk[n - 1] \in Names(a, "hard-link")
                                  THEN TargetOf(a, walk[n - 1]) ELSE walk[n - 1]]
  BY <1>5
<1>7. walk[N] \in Names(a, "regular")
  BY DEF TargetsRegular
<1> HIDE DEF walk
<1> QED
  BY <1>1, <1>6, <1>7

\* The passes follow the search backwards from the file.
LEMMA LinksAreMade ==
  ASSUME NEW a \in Seq(Entry), Accepted(a), NEW link \in Names(a, "hard-link")
  PROVE  link \in HardLinks(a)
<1> DEFINE N == Len(a)
<1>1. N \in Nat
  BY Entries
<1>2. PICK w : /\ w[0] = link /\ w[N] \in Names(a, "regular")
               /\ \A n \in 1..N :
                    w[n] = IF w[n - 1] \in Names(a, "hard-link") THEN TargetOf(a, w[n - 1]) ELSE w[n - 1]
  <2>1. link \in Path /\ TargetsRegular(a, link)
    BY Entries DEF Accepted
  <2> QED
    BY <2>1, Walk
<1>3. PICK f : /\ HardLinks(a) = f[N] /\ f[0] = Names(a, "regular")
               /\ \A n \in 1..N : f[n] = LinkPass(a, f[n - 1])
               /\ \A n \in 0..N : f[n] \in SUBSET Path /\ f[0] \subseteq f[n]
  BY Passes
<1> DEFINE T == {k \in 0..N : w[N - k] \in f[k]}
<1>4. 0 \in T
  BY <1>1, <1>2, <1>3
<1>5. ASSUME NEW k \in 1..N, k - 1 \in T PROVE k \in T
  <2> DEFINE p == w[N - k]
             there == f[k - 1]
  <2>1. w[N - k + 1] \in there /\ there \in SUBSET Path /\ f[k] = LinkPass(a, there)
    <3>1. N - (k - 1) = N - k + 1 /\ k - 1 \in 0..N
      BY <1>1
    <3> QED
      BY <1>3, <1>5, <3>1
  <2>2. w[N - k + 1] = IF p \in Names(a, "hard-link") THEN TargetOf(a, p) ELSE p
    <3>1. N - k + 1 \in 1..N /\ (N - k + 1) - 1 = N - k
      BY <1>1
    <3> QED
      BY <1>2, <3>1
  <2>3. CASE p \notin Names(a, "hard-link")
    BY <2>1, <2>2, <2>3, OnePass
  <2>4. CASE p \in Names(a, "hard-link")
    <3>1. PICK i \in DOMAIN a : a[i].name = p /\ a[i].kind = "hard-link"
      BY <2>4 DEF Names
    <3>2. \A j \in DOMAIN a : a[j].name = p => j = i
      BY <3>1, NamedOnce
    <3>3. TargetOf(a, p) = a[i].target
      BY <3>1, <3>2 DEF TargetOf
    <3>4. i \in 1..N
      BY <3>1, Entries
    <3> QED
      BY <2>1, <2>2, <2>4, <3>1, <3>3, <3>4, OnePass
  <2> QED
    BY <2>3, <2>4
<1>6. N \in T
  <2>1. \A k \in 1..N : k - 1 \in T => k \in T
    BY <1>5
  <2>2. \A k \in 0..N : k \in T
    <3> HIDE DEF T, N
    <3> QED
      BY <1>1, <1>4, <2>1, Inductive
  <2> QED
    BY <1>1, <2>2
<1> QED
  BY <1>1, <1>2, <1>3, <1>6
\* The first names of a path.
LEMMA FirstNames ==
  ASSUME NEW p \in Path, NEW n \in Nat, 1 <= n, n <= Len(p)
  PROVE  /\ SubSeq(p, 1, n) \in Path /\ Len(SubSeq(p, 1, n)) = n
         /\ SubSeq(SubSeq(p, 1, n), 1, 1) = SubSeq(p, 1, 1) /\ Len(SubSeq(p, 1, 1)) = 1
<1>1. Len(p) \in Nat /\ \A i \in 1..Len(p) : p[i] \in STRING
  BY LenProperties, ElementOfSeq DEF Path
<1>2. \A m \in 1..Len(p) : /\ SubSeq(p, 1, m) \in Path /\ Len(SubSeq(p, 1, m)) = m
                           /\ \A i \in 1..m : SubSeq(p, 1, m)[i] = p[i]
  BY <1>1, SubSeqProperties DEF Path
<1>3. SubSeq(SubSeq(p, 1, n), 1, 1) = SubSeq(p, 1, 1)
  <2>1. SubSeq(SubSeq(p, 1, n), 1, 1) = SubSeq(p, 1 + 1 - 1, 1 + 1 - 1)
    BY <1>1, SubSeqOfSubSeq DEF Path
  <2> QED
    BY <2>1
<1> QED
  BY <1>1, <1>2, <1>3

\* What has an entry below the directory of the payload has that directory.
LEMMA PayloadIsStaged ==
  ASSUME NEW a \in Seq(Entry), Accepted(a), HomedLinks(a), FilesPayload(a)
  PROVE  Payload \in StagedDirectories(a)
<1> DEFINE Inside(p) == p \in Path /\ Len(p) >= 1 /\ SubSeq(p, 1, 1) = Payload
           made == Names(a, "directory") \cup Names(a, "regular")
<1>1. ASSUME NEW p, Inside(p), p \in Names(a, "directory") \/ p \in UNION {Ancestors(q) : q \in made}
      PROVE  Payload \in StagedDirectories(a)
  <2>1. ASSUME NEW q \in made, NEW n \in Nat, 1 <= n, n < Len(q), p = SubSeq(q, 1, n)
        PROVE  Payload \in Ancestors(q)
    <3>1. q \in Path /\ Len(q) \in Nat
      BY Entries, LenProperties DEF Path
    <3>2. SubSeq(q, 1, 1) = Payload
      BY <1>1, <2>1, <3>1, FirstNames
    <3> QED
      BY <2>1, <3>1, <3>2 DEF Ancestors
  <2>2. CASE \E q \in made : p \in Ancestors(q)
    <3>1. PICK q \in made : \E n \in 0..(Len(q) - 1) : p = SubSeq(q, 1, n)
      BY <2>2 DEF Ancestors
    <3>2. PICK n \in 0..(Len(q) - 1) : p = SubSeq(q, 1, n)
      BY <3>1
    <3>3. q \in Path /\ Len(q) \in Nat
      BY Entries, LenProperties DEF Path
    <3>4. n # 0
      BY <1>1, <3>2, <3>3, SubSeqProperties DEF Path
    <3>5. Payload \in Ancestors(q)
      BY <2>1, <3>2, <3>3, <3>4
    <3> QED
      BY <3>5 DEF StagedDirectories
  <2>3. CASE p \in Names(a, "directory")
    <3>1. Len(p) \in Nat /\ (Len(p) = 1 \/ Len(p) > 1)
      BY <1>1, LenProperties DEF Path
    <3>2. CASE Len(p) = 1
      <4>1. p = Payload
        BY <1>1, <3>2, SubSeqProperties DEF Path
      <4> QED
        BY <2>3, <4>1 DEF StagedDirectories
    <3>3. CASE Len(p) > 1
      <4>1. Payload \in Ancestors(p)
        BY <1>1, <3>1, <3>3 DEF Ancestors
      <4> QED
        BY <2>3, <4>1 DEF StagedDirectories
    <3> QED
      BY <3>1, <3>2, <3>3
  <2> QED
    BY <1>1, <2>2, <2>3
<1>2. CASE Payload \in Names(a, "directory")
  BY <1>2 DEF StagedDirectories
<1>3. ASSUME NEW i \in DOMAIN a, Below(a[i].name, Payload) PROVE Payload \in StagedDirectories(a)
  <2> DEFINE p == a[i].name
  <2>1. /\ p \in Path /\ Len(p) \in Nat /\ Len(p) > 1 /\ SubSeq(p, 1, 1) = Payload
        /\ a[i].kind \in Kinds \ {"unsupported"}
    <3>1. p \in Path /\ Recorded(a, i) /\ a[i].kind \in Kinds
      BY Entries DEF Accepted
    <3>2. Len(Payload) = 1
      BY DEF Payload
    <3> QED
      BY <1>3, <3>1, <3>2, LenProperties DEF Below, Recorded, Path
  <2>2. CASE a[i].kind \in {"directory", "regular"}
    <3>1. p \in made /\ Payload \in Ancestors(p)
      BY <2>1, <2>2 DEF Names, Ancestors
    <3> QED
      BY <3>1 DEF StagedDirectories
  <2>3. CASE a[i].kind \in Links
    <3>1. p \in Names(a, "hard-link") \cup Names(a, "symlink")
      BY <2>3 DEF Names, Links
    <3>2. Parent(p) \in StagedDirectories(a)
      BY <3>1 DEF HomedLinks
    <3>3. Inside(Parent(p))
      BY <2>1, FirstNames DEF Parent
    <3> HIDE DEF p, Inside
    <3> QED
      BY <1>1, <3>2, <3>3 DEF StagedDirectories
  <2> QED
    BY <2>1, <2>2, <2>3 DEF Kinds, Links
<1> QED
  BY <1>2, <1>3 DEF FilesPayload

\* Of an archive whose links have their directories, every link is made, and the tree is a tool.
LEMMA AcceptedInstalls ==
  ASSUME NEW a \in Seq(Entry), Accepted(a), HomedLinks(a) PROVE LinksMade(a) /\ Installable(a)
<1>1. LinksMade(a)
  BY LinksAreMade DEF LinksMade
<1>2. Names(a, "regular") \subseteq HardLinks(a)
  <2>1. Len(a) \in Nat
    BY Entries
  <2> QED
    BY <2>1, Passes
<1>3. Structure(Names(a, "regular"), FilesPayload(a))
  BY DEF Accepted
<1> QED
  BY <1>1, <1>2, <1>3, PayloadIsStaged DEF Installable, Structure

-----------------------------------------------------------------------------
(* The installer of a patched Proton.                                      *)

\* Past the inspection, what is staged is whole.
ProtonInv ==
  /\ ProtonTypeOK /\ ToolIsWhole
  /\ ppc \in {"recheck", "commit", "answer"} => staged = "whole"

LEMMA ProtonInitially == ProtonInit => ProtonInv
  BY ProtonBounds DEF ProtonInit, ProtonInv, ProtonTypeOK, ToolIsWhole

LEMMA ProtonForgotten ==
  ASSUME ProtonInv, installed' \in {installed, "none"},
         UNCHANGED <<tool, ppc, archive, staged, selections, othersChanges>>
  PROVE  ProtonInv'
  BY DEF ProtonInv, ProtonTypeOK, ToolIsWhole

LEMMA ProtonKeeps == ASSUME ProtonInv, ProtonStep PROVE ProtonInv'
<1> USE DEF ProtonInv, ProtonTypeOK, ToolIsWhole, PGoto, PEnd, ProtonSteps, Trees
<1>1. CASE OpenArchive
  BY <1>1 DEF OpenArchive
<1>2. CASE Extract
  BY <1>2 DEF Extract, Quality
<1>3. CASE LookAtPlace
  BY <1>3 DEF LookAtPlace, LookIfFree
<1>4. CASE InspectStaged
  BY <1>4 DEF InspectStaged
<1>5. CASE Commit
  BY <1>5 DEF Commit
<1>6. CASE Answer
  BY <1>6 DEF Answer
<1> QED
  BY <1>1, <1>2, <1>3, <1>4, <1>5, <1>6 DEF ProtonStep

LEMMA ProtonSurroundings ==
  ASSUME ProtonInv, BeginProton \/ KillProton \/ Others PROVE ProtonInv'
<1> USE ProtonBounds DEF ProtonInv, ProtonTypeOK, ToolIsWhole, PEnd, ProtonSteps, Trees
<1>1. CASE BeginProton
  BY <1>1 DEF BeginProton
<1>2. CASE KillProton
  BY <1>2 DEF KillProton
<1>3. CASE Others
  BY <1>3 DEF Others
<1> QED
  BY <1>1, <1>2, <1>3

LEMMA ProtonInductive == ASSUME ProtonInv, [ProtonNext]_protonVars PROVE ProtonInv'
<1>1. CASE UNCHANGED protonVars
  BY <1>1, ProtonForgotten DEF protonVars, protonJob
<1> QED
  BY <1>1, ProtonKeeps, ProtonSurroundings DEF ProtonNext

LEMMA OthersToolKept ==
  ASSUME ProtonInv, [ProtonNext]_protonVars, tool = "others", tool' # tool
  PROVE  othersChanges' # othersChanges
  BY DEF ProtonInv, ProtonTypeOK, ProtonNext, protonVars, BeginProton, ProtonStep, OpenArchive, Extract,
         LookAtPlace, LookIfFree, InspectStaged, Commit, Answer, KillProton, Others

\* The state of the Proton installer is well-formed.
THEOREM ProtonTypeCorrect == ProtonSpec => []ProtonTypeOK
<1>1. ProtonInv => ProtonTypeOK
  BY DEF ProtonInv
<1> QED
  BY <1>1, ProtonInitially, ProtonInductive, PTL DEF ProtonSpec

\* A tool comes to its place whole or not at all, for every archive, failure and kill.
THEOREM ToolsAreWhole == ProtonSpec => []ToolIsWhole
<1>1. ProtonInv => ToolIsWhole
  BY DEF ProtonInv
<1> QED
  BY <1>1, ProtonInitially, ProtonInductive, PTL DEF ProtonSpec

\* The installer never replaces what another has put in the tool's place.
THEOREM ToolsRespected == ProtonSpec => OthersToolStays
<1>1. ProtonInv /\ [ProtonNext]_protonVars =>
        [tool = "others" /\ tool' # tool => othersChanges' # othersChanges]_protonVars
  BY OthersToolKept
<1> QED
  BY <1>1, ProtonInitially, ProtonInductive, PTL DEF ProtonSpec, OthersToolStays

LEMMA ArchivesAgree == ProtonInv => AcceptedArchivesInstall
<1> SUFFICES ASSUME ProtonInv, ppc = "extract", Accepted(archive), HomedLinks(archive)
             PROVE  LinksMade(archive) /\ Installable(archive)
  BY DEF AcceptedArchivesInstall
<1>1. archive \in Seq(Entry)
  BY ArchivesAssumption, EmptySeq DEF ProtonInv, ProtonTypeOK
<1> QED
  BY <1>1, AcceptedInstalls

\* The two validators agree on every archive: the search for the file behind each hard link
\* accepts only links that the passes make, and what is extracted passes the inspection.
THEOREM ArchivesInstall == ProtonSpec => []AcceptedArchivesInstall
<1> QED
  BY ArchivesAgree, ProtonInitially, ProtonInductive, PTL DEF ProtonSpec

-----------------------------------------------------------------------------
(* The setup of a host.                                                    *)

\* What the inspection has read: an outcome that was stored belongs to a module that was
\* once loaded, and unless the host has changed under it, the module is as it was found.
InspectInv ==
  /\ loaded => accepted
  /\ ipc = "conclude" /\ steady => found = IF tools THEN module ELSE "missing"

SetupInv == HostTypeOK /\ UmipInv /\ ModuleInv /\ ProtonInv /\ InspectInv /\ ReadyIsTrue

-----------------------------------------------------------------------------
(* The parts of SetupInv.                                                  *)

\* What the type invariant says beside those of the installers.
InspectTypeOK ==
  /\ host \in Hosts
  /\ ipc \in {"idle", "modinfo", "conclude"}
  /\ loaded \in BOOLEAN /\ found \in ModuleStates
  /\ report \in {"none"} \cup Statuses
  /\ steady \in BOOLEAN

LEMMA SetupInvParts ==
  SetupInv <=> InspectTypeOK /\ UmipInv /\ ModuleInv /\ ProtonInv /\ InspectInv /\ ReadyIsTrue
  BY DEF SetupInv, HostTypeOK, InspectTypeOK, UmipInv, ModuleInv, ProtonInv

LEMMA SetupInvPartsNext ==
  InspectTypeOK' /\ UmipInv' /\ ModuleInv' /\ ProtonInv' /\ InspectInv' /\ ReadyIsTrue' => SetupInv'
  BY DEF SetupInv, HostTypeOK, InspectTypeOK, UmipInv, ModuleInv, ProtonInv

\* A status that says ready has no failed check, and a path.
LEMMA ReadyMeans ==
  ASSUME NEW m, NEW recovery, NEW failed, Status(m, recovery, failed) \in {"native-ready", "hypervisor-ready"}
  PROVE  /\ failed = {} /\ PathOf(m) \in {"native", "hypervisor"}
         /\ Status(m, recovery, failed) = "native-ready" <=> PathOf(m) = "native"
  BY DEF Status, PathOf

\* Whatever changes what the inspection reads is noticed.
LEMMA NoticedKeeps ==
  ASSUME InspectTypeOK, InspectInv, ReadyIsTrue, Noticed, accepted => accepted',
         UNCHANGED <<host, bootloader, inspectVars>>
  PROVE  InspectTypeOK' /\ InspectInv' /\ ReadyIsTrue'
<1>1. /\ UNCHANGED <<host, bootloader, ipc, loaded, found>>
      /\ steady' = (ipc = "idle" \/ (Read' = Read /\ steady))
      /\ report' = IF Read' = Read THEN report ELSE "none"
  BY DEF Noticed, inspectVars
<1>2. Read' = Read => UNCHANGED <<booted, tools, module, tool>>
  BY DEF Read
<1>3. InspectTypeOK'
  <2>1. steady' \in BOOLEAN /\ report' \in {"none"} \cup Statuses
    BY <1>1 DEF InspectTypeOK
  <2> QED
    BY <1>1, <2>1 DEF InspectTypeOK
<1>4. InspectInv'
  <2>1. ipc = "conclude" /\ steady' => Read' = Read /\ steady
    BY <1>1
  <2> QED
    BY <1>1, <1>2, <2>1 DEF InspectInv
<1>5. ReadyIsTrue'
  <2>1. CASE report' = "none"
    BY <2>1 DEF ReadyIsTrue
  <2>2. CASE Read' = Read /\ report' = report
    BY <1>1, <1>2, <2>2 DEF ReadyIsTrue
  <2> QED
    BY <1>1, <2>1, <2>2
<1> QED
  BY <1>3, <1>4, <1>5

LEMMA AcceptedStays == ASSUME ModuleInv, InstallStep \/ TestByRequest, accepted PROVE accepted'
  BY DEF ModuleInv, ModuleTypeOK, InstallStep, TestByRequest, Stage, Look, InstallDependencies, Add,
         Build, InstallModule, Verify, Test, CleanUp, Try, stored

-----------------------------------------------------------------------------
(* SetupInv is inductive.                                                  *)

LEMMA SetupInitially == SetupInit => SetupInv
<1> SUFFICES ASSUME SetupInit PROVE SetupInv
  OBVIOUS
<1>1. UmipInv /\ ModuleInv /\ ProtonInv
  BY UmipInitially, ModuleInitially, ProtonInitially DEF SetupInit
<1>2. InspectTypeOK /\ InspectInv /\ ReadyIsTrue
  BY DEF SetupInit, InspectTypeOK, InspectInv, ReadyIsTrue, ModuleStates
<1> QED
  BY <1>1, <1>2, SetupInvParts

LEMMA UmipJobKeeps == ASSUME SetupInv, UmipJob PROVE SetupInv'
<1>1. InspectTypeOK /\ UmipInv /\ ModuleInv /\ ProtonInv /\ InspectInv /\ ReadyIsTrue
  BY SetupInvParts
<1>2. UmipInv'
  BY <1>1, ApplyBegins, ApplyKeeps DEF UmipJob
<1>3. ModuleInv'
  BY <1>1, ModuleForgotten DEF UmipJob, stored
<1>4. ProtonInv'
  BY <1>1, ProtonForgotten DEF UmipJob
<1>5. UNCHANGED bootloader /\ UNCHANGED accepted
  BY DEF UmipJob, RefuseApply, Review, UmipStep, BackUp, WriteReplacement, UndoWrite, Update, RollBack,
         Regenerate, DiscardBackup, Discard, stored
<1>6. InspectTypeOK' /\ InspectInv' /\ ReadyIsTrue'
  BY <1>1, <1>5, NoticedKeeps DEF UmipJob
<1> QED
  BY <1>2, <1>3, <1>4, <1>6, SetupInvPartsNext

LEMMA ModuleJobKeeps == ASSUME SetupInv, ModuleJob PROVE SetupInv'
<1>1. InspectTypeOK /\ UmipInv /\ ModuleInv /\ ProtonInv /\ InspectInv /\ ReadyIsTrue
  BY SetupInvParts
<1>2. ModuleInv'
  BY <1>1, InstallKeeps, ModuleSurroundings DEF ModuleJob
<1>3. UmipInv'
  BY <1>1, UmipForgotten DEF ModuleJob, bootFiles
<1>4. ProtonInv'
  BY <1>1, ProtonForgotten DEF ModuleJob
<1>5. accepted => accepted'
  BY <1>1, AcceptedStays DEF ModuleJob, BeginInstall, stored
<1>6. InspectTypeOK' /\ InspectInv' /\ ReadyIsTrue'
  BY <1>1, <1>5, NoticedKeeps DEF ModuleJob
<1> QED
  BY <1>2, <1>3, <1>4, <1>6, SetupInvPartsNext

LEMMA ProtonJobKeeps == ASSUME SetupInv, ProtonJob PROVE SetupInv'
<1>1. InspectTypeOK /\ UmipInv /\ ModuleInv /\ ProtonInv /\ InspectInv /\ ReadyIsTrue
  BY SetupInvParts
<1>2. ProtonInv'
  BY <1>1, ProtonKeeps, ProtonSurroundings DEF ProtonJob
<1>3. UmipInv'
  BY <1>1, UmipForgotten DEF ProtonJob, bootFiles
<1>4. ModuleInv'
  BY <1>1, ModuleForgotten DEF ProtonJob, stored
<1>5. UNCHANGED accepted
  BY DEF ProtonJob, stored
<1>6. InspectTypeOK' /\ InspectInv' /\ ReadyIsTrue'
  BY <1>1, <1>5, NoticedKeeps DEF ProtonJob
<1> QED
  BY <1>2, <1>3, <1>4, <1>6, SetupInvPartsNext

\* Steps that leave an installer alone altogether.
LEMMA UmipAlone == ASSUME UmipInv, UNCHANGED umipVars PROVE UmipInv'
  BY UmipInductive

LEMMA ModuleAlone == ASSUME ModuleInv, UNCHANGED moduleVars PROVE ModuleInv'
  BY ModuleInductive

LEMMA ProtonAlone == ASSUME ProtonInv, UNCHANGED protonVars PROVE ProtonInv'
  BY ProtonInductive

LEMMA TestRequestKeeps == ASSUME SetupInv, TestRequest PROVE SetupInv'
<1>1. InspectTypeOK /\ UmipInv /\ ModuleInv /\ ProtonInv /\ InspectInv /\ ReadyIsTrue
  BY SetupInvParts
<1>2. UmipInv' /\ ModuleInv' /\ ProtonInv'
  BY <1>1, UmipAlone, ProtonAlone, ModuleSurroundings DEF TestRequest
<1>3. InspectTypeOK' /\ InspectInv' /\ ReadyIsTrue'
  BY <1>1, AcceptedStays, NoticedKeeps DEF TestRequest, umipVars
<1> QED
  BY <1>2, <1>3, SetupInvPartsNext

\* The inspection, up to its conclusion.
LEMMA LookingKeeps == ASSUME SetupInv, BeginInspect \/ LookForModule PROVE SetupInv'
<1>1. InspectTypeOK /\ UmipInv /\ ModuleInv /\ ProtonInv /\ InspectInv /\ ReadyIsTrue
  BY SetupInvParts
<1>2. UNCHANGED <<umipVars, moduleVars, protonVars, host>>
  BY DEF BeginInspect, LookForModule
<1>3. UmipInv' /\ ModuleInv' /\ ProtonInv'
  BY <1>1, <1>2, UmipAlone, ModuleAlone, ProtonAlone
<1>4. /\ UNCHANGED <<bootloader, booted, tool, tools, module, verification, accepted, host>>
      /\ module \in ModuleStates /\ accepted \in BOOLEAN /\ (verification = "verified" => accepted)
  BY <1>1, <1>2 DEF umipVars, moduleVars, moduleHost, stored, protonVars, ModuleInv, ModuleTypeOK, RegistrationInv
<1>5. CASE BeginInspect
  <2>1. /\ ipc' = "modinfo" /\ loaded' = (verification = "verified") /\ report' = "none" /\ steady' = TRUE
        /\ found' = found
    BY <1>5 DEF BeginInspect
  <2>2. InspectTypeOK' /\ InspectInv' /\ ReadyIsTrue'
    BY <1>1, <1>4, <2>1 DEF InspectTypeOK, InspectInv, ReadyIsTrue
  <2> QED
    BY <1>3, <2>2, SetupInvPartsNext
<1>6. CASE LookForModule
  <2>1. /\ report' = report
        /\ \/ found' = (IF tools THEN module ELSE "missing") /\ ipc' = "conclude" /\ UNCHANGED <<loaded, steady>>
           \/ ipc' = "idle" /\ loaded' = FALSE /\ found' = "missing" /\ steady' = TRUE
    BY <1>6 DEF LookForModule, EndInspect
  <2>2. InspectTypeOK'
    BY <1>1, <1>4, <2>1 DEF InspectTypeOK, ModuleStates
  <2>3. InspectInv'
    BY <1>1, <1>4, <2>1 DEF InspectInv
  <2>4. ReadyIsTrue'
    BY <1>1, <1>4, <2>1 DEF ReadyIsTrue
  <2> QED
    BY <1>3, <2>2, <2>3, <2>4, SetupInvPartsNext
<1> QED
  BY <1>5, <1>6

LEMMA ConcludeKeeps == ASSUME SetupInv, Conclude PROVE SetupInv'
<1>1. InspectTypeOK /\ UmipInv /\ ModuleInv /\ ProtonInv /\ InspectInv /\ ReadyIsTrue
  BY SetupInvParts
<1>2. /\ ipc = "conclude" /\ ipc' = "idle" /\ loaded' = FALSE /\ found' = "missing" /\ steady' = TRUE
      /\ UNCHANGED <<umipVars, moduleHost, accepted, installVars, adminChanges, protonVars, host>>
      /\ verification' \in {verification, "pending"}
  BY DEF Conclude, EndInspect
<1>3. UmipInv' /\ ModuleInv' /\ ProtonInv'
  <2>1. ModuleInv'
    BY <1>1, <1>2, ModuleForgotten DEF installVars
  <2> QED
    BY <1>1, <1>2, <2>1, UmipAlone, ProtonAlone
<1>4. UNCHANGED <<bootloader, booted, tool, tools, module>>
  BY <1>2 DEF umipVars, moduleHost, protonVars
<1> DEFINE verified == loaded /\ found = "compatible"
           integration == tool = "whole" \/ RuntimeState(host) = "available"
           failed == FailedChecks(host.machine, LiveUMIP, found, verified, integration)
<1>5. PICK recovery \in BOOLEAN : report' = IF steady THEN Status(host.machine, recovery, failed) ELSE "none"
  BY DEF Conclude
<1>6. InspectTypeOK'
  <2>1. Status(host.machine, recovery, failed) \in Statuses
    BY DEF Status, Statuses
  <2>2. report' \in {"none"} \cup Statuses
    BY <1>5, <2>1
  <2> QED
    BY <1>1, <1>2, <2>2 DEF InspectTypeOK, ModuleStates
<1>7. InspectInv'
  BY <1>2 DEF InspectInv
<1>8. ReadyIsTrue'
  <2> SUFFICES ASSUME report' \in {"native-ready", "hypervisor-ready"} PROVE ReadyIsTrue'
    BY DEF ReadyIsTrue
  <2>1. steady /\ report' = Status(host.machine, recovery, failed)
    BY <1>5
  <2>2. /\ failed = {} /\ PathOf(host.machine) \in {"native", "hypervisor"}
        /\ report' = "native-ready" <=> PathOf(host.machine) = "native"
    BY <2>1, ReadyMeans
  <2>3. /\ SupportedCPU(host.machine)
        /\ UMIPRequiredOff(host.machine) => ~LiveUMIP
        /\ integration
        /\ report' = "native-ready" => host.machine.fault
        /\ report' = "hypervisor-ready" => found = "compatible" /\ verified
    <3>1. /\ "cpu" \notin failed /\ "umip" \notin failed /\ "cpuid-fault" \notin failed
          /\ "emulation-module" \notin failed /\ "linuwux" \notin failed
      BY <2>2
    <3>2. SupportedCPU(host.machine) /\ (UMIPRequiredOff(host.machine) => ~LiveUMIP) /\ integration
      BY <3>1 DEF FailedChecks, Checks
    <3>3. PathOf(host.machine) = "native" => host.machine.fault
      BY <3>1 DEF FailedChecks, Checks
    <3>4. PathOf(host.machine) = "hypervisor" => found = "compatible" /\ verified
      BY <3>1 DEF FailedChecks, Checks
    <3> QED
      BY <2>2, <3>2, <3>3, <3>4
  <2>4. integration => tool = "whole" \/ (host.wrapper = "usable" /\ host.library = "usable")
    BY DEF RuntimeState
  <2>5. found = "compatible" => module = "compatible"
    BY <1>1, <1>2, <2>1 DEF InspectInv
  <2>6. verified => accepted
    BY <1>1 DEF InspectInv
  <2> QED
    BY <1>2, <1>4, <2>3, <2>4, <2>5, <2>6 DEF ReadyIsTrue, LiveUMIP
<1> QED
  BY <1>3, <1>6, <1>7, <1>8, SetupInvPartsNext

LEMMA EndsKeep == ASSUME SetupInv, KillSetup \/ RebootHost PROVE SetupInv'
<1>1. InspectTypeOK /\ UmipInv /\ ModuleInv /\ ProtonInv /\ InspectInv /\ ReadyIsTrue
  BY SetupInvParts
<1>2. UmipInv' /\ ModuleInv' /\ ProtonInv'
  BY <1>1, UmipEnds, ModuleSurroundings, ProtonSurroundings DEF KillSetup, RebootHost
<1>3. /\ ipc' = "idle" /\ loaded' = FALSE /\ found' = "missing" /\ steady' = TRUE
      /\ report' = "none" /\ UNCHANGED host
  BY DEF KillSetup, RebootHost, EndInspect
<1>4. InspectTypeOK' /\ InspectInv' /\ ReadyIsTrue'
  BY <1>1, <1>3 DEF InspectTypeOK, InspectInv, ReadyIsTrue, ModuleStates
<1> QED
  BY <1>2, <1>4, SetupInvPartsNext

LEMMA MeddleKeeps == ASSUME SetupInv, Meddle PROVE SetupInv'
<1>1. InspectTypeOK /\ UmipInv /\ ModuleInv /\ ProtonInv /\ InspectInv /\ ReadyIsTrue
  BY SetupInvParts
<1>2. UmipInv' /\ ModuleInv' /\ ProtonInv'
  BY <1>1, EditKeeps, ModuleSurroundings, ProtonSurroundings, UmipAlone, ModuleAlone, ProtonAlone DEF Meddle
<1>3. UNCHANGED bootloader /\ UNCHANGED accepted
  BY DEF Meddle, Edit, Administer, umipVars, moduleVars, stored
<1>4. InspectTypeOK' /\ InspectInv' /\ ReadyIsTrue'
  BY <1>1, <1>3, NoticedKeeps DEF Meddle
<1> QED
  BY <1>2, <1>4, SetupInvPartsNext

LEMMA SetupInductive == ASSUME SetupInv, [SetupNext]_setupVars PROVE SetupInv'
<1>1. CASE UNCHANGED setupVars
  <2>1. InspectTypeOK /\ UmipInv /\ ModuleInv /\ ProtonInv /\ InspectInv /\ ReadyIsTrue
    BY SetupInvParts
  <2>2. UmipInv' /\ ModuleInv' /\ ProtonInv'
    BY <1>1, <2>1, UmipAlone, ModuleAlone, ProtonAlone DEF setupVars
  <2>3. UNCHANGED <<host, ipc, loaded, found, steady, report, bootloader, booted, tool, tools, module, accepted>>
    BY <1>1 DEF setupVars, inspectVars, umipVars, moduleVars, moduleHost, stored, protonVars
  <2>4. InspectTypeOK' /\ InspectInv' /\ ReadyIsTrue'
    BY <2>1, <2>3 DEF InspectTypeOK, InspectInv, ReadyIsTrue
  <2> QED
    BY <2>2, <2>4, SetupInvPartsNext
<1> QED
  BY <1>1, UmipJobKeeps, ModuleJobKeeps, ProtonJobKeeps, TestRequestKeeps, LookingKeeps, ConcludeKeeps,
     EndsKeep, MeddleKeeps DEF SetupNext, Inspect

-----------------------------------------------------------------------------
(* Theorems about the setup.                                               *)

\* The host, the jobs and the inspection are well-formed.
THEOREM HostTypeCorrect == SetupSpec => []HostTypeOK
<1>1. SetupInv => HostTypeOK
  BY DEF SetupInv
<1> QED
  BY <1>1, SetupInitially, SetupInductive, PTL DEF SetupSpec

\* What each installer promises it keeps beside the others, over jobs, kills, reboots
\* and changes by people.
THEOREM InstallersKeepPromises ==
  SetupSpec => [](/\ TextIsKept /\ OutcomeIsTrue /\ OnlyTheArgumentIsAdded
                  /\ FailuresCleanUp /\ InstalledIsThere
                  /\ ToolIsWhole /\ AcceptedArchivesInstall)
<1>1. SetupInv => /\ TextIsKept /\ OutcomeIsTrue /\ OnlyTheArgumentIsAdded
                  /\ FailuresCleanUp /\ InstalledIsThere
                  /\ ToolIsWhole /\ AcceptedArchivesInstall
  BY ArgumentIsAdded, ArchivesAgree DEF SetupInv, UmipInv, ModuleInv, ProtonInv
<1> QED
  BY <1>1, SetupInitially, SetupInductive, PTL DEF SetupSpec

\* No status request is answered with "ready" of a host that is not, whatever the jobs did
\* while it was inspected; for every processor, kernel and runtime.
THEOREM ReadyIsSound == SetupSpec => []ReadyIsTrue
<1>1. SetupInv => ReadyIsTrue
  BY DEF SetupInv
<1> QED
  BY <1>1, SetupInitially, SetupInductive, PTL DEF SetupSpec

\* No job of the setup takes or removes what others registered with DKMS.
THEOREM SetupRespectsRegistrations == SetupSpec => OthersRegistrationStays
<1>1. SetupInv => [InstallStep /\ registry = "others" => registry' = "others"]_moduleVars
  BY OthersRegistrationKept DEF SetupInv
<1> QED
  BY <1>1, SetupInitially, SetupInductive, PTL DEF SetupSpec, OthersRegistrationStays

\* Nor a tool that others have put in its place.
THEOREM SetupRespectsTools == SetupSpec => OthersToolStays
<1>1. SetupInv /\ [SetupNext]_setupVars => [ProtonNext]_protonVars \/ UNCHANGED tool
  BY DEF SetupNext, setupVars, UmipJob, ModuleJob, ProtonJob, TestRequest, Inspect, BeginInspect, LookForModule,
         Conclude, KillSetup, RebootHost, Meddle, protonVars, protonJob, ProtonNext
<1>2. SetupInv /\ [SetupNext]_setupVars =>
        [tool = "others" /\ tool' # tool => othersChanges' # othersChanges]_protonVars
  BY <1>1, OthersToolKept DEF SetupInv
<1> QED
  BY <1>2, SetupInitially, SetupInductive, PTL DEF SetupSpec, OthersToolStays

=============================================================================
