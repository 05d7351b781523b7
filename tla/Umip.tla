-------------------------------- MODULE Umip --------------------------------
(***************************************************************************)
(* Turning UMIP off (backend/internal/umip/umip.go): Apply saves the boot  *)
(* configuration it read, rewrites it in place, has the boot loader's own  *)
(* tool generate the boot menu from it, and undoes both if that fails.     *)
(*                                                                         *)
(* Apply runs in a setup job, one at a time.  It is broken here at each    *)
(* file it writes and each command, for any of them may fail, and the      *)
(* backend or the host may go down between two of them.  pc is "idle" when *)
(* it does not run.                                                        *)
(***************************************************************************)
EXTENDS BootParameters, FiniteSets

CONSTANTS
  Texts,       \* configurations the administrator writes
  MaxApplies,  \* bound: how often Apply is called
  MaxEdits,    \* bound: how often the administrator edits
  FailingBoot  \* may files and the updater fail?

VARIABLES
  bootloader,  \* the one the host has
  config,      \* its configuration file
  generated,   \* the configuration the boot menu was generated from
  booted,      \* the one the running kernel was started from
  backups,     \* files in /var/lib/hv-launcher/recovery
  pc, original, result, \* of Apply: its step, what it read, how it ended
  applies, edits,
  intended,    \* history: the last text meant by the administrator, or applied
  menu         \* history: the boot menu when Apply began

bootFiles == <<config, generated, backups>>
applyVars == <<pc, original, result, applies>>
umipHistory == <<intended, menu>>
umipVars == <<bootloader, bootFiles, booted, applyVars, edits, umipHistory>>

ASSUME TextsAssumption == Texts \subseteq Text
ASSUME UmipBounds == MaxApplies \in Nat /\ MaxEdits \in Nat /\ FailingBoot \in BOOLEAN

Backup == [apply : Nat, text : Text]

Outcomes == {"none", "refused", "applied", "rolled-back", "recovery-required"}
UmipSteps == {"back_up", "write", "undo_write", "update", "roll_back", "regenerate",
              "discard_applied", "discard_undone", "discard_rolled_back"}

\* The files, and the local variables of Apply.
UmipTypeOK ==
  /\ bootloader \in Bootloaders
  /\ config \in Text /\ generated \in Text /\ booted \in Text
  /\ backups \in SUBSET Backup
  /\ pc \in {"idle"} \cup UmipSteps
  /\ original \in Text
  /\ result \in Outcomes
  /\ applies \in 0..MaxApplies /\ edits \in 0..MaxEdits
  /\ intended \in Text /\ menu \in Text

UmipInit ==
  /\ bootloader \in Bootloaders
  /\ config \in Texts /\ generated = config /\ booted = config
  /\ backups = {}
  /\ pc = "idle" /\ original = <<>> /\ result = "none"
  /\ applies = 0 /\ edits = 0
  /\ intended = config /\ menu = <<>>

-----------------------------------------------------------------------------
(* Apply.                                                                  *)

\* Its name is random and it is created with O_EXCL.
OwnBackup == [apply |-> applies, text |-> original]

End(outcome) == pc' = "idle" /\ result' = outcome

Goto(step) == pc' = step /\ UNCHANGED result

\* Apply is over, and what it returned is of no account any more.
Forget == pc' = "idle" /\ result' = "none" /\ original' = <<>> /\ menu' = <<>>

\* The updater is missing, the file is not readable or buildReplacement refuses.
RefuseApply ==
  /\ pc = "idle" /\ applies < MaxApplies
  /\ FailingBoot \/ ~NeedsChange(bootloader, config)
  /\ applies' = applies + 1
  /\ pc' = "idle" /\ result' = "refused" /\ original' = <<>> /\ menu' = <<>>
  /\ UNCHANGED <<bootloader, bootFiles, booted, edits, intended>>

Review ==
  /\ pc = "idle" /\ applies < MaxApplies
  /\ NeedsChange(bootloader, config)
  /\ applies' = applies + 1
  /\ original' = config
  /\ pc' = "back_up" /\ result' = "none"
  /\ menu' = generated
  /\ UNCHANGED <<bootloader, bootFiles, booted, edits, intended>>

\* createRecoveryBackup; the removal of a failed one may fail too.
BackUp ==
  /\ pc = "back_up"
  /\ \/ backups' = backups \cup {OwnBackup} /\ Goto("write")
     \/ FailingBoot /\ backups' \in {backups, backups \cup {OwnBackup}} /\ End("refused")
  /\ UNCHANGED <<bootloader, config, generated, booted, original, applies, edits, umipHistory>>

\* writeConfiguration, in place, truncated and synced.
WriteConfiguration(text, done, failed) ==
  \/ config' = text /\ done
  \/ FailingBoot /\ config' \in Torn(text, config) \cup {text} /\ failed

WriteReplacement ==
  /\ pc = "write"
  /\ WriteConfiguration(Replacement(bootloader, original), Goto("update"), Goto("undo_write"))
  /\ UNCHANGED <<bootloader, generated, booted, backups, original, applies, edits, umipHistory>>

\* Mutant: the result of writing the original back is not looked at.
UndoWriteUnchecked ==
  /\ pc = "undo_write"
  /\ WriteConfiguration(original, Goto("discard_undone"), Goto("discard_undone"))
  /\ UNCHANGED <<bootloader, generated, booted, backups, original, applies, edits, umipHistory>>

UndoWrite ==
  /\ pc = "undo_write"
  /\ WriteConfiguration(original, Goto("discard_undone"), End("recovery-required"))
  /\ UNCHANGED <<bootloader, generated, booted, backups, original, applies, edits, umipHistory>>

\* limine-update, update-grub or grub-mkconfig; one that fails may have
\* written the menu, or spoilt it.
RunUpdater(done, failed) ==
  \/ generated' = config /\ done
  \/ /\ FailingBoot
     /\ generated' \in {generated, config, <<[op |-> "other", args |-> {"damaged"}]>>}
     /\ failed

\* Once the menu is generated, the text is the one that is meant; but what was
\* added to a file half written is not.
Update ==
  /\ pc = "update"
  /\ \/ /\ RunUpdater(Goto("discard_applied"), FALSE)
        /\ intended' = IF original = intended THEN config ELSE intended
     \/ RunUpdater(FALSE, Goto("roll_back")) /\ UNCHANGED intended
  /\ UNCHANGED <<bootloader, config, booted, backups, original, applies, edits, menu>>

\* Mutant: the boot menu is left as the failed updater left it.
RollBackSourceOnly ==
  /\ pc = "roll_back"
  /\ WriteConfiguration(original, Goto("discard_rolled_back"), End("recovery-required"))
  /\ UNCHANGED <<bootloader, generated, booted, backups, original, applies, edits, umipHistory>>

RollBack ==
  /\ pc = "roll_back"
  /\ WriteConfiguration(original, Goto("regenerate"), End("recovery-required"))
  /\ UNCHANGED <<bootloader, generated, booted, backups, original, applies, edits, umipHistory>>

Regenerate ==
  /\ pc = "regenerate"
  /\ RunUpdater(Goto("discard_rolled_back"), End("recovery-required"))
  /\ UNCHANGED <<bootloader, config, booted, backups, original, applies, edits, umipHistory>>

\* removeRecoveryBackup; if it fails the file is there or not.
Discard(step, removed, kept) ==
  /\ pc = step
  /\ \/ backups' = backups \ {OwnBackup} /\ End(removed)
     \/ FailingBoot /\ backups' \in {backups, backups \ {OwnBackup}} /\ End(kept)
  /\ UNCHANGED <<bootloader, config, generated, booted, original, applies, edits, umipHistory>>

DiscardBackup ==
  \/ Discard("discard_applied", "applied", "applied")
  \/ Discard("discard_undone", "rolled-back", "recovery-required")
  \/ Discard("discard_rolled_back", "rolled-back", "rolled-back")

UmipStep ==
  \/ BackUp \/ WriteReplacement \/ UndoWrite \/ Update \/ RollBack \/ Regenerate
  \/ DiscardBackup

-----------------------------------------------------------------------------
(* The environment.                                                        *)

\* The backend dies.  What it was writing stays as far as it got, and an
\* updater it had started goes on to its end.
KillUmip ==
  /\ Forget
  /\ \/ /\ pc = "write" /\ config' \in Torn(Replacement(bootloader, original), config)
        /\ UNCHANGED generated
     \/ /\ pc \in {"undo_write", "roll_back"} /\ config' \in Torn(original, config)
        /\ UNCHANGED generated
     \/ /\ pc \in {"update", "regenerate"} /\ generated' \in {generated, config}
        /\ UNCHANGED config
     \/ UNCHANGED <<config, generated>>
  /\ UNCHANGED <<bootloader, booted, backups, applies, edits, intended>>

\* The host goes down, maybe in the middle of a write, and comes up again.
RebootUmip ==
  /\ Forget
  /\ \/ pc = "write" /\ config' \in Torn(Replacement(bootloader, original), config)
     \/ pc \in {"undo_write", "roll_back"} /\ config' \in Torn(original, config)
     \/ UNCHANGED config
  /\ booted' = generated
  /\ UNCHANGED <<bootloader, generated, backups, applies, edits, intended>>

\* The administrator writes the configuration, and generates the menu.
Edit ==
  /\ pc = "idle" /\ edits < MaxEdits
  /\ edits' = edits + 1
  /\ config' \in Texts /\ intended' = config'
  /\ generated' \in {generated, config'}
  /\ Forget
  /\ UNCHANGED <<bootloader, booted, backups, applies>>

UmipNext == RefuseApply \/ Review \/ UmipStep \/ KillUmip \/ RebootUmip \/ Edit

UmipSpec == UmipInit /\ [][UmipNext]_umipVars

-----------------------------------------------------------------------------
(* Properties.                                                             *)

\* "Saving a private recovery copy": whatever fails, is killed or is tried again
\* on top, the text the administrator last meant is in the file or in a backup.
\* A text that was cut off and then taken for a new original does not replace it.
TextIsKept ==
  \/ config = intended
  \/ \E b \in backups : b.text = intended

\* What Apply reports is so, until the next change: applied, the boot menu is
\* generated from the new text; rolled back, the file is as it was read and the
\* menu was left alone or generated from it again; recovery required, the text that was
\* read is in a backup or in the file.
OutcomeIsTrue ==
  /\ result = "applied" =>
       /\ config = Replacement(bootloader, original) /\ generated = config
  /\ result = "rolled-back" => config = original /\ generated \in {menu, original}
  /\ result = "recovery-required" => config = original \/ OwnBackup \in backups

\* The new text gives the kernel the arguments of the old one and
\* clearcpuid=514, in a form that the next inspection reads as configured.
OnlyTheArgumentIsAdded ==
  pc = "write" =>
    LET text == Replacement(bootloader, original)
    IN  /\ KernelArguments(bootloader, text) = KernelArguments(bootloader, original) \cup {"clear"}
        /\ Candidate(bootloader, text, FALSE) = "configured"

=============================================================================
