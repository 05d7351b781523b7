----------------------------- MODULE Controller -----------------------------
(***************************************************************************)
(* The hypervisor controller of the backend                                *)
(* (backend/internal/hypervisor/controller.go) with the host's kernel      *)
(* modules and the transition journal (journal.go) it works on.            *)
(*                                                                         *)
(* The first managed game makes the controller swap the AMD KVM modules    *)
(* for cpuid_fault_emulation, the last one makes it swap them back.  Every *)
(* public operation holds the controller's mutex for its whole run, so one *)
(* operation runs at a time; it is broken here at each command and each    *)
(* journal access, because a kill of the backend, a reboot or another root *)
(* process can come between any two of them.  pc names the next such step  *)
(* of the operation that holds the mutex, and is "free" when none does.    *)
(*                                                                         *)
(* Tests the code makes of facts the controller cannot change (root, the   *)
(* presence of modprobe) only ever make an operation return without a      *)
(* state change, which is the same here as the operation not happening.    *)
(***************************************************************************)
EXTENDS Naturals, FiniteSets

CONSTANTS
  Apps,        \* App IDs of managed shortcuts
  SessionIds,  \* the random session IDs
  Instances,   \* Steam's non-zero instance IDs
  BootModules, \* the modules the host loads at boot
  Unreliable,  \* may modprobe and journal calls fail?
  Cancelling,  \* may clients go away, or deadlines pass, during an operation?
  Meddling,    \* may others load and remove modules while we hold the lease?
  MaxCrashes   \* bound: how often the backend dies, alone or with the host

EMU    == "cpuid_fault_emulation"
KVM    == "kvm"
KVMAMD == "kvm_amd"
Modules == {EMU, KVM, KVMAMD}

\* A snapshot is the set of loaded modules; the kernel loads kvm with kvm_amd.
Snapshots == {s \in SUBSET Modules : KVMAMD \in s => KVM \in s}

Unattached == 0   \* Session.InstanceID before Steam's notification

ASSUME InstancesAssumption == Instances \subseteq Nat \ {Unattached}
ASSUME BootAssumption == BootModules \in Snapshots
ASSUME BoundsAssumption ==
  /\ Unreliable \in BOOLEAN
  /\ Cancelling \in BOOLEAN
  /\ Meddling \in BOOLEAN
  /\ MaxCrashes \in Nat

Session == [id : SessionIds, app : Apps, inst : Instances \cup {Unattached}]
Ids(ss) == {s.id : s \in ss}

Record == [exists : BOOLEAN, owned : BOOLEAN, before : Snapshots, sessions : SUBSET Session]

\* What Journal.Load reports for a missing file.
NoRecord == [exists |-> FALSE, owned |-> FALSE, before |-> {}, sessions |-> {}]

States == {"idle", "switching-to-emulation", "emulation-active", "restoring-kvm", "recovery-required"}

CommandSteps == {"remove_kvm_amd", "remove_kvm", "load_emulation",
                 "unload_emulation", "reload_kvm_amd", "reload_kvm"}
JournalSteps == {"journal_activation", "persist", "journal_restore", "clear", "discard"}

VARIABLES
  loaded,       \* the host's loaded modules
  vms,          \* is a virtual machine running (kvm_amd's refcnt > 0)?
  debt,         \* history: modules this controller has changed and not changed back
  journal,      \* transition-journal.json
  verification, \* State in the module verification store
  up,           \* the backend process runs
  pc, op,       \* the operation that holds the mutex, and its next step
  state, owned, before, sessions,  \* the fields of Controller
  crashes,
  meddled       \* history: did others change modules while we held a record of them?

host    == <<loaded, vms, debt>>
durable == <<journal, verification>>
process == <<up, crashes, meddled>>
memory  == <<state, owned, before, sessions>>
vars    == <<host, durable, process, pc, op, memory>>

Op == [kind : {"none", "start", "test", "end", "lifetime", "shutdown", "reconcile"},
       pending : SUBSET Session, \* the session being started
       live : BOOLEAN,           \* the operation's context is not cancelled
       rollback : BOOLEAN]       \* restoring modules after a failed activation

BeginWith(kind, pending) == [kind |-> kind, pending |-> pending, live |-> TRUE, rollback |-> FALSE]
Begin(kind) == BeginWith(kind, {})
NoOp == Begin("none")

\* The types of the host, the disk and the process (fields of Controller,
\* journalRecord and the modules under /sys/module).
TypeOK ==
  /\ loaded \in Snapshots
  /\ vms \in BOOLEAN
  /\ debt \subseteq Modules
  /\ journal \in Record
  /\ verification \in {"pending", "verified", "failed"}
  /\ up \in BOOLEAN
  /\ pc \in {"free", "preflight"} \cup CommandSteps \cup JournalSteps
  /\ op \in Op
  /\ state \in States
  /\ owned \in BOOLEAN
  /\ before \in Snapshots
  /\ sessions \in SUBSET Session
  /\ crashes \in 0..MaxCrashes
  /\ meddled \in BOOLEAN

\* Before the backend first runs: some modules are loaded, and the journal is
\* absent or a record that claims no ownership.
Init ==
  /\ loaded \in Snapshots
  /\ vms = FALSE
  /\ debt = {}
  /\ \E s \in Snapshots :
       journal \in {NoRecord, [exists |-> TRUE, owned |-> FALSE, before |-> s, sessions |-> {}]}
  /\ verification = "pending"
  /\ up = FALSE
  /\ pc = "free" /\ op = NoOp
  /\ state = "idle" /\ owned = FALSE /\ before = {} /\ sessions = {}
  /\ crashes = 0
  /\ meddled = FALSE

-----------------------------------------------------------------------------
(* Journal and modprobe, with the ways a call can fail.                    *)

\* FileJournal.Write and Clear: a failure comes before the rename or the
\* remove, or after it from the sync of the directory.
Replace(record, ok) ==
  \/ ok /\ journal' = record
  \/ ~ok /\ Unreliable /\ journal' \in {journal, record}

Write(ss, ok) == Replace([exists |-> TRUE, owned |-> owned, before |-> before, sessions |-> ss], ok)
Clear(ok) == Replace(NoRecord, ok)

\* Mutant: the kernel lets kvm go under kvm_amd.
PermittedInUse(load, m) == m = KVMAMD => load \/ ~vms

\* Whether the kernel lets the module go: not kvm_amd under a virtual machine,
\* nor kvm under kvm_amd.
Permitted(load, m) ==
  \/ load
  \/ m = KVMAMD /\ ~vms
  \/ m = KVM /\ KVMAMD \notin loaded
  \/ m = EMU

\* modprobe loads what kvm_amd depends on; modprobe -r kvm_amd may take the then
\* unused kvm with it.
Effects(load, m) ==
  CASE load -> {loaded \cup (IF m = KVMAMD THEN {KVM, KVMAMD} ELSE {m})}
    [] ~load /\ m = KVMAMD /\ m \in loaded -> {loaded \ {KVMAMD}, loaded \ {KVM, KVMAMD}}
    [] OTHER -> {loaded \ {m}}

Changed(old, new) == (old \ new) \cup (new \ old)

\* A module is owed when we removed a KVM module, or loaded the emulation and it was
\* not there before.
DebtAfter(new) ==
  (debt \ Changed(loaded, new))
    \cup {m \in Changed(loaded, new) : IF m = EMU THEN m \in new \ before ELSE m \notin new}

\* moduleCommand: ok when modprobe exits 0 and the module is then as asked.  A
\* cancelled context starts no command; a failed or killed one may have worked.
ModuleCommand(load, m, ok) ==
  /\ \/ ok /\ op.live /\ Permitted(load, m) /\ loaded' \in Effects(load, m)
     \/ ~ok /\ ~Permitted(load, m) /\ loaded' = loaded
     \/ ~ok /\ (Unreliable \/ ~op.live) /\ loaded' = loaded
     \/ ~ok /\ Unreliable /\ op.live /\ Permitted(load, m) /\ loaded' \in Effects(load, m)
  /\ debt' = DebtAfter(loaded')
  /\ UNCHANGED vms

\* The process ends: its memory and its mutex are gone.
Exit ==
  /\ up' = FALSE /\ pc' = "free" /\ op' = NoOp
  /\ state' = "idle" /\ owned' = FALSE /\ before' = {} /\ sessions' = {}

\* The operation ends with the given fields.  The process exits after Shutdown,
\* and after a Reconcile that failed (main.go).
Return(ok, newState, newOwned) ==
  IF op.kind = "shutdown" \/ (op.kind = "reconcile" /\ ~ok)
  THEN Exit
  ELSE /\ pc' = "free" /\ op' = NoOp
       /\ state' = newState /\ owned' = newOwned
       /\ UNCHANGED <<up, before, sessions>>

Goto(step) == pc' = step /\ UNCHANGED <<up, op, memory>>

-----------------------------------------------------------------------------
(* The operations up to their first blocking step.                         *)

Free == up /\ pc = "free"

\* restoreLocked
Restoring == pc' = "journal_restore" /\ state' = "restoring-kvm"

\* activateLocked and testModuleLocked, which run modinfo before they go on.
Activate(kind, pending) ==
  /\ pc' = "preflight"
  /\ op' = BeginWith(kind, pending)
  /\ UNCHANGED memory

\* Mutant: a second session is not written to the journal.
JoinUnrecorded(s) ==
  /\ sessions # {} /\ s.id \notin Ids(sessions)
  /\ sessions' = sessions \cup {s}
  /\ UNCHANGED <<pc, op, state, owned, before>>

\* StartSession that joins the sessions already there.
JoinSession(s) ==
  /\ sessions # {} /\ s.id \notin Ids(sessions)
  /\ sessions' = sessions \cup {s}
  /\ IF owned
     THEN pc' = "persist" /\ op' = BeginWith("start", {s})
     ELSE UNCHANGED <<pc, op>>
  /\ UNCHANGED <<state, owned, before>>

\* StartSession of the first game when the emulation was loaded by others.
BorrowEmulation(s) ==
  /\ sessions = {} /\ EMU \in loaded /\ ~owned
  /\ state' = "emulation-active"
  /\ sessions' = {s}
  /\ UNCHANGED <<pc, op, owned, before>>

\* StartSession of the first game otherwise.
Activates == sessions = {} /\ ~(EMU \in loaded /\ ~owned)
ActivateSession(s) == Activates /\ Activate("start", {s})

StartSession(app, id) ==
  LET s == [id |-> id, app |-> app, inst |-> Unattached]
  IN  /\ Free /\ state # "recovery-required"
      /\ JoinSession(s) \/ BorrowEmulation(s) \/ ActivateSession(s)
      /\ UNCHANGED <<host, durable, process>>

TestModule ==
  /\ Free /\ state = "idle" /\ sessions = {} /\ ~owned /\ EMU \notin loaded
  /\ Activate("test", {})
  /\ UNCHANGED <<host, durable, process>>

\* Mutant: the first session to close restores the modules of all.
CloseAll(kind, rest, unownedState) ==
  /\ sessions' = rest
  /\ IF owned
     THEN Restoring /\ op' = Begin(kind)
     ELSE state' = unownedState /\ UNCHANGED <<pc, op>>
  /\ UNCHANGED <<host, durable, process, owned, before>>

\* What EndSession and a lifetime stop do once they have removed sessions.
Close(kind, rest, unownedState) ==
  /\ sessions' = rest
  /\ \/ /\ owned /\ rest # {}
        /\ pc' = "persist" /\ op' = Begin(kind) /\ UNCHANGED state
     \/ /\ owned /\ rest = {}
        /\ Restoring /\ op' = Begin(kind)
     \/ /\ ~owned
        /\ state' = IF rest = {} THEN unownedState ELSE state
        /\ UNCHANGED <<pc, op>>
  /\ UNCHANGED <<host, durable, process, owned, before>>

EndSession(id) ==
  /\ Free
  /\ \E s \in sessions : s.id = id /\ Close("end", sessions \ {s}, "idle")

\* ObserveLifetime, running: the first session found takes the instance.
ObserveRunning(app, inst) ==
  /\ Free
  /\ \E s \in sessions :
       /\ s.app = app /\ s.inst = Unattached
       /\ sessions' = (sessions \ {s}) \cup {[s EXCEPT !.inst = inst]}
  /\ IF owned THEN pc' = "persist" /\ op' = Begin("lifetime") ELSE UNCHANGED <<pc, op>>
  /\ UNCHANGED <<host, durable, process, state, owned, before>>

\* ObserveLifetime, stopped.  Steam reports every application, so a stop may
\* match no session at all.
ObserveStop(app, inst) ==
  /\ Free
  /\ LET closed == {s \in sessions : s.app = app /\ (inst = Unattached \/ s.inst = inst)}
     IN  Close("lifetime", sessions \ closed,
               IF state = "emulation-active" THEN "idle" ELSE state)

\* Mutant: the sessions are kept while their modules are restored.
ShutdownWithSessions ==
  /\ Free
  /\ IF owned
     THEN Restoring /\ op' = Begin("shutdown") /\ UNCHANGED <<up, owned, before, sessions>>
     ELSE Exit
  /\ UNCHANGED <<host, durable, crashes, meddled>>

Shutdown ==
  /\ Free
  /\ IF owned
     THEN /\ sessions' = {} /\ Restoring /\ op' = Begin("shutdown")
          /\ UNCHANGED <<up, owned, before>>
     ELSE Exit
  /\ UNCHANGED <<host, durable, crashes, meddled>>

\* Start of the process and Reconcile, with the apps it finds running.  (A
\* failing Load ends the process with nothing changed.)
ReconcileNothing ==
  /\ ~journal.exists
  /\ state' = IF EMU \in loaded THEN "emulation-active" ELSE "idle"
  /\ UNCHANGED <<pc, op, owned, before, sessions>>

ReconcileFinished ==
  /\ journal.exists /\ loaded = journal.before
  /\ pc' = "discard" /\ op' = Begin("reconcile")
  /\ UNCHANGED memory

\* Mutant: a record without ownership is taken for nothing.
ReconcileUnowned ==
  /\ journal.exists /\ loaded # journal.before /\ ~journal.owned
  /\ state' = "idle"
  /\ UNCHANGED <<pc, op, owned, before, sessions>>

ReconcileAmbiguous ==
  /\ journal.exists /\ loaded # journal.before /\ ~journal.owned
  /\ state' = "recovery-required"
  /\ UNCHANGED <<pc, op, owned, before, sessions>>

\* Mutant: running games are adopted whether or not the emulation is loaded.
AdoptAnyway(running) ==
  /\ journal.exists /\ loaded # journal.before /\ journal.owned
  /\ owned' = TRUE /\ before' = journal.before
  /\ op' = Begin("reconcile")
  /\ sessions' = {s \in journal.sessions : s.app \in running}
  /\ IF sessions' # {} THEN pc' = "persist" /\ state' = "emulation-active" ELSE Restoring

\* Mutant: an owned record without running games waits for the next session.
AdoptOnly(running) ==
  /\ journal.exists /\ loaded # journal.before /\ journal.owned
  /\ owned' = TRUE /\ before' = journal.before
  /\ op' = Begin("reconcile")
  /\ sessions' = {s \in journal.sessions : EMU \in loaded /\ s.app \in running}
  /\ pc' = "persist" /\ state' = "emulation-active"

ReconcileOwned(running) ==
  /\ journal.exists /\ loaded # journal.before /\ journal.owned
  /\ owned' = TRUE /\ before' = journal.before
  /\ op' = Begin("reconcile")
  /\ sessions' = {s \in journal.sessions : EMU \in loaded /\ s.app \in running}
  /\ IF sessions' # {} THEN pc' = "persist" /\ state' = "emulation-active" ELSE Restoring

Reconcile(running) ==
  /\ ~up /\ up' = TRUE
  /\ \/ ReconcileNothing
     \/ ReconcileFinished
     \/ ReconcileAmbiguous
     \/ ReconcileOwned(running)
  /\ UNCHANGED <<host, durable, crashes, meddled>>

-----------------------------------------------------------------------------
(* The steps of an operation under way, each one journal or modprobe call. *)

\* Mutant: the snapshot holds what the check before the preflight found.
SnapshotOfCheck ==
  /\ pc = "preflight"
  /\ \/ Return(FALSE, state, owned)
     \/ /\ ~vms
        /\ before' = loaded \ {EMU} /\ owned' = TRUE /\ state' = "switching-to-emulation"
        /\ pc' = "journal_activation"
        /\ UNCHANGED <<up, op, sessions>>
  /\ UNCHANGED <<host, durable, crashes, meddled>>

\* The preflight refuses (the module is not installed or not for this kernel, KVM
\* is busy, the client is gone), or the snapshot is taken of what is loaded by now.
TakeSnapshot ==
  /\ pc = "preflight"
  /\ \/ Return(FALSE, state, owned)
     \/ /\ ~vms
        /\ before' = loaded /\ owned' = TRUE /\ state' = "switching-to-emulation"
        /\ pc' = "journal_activation"
        /\ UNCHANGED <<up, op, sessions>>
  /\ UNCHANGED <<host, durable, crashes, meddled>>

\* Mutant: the modules are changed although the record was not written.
ActivateUnrecorded ==
  /\ pc = "journal_activation"
  /\ \E ok \in BOOLEAN : Write(op.pending, ok)
  /\ Goto("remove_kvm_amd")
  /\ UNCHANGED <<host, verification, crashes, meddled>>

\* The owned record is written before the first modprobe.
JournalActivation ==
  /\ pc = "journal_activation"
  /\ \E ok \in BOOLEAN :
       /\ Write(op.pending, ok)
       /\ IF ok THEN Goto("remove_kvm_amd") ELSE Return(FALSE, "idle", FALSE)
  /\ UNCHANGED <<host, verification, crashes, meddled>>

\* Mutant: a failed activation leaves the modules as they are.
GiveUp == Return(FALSE, "idle", FALSE)

\* activationFailureLocked, from where it rolls back.
Rollback ==
  /\ pc' = "unload_emulation"
  /\ op' = [op EXCEPT !.rollback = TRUE]
  /\ UNCHANGED <<up, memory>>

RemoveStep(here, m, next) ==
  /\ pc = here
  /\ \/ m \notin before /\ Goto(next) /\ UNCHANGED host
     \/ /\ m \in before
        /\ \E ok \in BOOLEAN :
             /\ ModuleCommand(FALSE, m, ok)
             /\ IF ok THEN Goto(next) ELSE Rollback
  /\ UNCHANGED <<durable, crashes, meddled>>

RemoveKvmAmd == RemoveStep("remove_kvm_amd", KVMAMD, "remove_kvm")
RemoveKvm == RemoveStep("remove_kvm", KVM, "load_emulation")

\* recordVerificationLocked ignores a store that cannot be written.
RecordVerification(outcome) ==
  \/ verification' = outcome
  \/ Unreliable /\ UNCHANGED verification

LoadEmulation ==
  /\ pc = "load_emulation"
  /\ \E ok \in BOOLEAN :
       /\ ModuleCommand(TRUE, EMU, ok)
       /\ RecordVerification(IF ok THEN "verified" ELSE "failed")
       /\ \/ ~ok /\ Rollback
          \/ /\ ok /\ op.kind = "start"
             /\ state' = "emulation-active" /\ sessions' = op.pending /\ pc' = "persist"
             /\ UNCHANGED <<up, op, owned, before>>
          \/ /\ ok /\ op.kind = "test"
             /\ Restoring /\ UNCHANGED <<up, op, owned, before, sessions>>
  /\ UNCHANGED <<journal, crashes, meddled>>

\* writeJournalLocked("active"), the last step of the operations that call it.
\* Only a failed StartSession asks for recovery, and it keeps its session.
PersistSessions ==
  /\ pc = "persist"
  /\ \E ok \in BOOLEAN :
       /\ Write(sessions, ok)
       /\ Return(ok, IF ~ok /\ op.kind = "start" THEN "recovery-required" ELSE state, owned)
  /\ UNCHANGED <<host, verification, crashes, meddled>>

JournalRestore ==
  /\ pc = "journal_restore"
  /\ \E ok \in BOOLEAN :
       /\ Write(sessions, ok)
       /\ IF ok THEN Goto("unload_emulation") ELSE Return(FALSE, "recovery-required", owned)
  /\ UNCHANGED <<host, verification, crashes, meddled>>

\* Mutant: a module that does not come back is passed over.
RestoreUnchecked(here, load, m, needed, next) ==
  /\ pc = here
  /\ Goto(next)
  /\ \/ ~needed /\ UNCHANGED host
     \/ needed /\ \E ok \in BOOLEAN : ModuleCommand(load, m, ok)
  /\ UNCHANGED <<durable, crashes, meddled>>

\* restoreModulesLocked, of a restore and of a rollback: one module.
RestoreStep(here, load, m, needed, next) ==
  /\ pc = here
  /\ \/ ~needed /\ Goto(next) /\ UNCHANGED host
     \/ /\ needed
        /\ \E ok \in BOOLEAN :
             /\ ModuleCommand(load, m, ok)
             /\ IF ok THEN Goto(next) ELSE Return(FALSE, "recovery-required", owned)
  /\ UNCHANGED <<durable, crashes, meddled>>

UnloadEmulation ==
  RestoreStep("unload_emulation", FALSE, EMU, EMU \notin before /\ EMU \in loaded, "reload_kvm_amd")
ReloadKvmAmd ==
  RestoreStep("reload_kvm_amd", TRUE, KVMAMD, KVMAMD \in before \ loaded, "reload_kvm")
ReloadKvm ==
  RestoreStep("reload_kvm", TRUE, KVM, KVM \in before \ loaded, "clear")

\* The journal goes last.  A rollback gives up ownership before it clears.
ClearJournal ==
  /\ pc = "clear"
  /\ \E ok \in BOOLEAN :
       /\ Clear(ok)
       /\ Return(ok, IF ok THEN "idle" ELSE "recovery-required", ~ok /\ ~op.rollback)
  /\ UNCHANGED <<host, verification, crashes, meddled>>

\* Reconcile clears the record of a finished transition.
DiscardJournal ==
  /\ pc = "discard"
  /\ \E ok \in BOOLEAN : Clear(ok) /\ Return(ok, "idle", FALSE)
  /\ UNCHANGED <<host, verification, crashes, meddled>>

-----------------------------------------------------------------------------
(* The environment.                                                        *)

\* The client goes away or a deadline passes: no command runs any more.
Cancel ==
  /\ Cancelling /\ pc # "free" /\ op.live
  /\ op' = [op EXCEPT !.live = FALSE]
  /\ UNCHANGED <<host, durable, process, pc, memory>>

\* SIGKILL (main.py sends one 2 s after SIGTERM) or a crash.
Kill ==
  /\ up /\ crashes < MaxCrashes
  /\ crashes' = crashes + 1
  /\ Exit
  /\ UNCHANGED <<host, durable, meddled>>

\* The host goes down; the journal is on disk.
Reboot ==
  /\ crashes < MaxCrashes
  /\ crashes' = crashes + 1
  /\ Exit
  /\ loaded' = BootModules /\ vms' = FALSE /\ debt' = {}
  /\ UNCHANGED <<durable, meddled>>

VirtualMachine ==
  /\ vms \/ KVMAMD \in loaded
  /\ vms' = ~vms
  /\ UNCHANGED <<loaded, debt, durable, process, pc, op, memory>>

\* The administrator or another program loads or removes modules.
Meddle ==
  /\ Meddling \/ (~journal.exists /\ pc \in {"free", "preflight"} /\ ~owned)
  /\ loaded' \in Snapshots \ {loaded}
  /\ vms => KVMAMD \in loaded'
  /\ debt' = debt \ Changed(loaded, loaded')
  /\ meddled' = (meddled \/ journal.exists \/ pc \notin {"free", "preflight"} \/ owned)
  /\ UNCHANGED <<vms, durable, up, crashes, pc, op, memory>>

Operation ==
  \/ TestModule \/ Shutdown
  \/ \E id \in SessionIds : EndSession(id)
  \/ \E id \in SessionIds, app \in Apps : StartSession(app, id)
  \/ \E app \in Apps, inst \in Instances \cup {Unattached} :
       ObserveRunning(app, inst) \/ ObserveStop(app, inst)

Step ==
  \/ TakeSnapshot \/ JournalActivation \/ RemoveKvmAmd \/ RemoveKvm \/ LoadEmulation
  \/ PersistSessions \/ JournalRestore
  \/ UnloadEmulation \/ ReloadKvmAmd \/ ReloadKvm
  \/ ClearJournal \/ DiscardJournal

Start == \E running \in SUBSET Apps : Reconcile(running)

Environment == Cancel \/ Kill \/ Reboot \/ VirtualMachine \/ Meddle

Next == Operation \/ Start \/ Step \/ Environment

Spec == Init /\ [][Next]_vars

\* The controller's goroutine runs on, and Decky starts a backend that is not
\* there when it loads the plugin.
FairSpec == Spec /\ WF_vars(Step) /\ WF_vars(Start)

-----------------------------------------------------------------------------
(* Properties.                                                             *)

\* The write-ahead rule of activateLocked and restoreLocked: every change the
\* controller made to the host and has not undone is on record, as owned, and
\* the recorded snapshot is the state that undoes it.  So a kill between any
\* two steps leaves enough for the next Reconcile.
ChangesAreOnRecord ==
  debt # {} => /\ journal.exists /\ journal.owned
               /\ \A m \in debt : m \in (IF m = EMU THEN loaded \ journal.before
                                                 ELSE journal.before \ loaded)

\* A controller that says it is idle owes the host nothing and keeps no
\* session: EndSession, lifetime stops, rollback and Reconcile do not report
\* idle with a module still to restore.
IdleOwesNothing ==
  up /\ state = "idle" => debt = {} /\ sessions = {} /\ ~owned

\* The modules of a game in progress stay as it needs them: as long as the
\* controller holds sessions of its own and is active, nothing it does, for a
\* second game or for a late stop of another, takes the emulation away.
GamesKeepEmulation ==
  ~meddled /\ up /\ owned /\ state = "emulation-active" => sessions # {} /\ EMU \in loaded

\* A kill forgets no game: between two operations of an active controller
\* every session it holds is in the journal, whatever order of starts, ends
\* and lifetime notifications, and whatever failed writes, came before.
SessionsAreOnRecord ==
  Free /\ owned /\ state = "emulation-active" => Ids(sessions) \subseteq Ids(journal.sessions)

\* TestPreexistingEmulationIsNeverOwnedOrUnloaded, for every history: the
\* controller unloads the emulation only if it was the one to load it.
ForeignEmulationStays ==
  [][~meddled /\ Step /\ EMU \in loaded /\ EMU \notin loaded' => EMU \in debt]_vars

\* "If it cannot determine who changed module state, it asks for recovery
\* rather than making an unsafe change": while a record without ownership
\* stands, the controller asks for recovery and no operation is under way,
\* except to clear the record of modules that are as it says.
AmbiguityIsLeftAlone ==
  up /\ journal.exists /\ ~journal.owned =>
    \/ pc = "discard"
    \/ pc = "free" /\ state = "recovery-required" /\ ~owned

\* The record of ownership outlives every failure: only a controller that owes
\* nothing drops it or replaces its snapshot.
Lease == INSTANCE ModuleLease
           WITH lease <- IF journal.exists /\ journal.owned THEN {journal.before} ELSE {}

\* activateLocked and restoreLocked implement ModuleLease.
LeaseSpec == Lease!Spec

\* After a kill the next backend gives the modules back or keeps them for a
\* game it found running, if modprobe and the disk work.
RecoversAfterKill ==
  debt # {} /\ ~up ~> debt = {} \/ (Free /\ state = "emulation-active" /\ sessions # {})

-----------------------------------------------------------------------------
(* Why ChangesAreOnRecord and IdleOwesNothing hold: what each point of an  *)
(* operation may rely on.  ControllerProofs shows that no step breaks it.  *)

\* A dead process remembers nothing.
DeadIsBlank ==
  ~up => pc = "free" /\ op = NoOp /\ state = "idle" /\ ~owned /\ sessions = {}

\* Modules are changed under an owned record of the snapshot in memory.
HeldWhileChanging ==
  /\ pc \in CommandSteps => journal.exists /\ journal.owned /\ journal.before = before
  /\ pc \notin {"free", "preflight", "discard"} => owned
  /\ pc \in {"preflight", "discard"} => ~owned

\* The running controller knows what it owes.
DebtIsHeld == up /\ debt # {} => owned /\ before = journal.before

\* What a restore has paid back by the time it comes to a step.
PaidBack ==
  /\ pc \in {"preflight", "journal_activation", "clear"} => debt = {}
  /\ pc = "reload_kvm_amd" => EMU \notin debt
  /\ pc = "reload_kvm" => debt \subseteq {KVM}

\* A start has a session to add once the emulation is loaded.
StartPending == op.kind = "start" /\ pc # "free" => op.pending # {}

\* The module steps run without sessions, and ownership without sessions
\* outlasts an operation only as a request for recovery.
SessionsInside ==
  /\ pc = "persist" <=> (pc # "free" /\ sessions # {})
  /\ Free /\ owned /\ sessions = {} => state = "recovery-required"

\* What the code relies on between any two of its journal and modprobe calls.
LeaseInv ==
  /\ TypeOK
  /\ ChangesAreOnRecord
  /\ IdleOwesNothing
  /\ DeadIsBlank
  /\ HeldWhileChanging
  /\ DebtIsHeld
  /\ PaidBack
  /\ StartPending
  /\ SessionsInside

=============================================================================
