-------------------------- MODULE ControllerProofs --------------------------
(***************************************************************************)
(* Proofs about Controller, for every set of apps, session IDs and         *)
(* instances, with failing calls, meddling and any number of crashes.      *)
(***************************************************************************)
EXTENDS Controller, TLAPS

USE DEF Modules, EMU, KVM, KVMAMD, Snapshots

\* An operation begun by the code is a well-formed operation under way.
LEMMA BeginType == \A kind \in {"none", "start", "test", "end", "lifetime", "shutdown", "reconcile"} :
                      /\ Begin(kind) \in Op
                      /\ \A ss \in SUBSET Session : BeginWith(kind, ss) \in Op
  BY DEF Begin, BeginWith, Op

\* What an operation under way says of its kind and its pending sessions.
LEMMA BeginFields ==
  /\ NoOp.kind = "none"
  /\ \A kind : Begin(kind).kind = kind
  /\ \A kind, ss : BeginWith(kind, ss).kind = kind /\ BeginWith(kind, ss).pending = ss
  BY DEF NoOp, Begin, BeginWith

\* What the journal file may hold is a record.
LEMMA RecordType ==
  /\ NoRecord \in Record
  /\ \A o \in BOOLEAN, b \in Snapshots, ss \in SUBSET Session :
       [exists |-> TRUE, owned |-> o, before |-> b, sessions |-> ss] \in Record
  BY DEF NoRecord, Record

\* The effects of a command are snapshots.
LEMMA EffectsType ==
  ASSUME loaded \in Snapshots, NEW load \in BOOLEAN, NEW m \in Modules,
         Permitted(load, m), NEW l \in Effects(load, m)
  PROVE  l \in Snapshots
<1>1. CASE load
  BY <1>1 DEF Effects
<1>2. CASE ~load /\ m = KVMAMD
  BY <1>2 DEF Effects
<1>3. CASE ~load /\ m # KVMAMD
  <2>1. l = loaded \ {m} /\ (m = EMU \/ KVMAMD \notin loaded)
    BY <1>3 DEF Effects, Permitted
  <2> QED BY <2>1
<1> QED BY <1>1, <1>2, <1>3

\* modprobe leaves a possible set of modules, a possible debt and the virtual machines' flag.
LEMMA CommandType ==
  ASSUME TypeOK, NEW load \in BOOLEAN, NEW m \in Modules, NEW ok \in BOOLEAN,
         ModuleCommand(load, m, ok)
  PROVE  loaded' \in Snapshots /\ debt' \subseteq Modules /\ vms' \in BOOLEAN
<1>1. loaded' \in Snapshots
  <2>1. loaded' = loaded \/ (Permitted(load, m) /\ loaded' \in Effects(load, m))
    BY DEF ModuleCommand
  <2>2. loaded \in Snapshots
    BY DEF TypeOK
  <2> HIDE DEF Snapshots, Modules, EMU, KVM, KVMAMD
  <2> QED BY <2>1, <2>2, EffectsType
<1>2. debt' \subseteq Modules
  BY <1>1 DEF ModuleCommand, TypeOK, DebtAfter, Changed
<1> QED BY <1>1, <1>2 DEF ModuleCommand, TypeOK

\* An operation that returns leaves the process well formed and idle.
LEMMA ReturnType ==
  ASSUME TypeOK, NEW ok \in BOOLEAN, NEW s \in States, NEW o \in BOOLEAN, Return(ok, s, o)
  PROVE  /\ up' \in BOOLEAN /\ pc' = "free" /\ op' \in Op
         /\ state' \in States /\ owned' \in BOOLEAN
         /\ before' \in Snapshots /\ sessions' \in SUBSET Session
  BY BeginType DEF Return, Exit, TypeOK, NoOp, States

\* The host and the disk a first backend finds are well formed.
LEMMA TypeInit == Init => TypeOK
<1> SUFFICES ASSUME Init PROVE TypeOK
  OBVIOUS
<1>1. journal \in Record
  <2>1. PICK s \in Snapshots : journal \in {NoRecord, [exists |-> TRUE, owned |-> FALSE, before |-> s, sessions |-> {}]}
    BY DEF Init
  <2> QED BY <2>1, RecordType
<1>2. crashes \in 0..MaxCrashes
  BY BoundsAssumption DEF Init
<1>3. op \in Op
  BY BeginType DEF Init, NoOp
<1> QED
  BY <1>1, <1>2, <1>3 DEF Init, TypeOK, States

\* One step per group of actions: the operations, Reconcile, the steps, the
\* environment.
LEMMA TypeActivate ==
  ASSUME TypeOK, NEW kind \in {"start", "test"}, NEW ss \in SUBSET Session,
         Activate(kind, ss), UNCHANGED <<host, durable, process>>
  PROVE  TypeOK'
<1>1. op' \in Op
  BY BeginType DEF Activate
<1> QED
  BY <1>1 DEF Activate, TypeOK, host, durable, process, memory

\* Ending sessions (EndSession, a lifetime stop) keeps the types.
LEMMA TypeClose ==
  ASSUME TypeOK, NEW kind \in {"end", "lifetime"}, NEW ss \in SUBSET Session,
         NEW s \in States, Close(kind, ss, s)
  PROVE  TypeOK'
  BY BeginType DEF Close, Restoring, TypeOK, host, durable, process, States, JournalSteps

\* The public operations of the controller keep the types.
LEMMA TypeOperation == TypeOK /\ Operation => TypeOK'
<1> SUFFICES ASSUME TypeOK, Operation PROVE TypeOK'
  OBVIOUS
<1>1. CASE TestModule
  BY <1>1, TypeActivate DEF TestModule
<1>2. CASE Shutdown
  BY <1>2, BeginType DEF Shutdown, Exit, NoOp, Restoring, TypeOK, host, durable, States, JournalSteps
<1>3. ASSUME NEW id \in SessionIds, EndSession(id) PROVE TypeOK'
  <2>1. PICK s \in sessions : Close("end", sessions \ {s}, "idle")
    BY <1>3 DEF EndSession
  <2>2. sessions \ {s} \in SUBSET Session /\ "idle" \in States
    BY DEF TypeOK, States
  <2> QED BY <2>1, <2>2, TypeClose
<1>4. ASSUME NEW id \in SessionIds, NEW app \in Apps, StartSession(app, id) PROVE TypeOK'
  <2> DEFINE s == [id |-> id, app |-> app, inst |-> Unattached]
  <2>1. s \in Session
    BY DEF Session
  <2> HIDE DEF s
  <2>2. CASE ActivateSession(s)
    BY <1>4, <2>1, <2>2, TypeActivate DEF StartSession, ActivateSession, Activates, s
  <2>3. CASE JoinSession(s)
    <3>1. sessions' \in SUBSET Session /\ UNCHANGED <<host, durable, process, state, owned, before>>
      BY <1>4, <2>1, <2>3 DEF StartSession, JoinSession, TypeOK, s
    <3>2. pc' \in {pc, "persist"} /\ op' \in Op
      BY <2>1, <2>3, BeginType DEF JoinSession, TypeOK
    <3> QED BY <3>1, <3>2 DEF TypeOK, host, durable, process, JournalSteps
  <2>4. CASE BorrowEmulation(s)
    BY <1>4, <2>1, <2>4 DEF StartSession, BorrowEmulation, TypeOK, host, durable, process, States
  <2> QED BY <1>4, <2>2, <2>3, <2>4 DEF StartSession, s
<1>5. ASSUME NEW app \in Apps, NEW inst \in Instances \cup {Unattached}, ObserveRunning(app, inst) PROVE TypeOK'
  <2>1. PICK s \in sessions : sessions' = (sessions \ {s}) \cup {[s EXCEPT !.inst = inst]}
    BY <1>5 DEF ObserveRunning
  <2>2. [s EXCEPT !.inst = inst] \in Session
    BY DEF TypeOK, Session
  <2>3. pc' \in {pc, "persist"} /\ op' \in Op
    BY <1>5, BeginType DEF ObserveRunning, TypeOK
  <2> QED BY <1>5, <2>1, <2>2, <2>3 DEF ObserveRunning, TypeOK, host, durable, process, JournalSteps
<1>6. ASSUME NEW app \in Apps, NEW inst \in Instances \cup {Unattached}, ObserveStop(app, inst) PROVE TypeOK'
  <2> DEFINE closed == {s \in sessions : s.app = app /\ (inst = Unattached \/ s.inst = inst)}
             unowned == IF state = "emulation-active" THEN "idle" ELSE state
  <2>1. sessions \ closed \in SUBSET Session /\ unowned \in States
    BY DEF TypeOK, States
  <2>2. Close("lifetime", sessions \ closed, unowned)
    BY <1>6 DEF ObserveStop
  <2> HIDE DEF closed, unowned
  <2> QED BY <2>1, <2>2, TypeClose
<1> QED
  BY <1>1, <1>2, <1>3, <1>4, <1>5, <1>6 DEF Operation

\* The start of a process, with Reconcile, keeps the types.
LEMMA TypeReconcile == TypeOK /\ Start => TypeOK'
<1> SUFFICES ASSUME TypeOK, NEW running \in SUBSET Apps, Reconcile(running) PROVE TypeOK'
  BY DEF Start
<1>1. /\ UNCHANGED <<host, durable, crashes, meddled>> /\ up' = TRUE
      /\ op' \in Op /\ state' \in States /\ owned' \in BOOLEAN
      /\ before' \in Snapshots /\ sessions' \in SUBSET Session
      /\ pc' \in {"free", "preflight"} \cup CommandSteps \cup JournalSteps
  <2>1. CASE ReconcileNothing \/ ReconcileAmbiguous \/ ReconcileFinished
    BY <2>1, BeginType
    DEF Reconcile, ReconcileNothing, ReconcileAmbiguous, ReconcileFinished, memory, TypeOK, States, JournalSteps
  <2>2. ASSUME ReconcileOwned(running)
        PROVE  /\ op' \in Op /\ state' \in States /\ owned' \in BOOLEAN
               /\ before' \in Snapshots /\ sessions' \in SUBSET Session
               /\ pc' \in {"free", "preflight"} \cup CommandSteps \cup JournalSteps
    BY <2>2, BeginType DEF Reconcile, ReconcileOwned, Restoring, TypeOK, Record, States, JournalSteps
  <2> QED BY <2>1, <2>2 DEF Reconcile
<1> QED BY <1>1 DEF TypeOK, host, durable

\* A write or removal of the journal, failed or not, leaves a record.
LEMMA TypeWrite ==
  ASSUME TypeOK, NEW ss \in SUBSET Session, NEW ok \in BOOLEAN, Write(ss, ok) \/ Clear(ok)
  PROVE  journal' \in Record
  BY RecordType DEF TypeOK, Write, Clear, Replace

\* What every journal step has in common.
LEMMA TypeJournalStep ==
  ASSUME TypeOK, NEW ss \in SUBSET Session, NEW ok \in BOOLEAN, Write(ss, ok) \/ Clear(ok),
         NEW next \in CommandSteps, NEW s \in States, NEW o \in BOOLEAN,
         Goto(next) \/ Return(ok, s, o),
         UNCHANGED <<host, verification, crashes, meddled>>
  PROVE  TypeOK'
<1>1. journal' \in Record
  BY TypeWrite
<1>2. CASE Goto(next)
  BY <1>1, <1>2 DEF Goto, TypeOK, host, memory
<1>3. CASE Return(ok, s, o)
  BY <1>1, <1>3, ReturnType DEF TypeOK, host
<1> QED BY <1>2, <1>3

\* What every modprobe step has in common.
LEMMA TypeCommandStep ==
  ASSUME TypeOK, NEW ok \in BOOLEAN, NEW load \in BOOLEAN, NEW m \in Modules,
         ModuleCommand(load, m, ok) \/ UNCHANGED host,
         verification' \in {"pending", "verified", "failed"}, UNCHANGED <<journal, crashes, meddled>>,
         NEW next \in CommandSteps \cup JournalSteps, NEW s \in States, NEW o \in BOOLEAN,
         Goto(next) \/ Rollback \/ Return(ok, s, o)
  PROVE  TypeOK'
<1>1. loaded' \in Snapshots /\ debt' \subseteq Modules /\ vms' \in BOOLEAN
  BY CommandType DEF TypeOK, host
<1>2. CASE Goto(next)
  BY <1>1, <1>2 DEF Goto, TypeOK, memory
<1>3. CASE Rollback
  BY <1>1, <1>3 DEF Rollback, TypeOK, memory, Op, CommandSteps
<1>4. CASE Return(ok, s, o)
  BY <1>1, <1>4, ReturnType DEF TypeOK
<1> QED BY <1>2, <1>3, <1>4

\* Loading the emulation, and what follows it, keeps the types.
LEMMA TypeLoadEmulation == TypeOK /\ LoadEmulation => TypeOK'
<1> SUFFICES ASSUME TypeOK, LoadEmulation PROVE TypeOK'
  OBVIOUS
<1>1. PICK ok \in BOOLEAN :
        /\ ModuleCommand(TRUE, EMU, ok)
        /\ RecordVerification(IF ok THEN "verified" ELSE "failed")
        /\ \/ ~ok /\ Rollback
           \/ /\ ok /\ op.kind = "start"
              /\ state' = "emulation-active" /\ sessions' = op.pending /\ pc' = "persist"
              /\ UNCHANGED <<up, op, owned, before>>
           \/ /\ ok /\ op.kind = "test"
              /\ Restoring /\ UNCHANGED <<up, op, owned, before, sessions>>
  BY DEF LoadEmulation
<1>2. verification' \in {"pending", "verified", "failed"} /\ UNCHANGED <<journal, crashes, meddled>>
  BY <1>1 DEF LoadEmulation, RecordVerification, TypeOK
<1>3. CASE Rollback
  BY <1>1, <1>2, <1>3, TypeCommandStep DEF States, CommandSteps
<1>4. CASE ~Rollback
  <2>1. loaded' \in Snapshots /\ debt' \subseteq Modules /\ vms' \in BOOLEAN
    BY <1>1, CommandType
  <2> QED BY <1>1, <1>2, <1>4, <2>1 DEF TypeOK, Restoring, States, JournalSteps, Op
<1> QED BY <1>3, <1>4

\* A refused preflight, and the snapshot that follows a passed one, keep the types.
LEMMA TypeSnapshot == TypeOK /\ TakeSnapshot => TypeOK'
<1> SUFFICES ASSUME TypeOK, TakeSnapshot PROVE TypeOK'
  OBVIOUS
<1>1. CASE Return(FALSE, state, owned)
  <2>1. state \in States /\ owned \in BOOLEAN
    BY DEF TypeOK
  <2> QED BY <1>1, <2>1, ReturnType DEF TakeSnapshot, TypeOK, host, durable
<1>2. CASE ~Return(FALSE, state, owned)
  BY <1>2 DEF TakeSnapshot, TypeOK, host, durable, States, JournalSteps
<1> QED BY <1>1, <1>2

\* Every step of an operation under way keeps the types.
LEMMA TypeStep == TypeOK /\ Step => TypeOK'
<1> SUFFICES ASSUME TypeOK, Step PROVE TypeOK'
  OBVIOUS
<1> USE DEF States, CommandSteps, JournalSteps
<1>1. CASE JournalActivation \/ JournalRestore \/ PersistSessions
  <2>1. op.pending \in SUBSET Session /\ sessions \in SUBSET Session /\ state \in States /\ owned \in BOOLEAN
    BY DEF TypeOK, Op
  <2> QED BY <1>1, <2>1, TypeJournalStep DEF JournalActivation, JournalRestore, PersistSessions
<1>2. CASE ClearJournal \/ DiscardJournal
  BY <1>2, TypeJournalStep DEF ClearJournal, DiscardJournal
<1>3. CASE RemoveKvmAmd \/ RemoveKvm
  BY <1>3, TypeCommandStep DEF RemoveKvmAmd, RemoveKvm, RemoveStep, durable, TypeOK
<1>4. CASE UnloadEmulation \/ ReloadKvmAmd \/ ReloadKvm
  BY <1>4, TypeCommandStep DEF UnloadEmulation, ReloadKvmAmd, ReloadKvm, RestoreStep, durable, TypeOK
<1> QED
  BY <1>1, <1>2, <1>3, <1>4, TypeSnapshot, TypeLoadEmulation DEF Step

\* Kills, reboots, virtual machines and meddling keep the types.
LEMMA TypeEnvironment == TypeOK /\ Environment => TypeOK'
<1> SUFFICES ASSUME TypeOK, Environment PROVE TypeOK'
  OBVIOUS
<1>1. CASE Cancel
  BY <1>1 DEF Cancel, TypeOK, host, durable, process, memory, Op
<1>2. CASE Kill \/ Reboot
  <2>1. crashes' \in 0..MaxCrashes
    BY <1>2, BoundsAssumption DEF Kill, Reboot, TypeOK
  <2>2. loaded' \in Snapshots /\ debt' \subseteq Modules /\ vms' \in BOOLEAN
    BY <1>2, BootAssumption DEF Kill, Reboot, TypeOK, host
  <2> QED BY <1>2, <2>1, <2>2, BeginType DEF Kill, Reboot, Exit, NoOp, TypeOK, durable, States
<1>3. CASE VirtualMachine \/ Meddle
  BY <1>3 DEF VirtualMachine, Meddle, TypeOK, durable, process, memory
<1> QED BY <1>1, <1>2, <1>3 DEF Environment

\* TypeOK is inductive.
LEMMA TypeNext == TypeOK /\ [Next]_vars => TypeOK'
<1>1. TypeOK /\ UNCHANGED vars => TypeOK'
  BY DEF TypeOK, vars, host, durable, process, memory
<1> QED BY <1>1, TypeOperation, TypeReconcile, TypeStep, TypeEnvironment DEF Next

\* Type correctness of every behaviour.
THEOREM TypeCorrect == Spec => []TypeOK
  BY TypeInit, TypeNext, PTL DEF Spec

-----------------------------------------------------------------------------
(* The lease: LeaseInv is inductive.                                       *)

\* A command leaves loaded as it was or as asked.
LEMMA CommandEffect ==
  ASSUME TypeOK, NEW load \in BOOLEAN, NEW m \in Modules, NEW ok \in BOOLEAN,
         ModuleCommand(load, m, ok)
  PROVE  /\ load => loaded \subseteq loaded' /\ loaded' \ loaded \subseteq (IF m = KVMAMD THEN {KVM, KVMAMD} ELSE {m})
         /\ ~load => loaded' \subseteq loaded /\ loaded \ loaded' \subseteq (IF m = KVMAMD THEN {KVM, KVMAMD} ELSE {m})
         /\ ok => (m \in loaded' <=> load)
         /\ debt' = (debt \ Changed(loaded, loaded')) \cup {x \in Changed(loaded, loaded') : IF x = EMU THEN x \in loaded' \ before ELSE x \notin loaded'}
<1>1. loaded' = loaded \/ loaded' \in Effects(load, m)
  BY DEF ModuleCommand
<1>2. ok => loaded' \in Effects(load, m)
  BY DEF ModuleCommand
<1>3. \A l \in Effects(load, m) :
        /\ load => loaded \subseteq l /\ l \ loaded \subseteq (IF m = KVMAMD THEN {KVM, KVMAMD} ELSE {m})
        /\ ~load => l \subseteq loaded /\ loaded \ l \subseteq (IF m = KVMAMD THEN {KVM, KVMAMD} ELSE {m})
        /\ m \in l <=> load
  BY DEF Effects, TypeOK
<1> QED BY <1>1, <1>2, <1>3 DEF ModuleCommand, DebtAfter

\* A command run under the record leaves what is owed on record.
LEMMA CommandOnRecord ==
  ASSUME TypeOK, ChangesAreOnRecord,
         NEW load \in BOOLEAN, NEW m \in Modules, NEW ok \in BOOLEAN, ModuleCommand(load, m, ok),
         UNCHANGED journal, journal.exists, journal.owned, journal.before = before,
         m # EMU => m \in journal.before
  PROVE  ChangesAreOnRecord'
<1>1. KVMAMD \in journal.before => KVM \in journal.before
  BY DEF TypeOK, Record
<1>2. ASSUME NEW x \in debt' PROVE x \in (IF x = EMU THEN loaded' \ journal.before ELSE journal.before \ loaded')
  <2>1. CASE x \in Changed(loaded, loaded')
    BY <1>1, <1>2, <2>1, CommandEffect DEF Changed, TypeOK
  <2>2. CASE x \notin Changed(loaded, loaded')
    BY <1>2, <2>2, CommandEffect DEF Changed, ChangesAreOnRecord, TypeOK
  <2> QED BY <2>1, <2>2
<1> QED BY <1>2 DEF ChangesAreOnRecord

\* A restoring command adds no debt, and pays the module's when it succeeds.
LEMMA CommandPays ==
  ASSUME TypeOK, NEW load \in BOOLEAN, NEW m \in Modules, NEW ok \in BOOLEAN,
         ModuleCommand(load, m, ok), load <=> m # EMU, load <=> m \notin loaded
  PROVE  debt' \subseteq debt /\ (ok => m \notin debt')
  BY CommandEffect DEF Changed, TypeOK

\* The invariant holds of what a first backend finds.
LEMMA LeaseInit == Init => LeaseInv
<1> SUFFICES ASSUME Init PROVE LeaseInv
  OBVIOUS
<1>1. ~journal.owned
  BY DEF Init, NoRecord
<1> QED
  BY <1>1, TypeInit
  DEF Init, LeaseInv, ChangesAreOnRecord, IdleOwesNothing, DeadIsBlank, HeldWhileChanging,
      DebtIsHeld, PaidBack, StartPending, SessionsInside, Free, CommandSteps

\* Ending sessions keeps the invariant: the restore it may begin is still owned.
LEMMA LeaseClose ==
  ASSUME LeaseInv, TypeOK', Free, NEW kind \in {"end", "lifetime"}, NEW ss \in SUBSET sessions,
         NEW s \in {"idle", state}, Close(kind, ss, s)
  PROVE  LeaseInv'
  BY BeginFields DEF Close, Restoring, LeaseInv, ChangesAreOnRecord, IdleOwesNothing, DeadIsBlank, HeldWhileChanging,
         DebtIsHeld, PaidBack, StartPending, SessionsInside, Free, host, durable, process, CommandSteps

\* An activation begins with nothing owed and nothing owned.
LEMMA LeaseActivate ==
  ASSUME LeaseInv, TypeOK', Free, state # "recovery-required", sessions = {},
         NEW kind, NEW ss, kind = "start" => ss # {},
         Activate(kind, ss), UNCHANGED <<host, durable, process>>
  PROVE  LeaseInv'
<1>1. ~owned /\ debt = {}
  BY DEF LeaseInv, SessionsInside, DebtIsHeld, Free
<1> QED
  BY <1>1, BeginFields DEF Activate, LeaseInv, ChangesAreOnRecord, IdleOwesNothing, DeadIsBlank, HeldWhileChanging,
         DebtIsHeld, PaidBack, StartPending, SessionsInside, Free, host, durable, process, memory, CommandSteps

\* Every public operation keeps the invariant.
LEMMA LeaseOperation == LeaseInv /\ TypeOK' /\ Operation => LeaseInv'
<1> SUFFICES ASSUME LeaseInv, TypeOK', Operation PROVE LeaseInv'
  OBVIOUS
<1>1. CASE TestModule
  BY <1>1, LeaseActivate DEF TestModule
<1>2. CASE Shutdown
  BY <1>2, BeginFields DEF Shutdown, Exit, Restoring, LeaseInv, ChangesAreOnRecord, IdleOwesNothing, DeadIsBlank, HeldWhileChanging,
         DebtIsHeld, PaidBack, StartPending, SessionsInside, Free, host, durable, CommandSteps
<1>3. ASSUME NEW id \in SessionIds, EndSession(id) PROVE LeaseInv'
  <2>1. PICK s \in sessions : Close("end", sessions \ {s}, "idle")
    BY <1>3 DEF EndSession
  <2> QED BY <1>3, <2>1, LeaseClose DEF EndSession, States
<1>4. ASSUME NEW id \in SessionIds, NEW app \in Apps, StartSession(app, id) PROVE LeaseInv'
  <2> DEFINE s == [id |-> id, app |-> app, inst |-> Unattached]
  <2> HIDE DEF s
  <2>1. /\ Free /\ state # "recovery-required" /\ UNCHANGED <<host, durable, process>>
        /\ JoinSession(s) \/ BorrowEmulation(s) \/ ActivateSession(s)
    BY <1>4 DEF StartSession, s
  <2>2. CASE ActivateSession(s)
    BY <2>1, <2>2, LeaseActivate DEF ActivateSession, Activates
  <2>3. CASE JoinSession(s)
    BY <2>1, <2>3, BeginFields DEF JoinSession, BeginWith, LeaseInv, ChangesAreOnRecord, IdleOwesNothing, DeadIsBlank, HeldWhileChanging,
         DebtIsHeld, PaidBack, StartPending, SessionsInside, Free, host, durable, process, CommandSteps
  <2>4. CASE BorrowEmulation(s)
    BY <2>1, <2>4 DEF BorrowEmulation, LeaseInv, ChangesAreOnRecord, IdleOwesNothing, DeadIsBlank, HeldWhileChanging,
         DebtIsHeld, PaidBack, StartPending, SessionsInside, Free, host, durable, process, CommandSteps
  <2> QED BY <2>1, <2>2, <2>3, <2>4
<1>5. ASSUME NEW app \in Apps, NEW inst \in Instances \cup {Unattached}, ObserveRunning(app, inst) PROVE LeaseInv'
  <2>1. sessions # {} /\ sessions' # {}
    BY <1>5 DEF ObserveRunning
  <2> QED
    BY <1>5, <2>1, BeginFields DEF ObserveRunning, LeaseInv, ChangesAreOnRecord, IdleOwesNothing, DeadIsBlank, HeldWhileChanging,
         DebtIsHeld, PaidBack, StartPending, SessionsInside, Free, host, durable, process, CommandSteps
<1>6. ASSUME NEW app \in Apps, NEW inst \in Instances \cup {Unattached}, ObserveStop(app, inst) PROVE LeaseInv'
  <2> DEFINE rest == sessions \ {s \in sessions : s.app = app /\ (inst = Unattached \/ s.inst = inst)}
             unowned == IF state = "emulation-active" THEN "idle" ELSE state
  <2>1. rest \in SUBSET sessions /\ unowned \in States
    BY DEF LeaseInv, TypeOK, States
  <2>2. Close("lifetime", rest, unowned) /\ Free
    BY <1>6 DEF ObserveStop
  <2>3. unowned = state \/ unowned = "idle"
    OBVIOUS
  <2> HIDE DEF rest, unowned
  <2> QED BY <2>1, <2>2, <2>3, LeaseClose
<1> QED
  BY <1>1, <1>2, <1>3, <1>4, <1>5, <1>6 DEF Operation

\* A new process takes over what the journal says it owes.
LEMMA LeaseReconcile == LeaseInv /\ TypeOK' /\ Start => LeaseInv'
<1> SUFFICES ASSUME LeaseInv, TypeOK', NEW running \in SUBSET Apps, Reconcile(running) PROVE LeaseInv'
  BY DEF Start
<1> USE DEF LeaseInv, ChangesAreOnRecord, IdleOwesNothing, DeadIsBlank, HeldWhileChanging,
         DebtIsHeld, PaidBack, StartPending, SessionsInside, Free, CommandSteps
<1>1. /\ pc = "free" /\ ~owned /\ sessions = {} /\ state = "idle" /\ op = NoOp
      /\ ~up /\ up' = TRUE /\ UNCHANGED <<host, durable>>
  BY DEF Reconcile
<1>2. CASE ReconcileNothing
  BY <1>1, <1>2 DEF ReconcileNothing, host, durable
<1>3. CASE ReconcileFinished
  BY <1>1, <1>3, BeginFields DEF ReconcileFinished, host, durable, memory
<1>4. CASE ReconcileAmbiguous
  BY <1>1, <1>4 DEF ReconcileAmbiguous, host, durable
<1>5. CASE ReconcileOwned(running)
  BY <1>1, <1>5, BeginFields DEF ReconcileOwned, Restoring, host, durable
<1> QED BY <1>2, <1>3, <1>4, <1>5 DEF Reconcile

\* The end of an operation that has not changed what is owed or on record.
LEMMA LeaseReturn ==
  ASSUME LeaseInv, TypeOK', ChangesAreOnRecord', pc # "free",
         NEW ok \in BOOLEAN, NEW s \in States, NEW o \in BOOLEAN, Return(ok, s, o),
         s = "idle" => debt' = {} /\ sessions = {} /\ ~o,
         debt' # {} => o /\ before = journal'.before,
         o => owned,
         o /\ sessions = {} => s = "recovery-required"
  PROVE  LeaseInv'
  BY BeginFields DEF Return, Exit, LeaseInv, ChangesAreOnRecord, IdleOwesNothing, DeadIsBlank, HeldWhileChanging,
         DebtIsHeld, PaidBack, StartPending, SessionsInside, Free, CommandSteps

\* The refused preflight has changed nothing, and a snapshot is taken with nothing owed.
LEMMA LeaseSnapshot == LeaseInv /\ TypeOK' /\ TakeSnapshot => LeaseInv'
<1> SUFFICES ASSUME LeaseInv, TypeOK', TakeSnapshot PROVE LeaseInv'
  OBVIOUS
<1>1. /\ pc = "preflight" /\ UNCHANGED <<host, durable>>
      /\ ~owned /\ up /\ debt = {} /\ sessions = {}
  BY DEF TakeSnapshot, LeaseInv, DeadIsBlank, HeldWhileChanging, PaidBack, SessionsInside
<1>2. ChangesAreOnRecord'
  BY <1>1 DEF ChangesAreOnRecord, host
<1>3. CASE Return(FALSE, state, owned)
  <2>1. state \in States /\ owned \in BOOLEAN
    BY DEF LeaseInv, TypeOK
  <2> QED BY <1>1, <1>2, <1>3, <2>1, LeaseReturn DEF host
<1>4. CASE ~Return(FALSE, state, owned)
  <2>1. /\ owned' /\ state' = "switching-to-emulation" /\ pc' = "journal_activation"
        /\ UNCHANGED <<up, op, sessions>>
    BY <1>4 DEF TakeSnapshot
  <2> QED BY <1>1, <1>2, <2>1 DEF host, LeaseInv, IdleOwesNothing, DeadIsBlank, HeldWhileChanging,
         DebtIsHeld, PaidBack, StartPending, SessionsInside, Free, CommandSteps
<1> QED BY <1>3, <1>4

\* The write before the first modprobe establishes the record that the modules are changed under.
LEMMA LeaseJournalActivation == LeaseInv /\ TypeOK' /\ JournalActivation => LeaseInv'
<1> SUFFICES ASSUME LeaseInv, TypeOK', JournalActivation PROVE LeaseInv'
  OBVIOUS
<1>1. PICK ok \in BOOLEAN :
        /\ Write(op.pending, ok)
        /\ IF ok THEN Goto("remove_kvm_amd") ELSE Return(FALSE, "idle", FALSE)
  BY DEF JournalActivation
<1>2. /\ pc = "journal_activation" /\ UNCHANGED host
      /\ owned /\ up /\ debt = {} /\ sessions = {}
  BY DEF JournalActivation, LeaseInv, ChangesAreOnRecord, IdleOwesNothing, DeadIsBlank, HeldWhileChanging,
         DebtIsHeld, PaidBack, StartPending, SessionsInside, CommandSteps
<1>3. CASE ok
  BY <1>1, <1>2, <1>3 DEF Write, Replace, Goto, host, memory, LeaseInv, ChangesAreOnRecord, IdleOwesNothing, DeadIsBlank, HeldWhileChanging,
         DebtIsHeld, PaidBack, StartPending, SessionsInside, Free, CommandSteps
<1>4. CASE ~ok
  <2>1. ChangesAreOnRecord'
    BY <1>2 DEF ChangesAreOnRecord, host
  <2> QED BY <1>1, <1>2, <1>4, <2>1, LeaseReturn DEF host, States
<1> QED BY <1>3, <1>4

\* A write of the current snapshot keeps what is owed on record.
LEMMA WriteOnRecord ==
  ASSUME LeaseInv, up, owned, UNCHANGED host, NEW ss, NEW ok \in BOOLEAN, Write(ss, ok)
  PROVE  /\ ChangesAreOnRecord'
         /\ debt' # {} => before = journal'.before
         /\ ok => journal'.exists /\ journal'.owned /\ journal'.before = before
  BY DEF Write, Replace, host, LeaseInv, ChangesAreOnRecord, DebtIsHeld

\* Persisting the sessions of an active controller keeps the invariant.
LEMMA LeasePersist == LeaseInv /\ TypeOK' /\ PersistSessions => LeaseInv'
<1> SUFFICES ASSUME LeaseInv, TypeOK', PersistSessions PROVE LeaseInv'
  OBVIOUS
<1> DEFINE s(ok) == IF ~ok /\ op.kind = "start" THEN "recovery-required" ELSE state
<1>1. PICK ok \in BOOLEAN : Write(sessions, ok) /\ Return(ok, s(ok), owned)
  BY DEF PersistSessions
<1>2. /\ pc = "persist" /\ UNCHANGED host
      /\ owned /\ up /\ sessions # {} /\ state # "idle"
  BY DEF PersistSessions, LeaseInv, ChangesAreOnRecord, IdleOwesNothing, DeadIsBlank, HeldWhileChanging,
         DebtIsHeld, PaidBack, StartPending, SessionsInside, CommandSteps
<1>3. s(ok) \in States /\ s(ok) # "idle" /\ owned \in BOOLEAN
  BY <1>2 DEF LeaseInv, TypeOK, States
<1> HIDE DEF s
<1> QED BY <1>1, <1>2, <1>3, WriteOnRecord, LeaseReturn

\* The write before a restore keeps the invariant, whether or not it succeeds.
LEMMA LeaseJournalRestore == LeaseInv /\ TypeOK' /\ JournalRestore => LeaseInv'
<1> SUFFICES ASSUME LeaseInv, TypeOK', JournalRestore PROVE LeaseInv'
  OBVIOUS
<1>1. PICK ok \in BOOLEAN :
        /\ Write(sessions, ok)
        /\ IF ok THEN Goto("unload_emulation") ELSE Return(FALSE, "recovery-required", owned)
  BY DEF JournalRestore
<1>2. /\ pc = "journal_restore" /\ UNCHANGED host
      /\ owned /\ up /\ sessions = {} /\ state # "idle"
  BY DEF JournalRestore, LeaseInv, ChangesAreOnRecord, IdleOwesNothing, DeadIsBlank, HeldWhileChanging,
         DebtIsHeld, PaidBack, StartPending, SessionsInside, CommandSteps
<1>3. CASE ok
  BY <1>1, <1>2, <1>3, WriteOnRecord DEF Goto, host, memory, LeaseInv, ChangesAreOnRecord, IdleOwesNothing, DeadIsBlank, HeldWhileChanging,
         DebtIsHeld, PaidBack, StartPending, SessionsInside, Free, CommandSteps
<1>4. CASE ~ok
  BY <1>1, <1>2, <1>4, WriteOnRecord, LeaseReturn DEF States
<1> QED BY <1>3, <1>4

\* The journal is removed with nothing owed, so what a failed removal leaves does no harm.
LEMMA LeaseClear == LeaseInv /\ TypeOK' /\ (ClearJournal \/ DiscardJournal) => LeaseInv'
<1> SUFFICES ASSUME LeaseInv, TypeOK', ClearJournal \/ DiscardJournal PROVE LeaseInv'
  OBVIOUS
<1>1. /\ pc \in {"clear", "discard"} /\ UNCHANGED host /\ up /\ sessions = {}
      /\ debt = {} /\ (pc = "clear" => owned)
  BY DEF ClearJournal, DiscardJournal, LeaseInv, ChangesAreOnRecord, IdleOwesNothing, DeadIsBlank, HeldWhileChanging,
         DebtIsHeld, PaidBack, StartPending, SessionsInside, CommandSteps
<1>2. PICK ok \in BOOLEAN, s \in {"idle", "recovery-required"}, o \in BOOLEAN :
        Clear(ok) /\ Return(ok, s, o) /\ (o => pc = "clear" /\ s = "recovery-required")
  BY DEF ClearJournal, DiscardJournal
<1>3. ChangesAreOnRecord'
  BY <1>1 DEF ChangesAreOnRecord, host
<1> QED BY <1>1, <1>2, <1>3, LeaseReturn DEF host, States

\* The three steps that change modules away from the snapshot.
LEMMA LeaseChange ==
  ASSUME LeaseInv, TypeOK', ChangesAreOnRecord',
         pc \in {"remove_kvm_amd", "remove_kvm", "load_emulation"},
         NEW next \in {"remove_kvm", "load_emulation"}, Goto(next) \/ Rollback,
         UNCHANGED <<journal, crashes>>
  PROVE  LeaseInv'
<1>1. op'.kind = op.kind /\ op'.pending = op.pending
  BY DEF Goto, Rollback, LeaseInv, TypeOK, Op
<1>2. pc' \in {"remove_kvm", "load_emulation", "unload_emulation"} /\ UNCHANGED <<up, memory>>
  BY DEF Goto, Rollback
<1> QED
  BY <1>1, <1>2 DEF memory, LeaseInv, ChangesAreOnRecord, IdleOwesNothing, DeadIsBlank, HeldWhileChanging,
         DebtIsHeld, PaidBack, StartPending, SessionsInside, Free, CommandSteps

\* Removing the KVM modules keeps the invariant.
LEMMA LeaseRemove == LeaseInv /\ TypeOK' /\ (RemoveKvmAmd \/ RemoveKvm) => LeaseInv'
<1> SUFFICES ASSUME LeaseInv, TypeOK', RemoveKvmAmd \/ RemoveKvm PROVE LeaseInv'
  OBVIOUS
<1>1. PICK m \in {KVM, KVMAMD}, next \in {"remove_kvm", "load_emulation"} : RemoveStep(pc, m, next)
  BY DEF RemoveKvmAmd, RemoveKvm, RemoveStep
<1>2. pc \in {"remove_kvm_amd", "remove_kvm"}
  BY DEF RemoveKvmAmd, RemoveKvm, RemoveStep
<1>3. journal.exists /\ journal.owned /\ journal.before = before /\ UNCHANGED <<durable, crashes>>
  BY <1>1, <1>2 DEF RemoveStep, LeaseInv, HeldWhileChanging, DebtIsHeld, CommandSteps
<1>4. CASE UNCHANGED host /\ Goto(next)
  BY <1>2, <1>3, <1>4, LeaseChange DEF host, durable, LeaseInv, ChangesAreOnRecord
<1>5. ASSUME NEW ok \in BOOLEAN, m \in before, ModuleCommand(FALSE, m, ok), IF ok THEN Goto(next) ELSE Rollback
      PROVE  LeaseInv'
  <2>1. ChangesAreOnRecord'
    BY <1>3, <1>5, CommandOnRecord DEF durable, LeaseInv
  <2> QED BY <1>2, <1>3, <1>5, <2>1, LeaseChange DEF durable
<1> QED BY <1>1, <1>4, <1>5 DEF RemoveStep

\* Loading the emulation keeps the invariant, in a start, a test and a failure.
LEMMA LeaseLoad == LeaseInv /\ TypeOK' /\ LoadEmulation => LeaseInv'
<1> SUFFICES ASSUME LeaseInv, TypeOK', LoadEmulation PROVE LeaseInv'
  OBVIOUS
<1>1. PICK ok \in BOOLEAN :
        /\ ModuleCommand(TRUE, EMU, ok)
        /\ \/ ~ok /\ Rollback
           \/ /\ ok /\ op.kind = "start"
              /\ state' = "emulation-active" /\ sessions' = op.pending /\ pc' = "persist"
              /\ UNCHANGED <<up, op, owned, before>>
           \/ /\ ok /\ op.kind = "test"
              /\ Restoring /\ UNCHANGED <<up, op, owned, before, sessions>>
  BY DEF LoadEmulation
<1>2. /\ pc = "load_emulation" /\ UNCHANGED <<journal, crashes>>
      /\ journal.exists /\ journal.owned /\ journal.before = before
      /\ up /\ owned /\ sessions = {}
  BY DEF LoadEmulation, LeaseInv, ChangesAreOnRecord, IdleOwesNothing, DeadIsBlank, HeldWhileChanging,
         DebtIsHeld, PaidBack, StartPending, SessionsInside, CommandSteps
<1>3. ChangesAreOnRecord'
  BY <1>1, <1>2, CommandOnRecord DEF LeaseInv
<1>4. CASE Rollback
  BY <1>2, <1>3, <1>4, LeaseChange
<1>5. CASE Restoring /\ UNCHANGED <<up, op, owned, before, sessions>>
  BY <1>2, <1>3, <1>5 DEF Restoring, LeaseInv, ChangesAreOnRecord, IdleOwesNothing, DeadIsBlank, HeldWhileChanging,
         DebtIsHeld, PaidBack, StartPending, SessionsInside, Free, CommandSteps
<1>6. CASE /\ op.kind = "start" /\ state' = "emulation-active" /\ sessions' = op.pending /\ pc' = "persist"
           /\ UNCHANGED <<up, op, owned, before>>
  <2>1. op.pending # {}
    BY <1>2, <1>6 DEF LeaseInv, StartPending, CommandSteps
  <2> QED BY <1>2, <1>3, <1>6, <2>1 DEF LeaseInv, ChangesAreOnRecord, IdleOwesNothing, DeadIsBlank, HeldWhileChanging,
         DebtIsHeld, PaidBack, StartPending, SessionsInside, Free, CommandSteps
<1> QED BY <1>1, <1>4, <1>5, <1>6

\* The steps that give one module back, in a restore or a rollback.
LEMMA LeaseRestore ==
  ASSUME LeaseInv, TypeOK',
         NEW here, NEW load \in BOOLEAN, NEW m \in Modules, NEW needed,
         NEW next, RestoreStep(here, load, m, needed, next),
         \/ /\ here = "unload_emulation" /\ ~load /\ m = EMU /\ next = "reload_kvm_amd"
            /\ needed <=> (EMU \notin before /\ EMU \in loaded)
         \/ /\ here = "reload_kvm_amd" /\ load /\ m = KVMAMD /\ next = "reload_kvm"
            /\ needed <=> KVMAMD \in before \ loaded
         \/ /\ here = "reload_kvm" /\ load /\ m = KVM /\ next = "clear"
            /\ needed <=> KVM \in before \ loaded
  PROVE  LeaseInv'
<1>1. /\ pc = here /\ UNCHANGED <<durable, crashes>> /\ pc \in CommandSteps
      /\ journal.exists /\ journal.owned /\ journal.before = before
      /\ up /\ owned /\ sessions = {} /\ state # "idle"
  BY DEF RestoreStep, LeaseInv, ChangesAreOnRecord, IdleOwesNothing, DeadIsBlank, HeldWhileChanging,
         DebtIsHeld, PaidBack, StartPending, SessionsInside, CommandSteps
<1>2. \/ ~needed /\ Goto(next) /\ UNCHANGED host
      \/ needed /\ \E ok \in BOOLEAN :
           ModuleCommand(load, m, ok) /\ IF ok THEN Goto(next) ELSE Return(FALSE, "recovery-required", owned)
  BY DEF RestoreStep
<1>3. /\ here = "reload_kvm_amd" => EMU \notin debt
      /\ here = "reload_kvm" => debt \subseteq {KVM}
      /\ debt \subseteq Modules
  BY <1>1 DEF LeaseInv, PaidBack, TypeOK
<1>4. ASSUME Goto(next), ChangesAreOnRecord', debt' \subseteq debt \ {m} PROVE LeaseInv'
  BY <1>1, <1>3, <1>4 DEF durable, Goto, memory, LeaseInv, ChangesAreOnRecord, IdleOwesNothing, DeadIsBlank, HeldWhileChanging,
         DebtIsHeld, PaidBack, StartPending, SessionsInside, Free, CommandSteps
<1>5. CASE ~needed /\ Goto(next) /\ UNCHANGED host
  <2>1. m \notin debt
    BY <1>1, <1>5 DEF LeaseInv, ChangesAreOnRecord
  <2> QED BY <1>1, <1>4, <1>5, <2>1 DEF host, durable, LeaseInv, ChangesAreOnRecord
<1>6. ASSUME needed, NEW ok \in BOOLEAN, ModuleCommand(load, m, ok),
             IF ok THEN Goto(next) ELSE Return(FALSE, "recovery-required", owned)
      PROVE  LeaseInv'
  <2>1. ChangesAreOnRecord'
    BY <1>1, <1>6, CommandOnRecord DEF durable, LeaseInv
  <2>2. debt' \subseteq debt /\ (ok => m \notin debt')
    BY <1>1, <1>6, CommandPays DEF LeaseInv
  <2>3. CASE ok
    BY <1>4, <1>6, <2>1, <2>2, <2>3
  <2>4. CASE ~ok
    BY <1>1, <1>6, <2>1, <2>2, <2>4, LeaseReturn DEF durable, States, CommandSteps
  <2> QED BY <2>3, <2>4
<1> QED BY <1>2, <1>5, <1>6

\* Every step of an operation under way keeps the invariant.
LEMMA LeaseStep == LeaseInv /\ TypeOK' /\ Step => LeaseInv'
<1>1. LeaseInv /\ TypeOK' /\ UnloadEmulation => LeaseInv'
  BY LeaseRestore DEF UnloadEmulation
<1>2. LeaseInv /\ TypeOK' /\ ReloadKvmAmd => LeaseInv'
  BY LeaseRestore DEF ReloadKvmAmd
<1>3. LeaseInv /\ TypeOK' /\ ReloadKvm => LeaseInv'
  BY LeaseRestore DEF ReloadKvm
<1> QED
  BY <1>1, <1>2, <1>3, LeaseSnapshot, LeaseJournalActivation, LeaseRemove, LeaseLoad, LeasePersist, LeaseJournalRestore, LeaseClear DEF Step

\* Kills, reboots, virtual machines and meddling keep the invariant.
LEMMA LeaseEnvironment == LeaseInv /\ TypeOK' /\ Environment => LeaseInv'
<1> SUFFICES ASSUME LeaseInv, TypeOK', Environment PROVE LeaseInv'
  OBVIOUS
<1>1. CASE Cancel
  <2>1. op'.kind = op.kind /\ op'.pending = op.pending
    BY <1>1 DEF Cancel, LeaseInv, TypeOK, Op
  <2>2. pc # "free" /\ up /\ UNCHANGED <<host, durable, process, pc, memory>>
    BY <1>1 DEF Cancel, LeaseInv, DeadIsBlank
  <2> QED BY <2>1, <2>2 DEF host, durable, process, memory, LeaseInv, ChangesAreOnRecord, IdleOwesNothing, DeadIsBlank, HeldWhileChanging,
         DebtIsHeld, PaidBack, StartPending, SessionsInside, Free, CommandSteps
<1>2. CASE Kill \/ Reboot
  <2>1. ChangesAreOnRecord'
    BY <1>2 DEF Kill, Reboot, host, durable, LeaseInv, ChangesAreOnRecord
  <2> QED BY <1>2, <2>1, BeginFields DEF Kill, Reboot, Exit, host, durable, LeaseInv, ChangesAreOnRecord, IdleOwesNothing, DeadIsBlank, HeldWhileChanging,
         DebtIsHeld, PaidBack, StartPending, SessionsInside, Free, CommandSteps
<1>3. CASE VirtualMachine
  BY <1>3 DEF VirtualMachine, durable, process, memory, LeaseInv, ChangesAreOnRecord, IdleOwesNothing, DeadIsBlank, HeldWhileChanging,
         DebtIsHeld, PaidBack, StartPending, SessionsInside, Free, CommandSteps
<1>4. CASE Meddle
  <2>1. debt' \subseteq debt /\ \A m \in debt' : m \in loaded' <=> m \in loaded
    BY <1>4 DEF Meddle, Changed
  <2>2. UNCHANGED <<journal, pc, op, up, state, owned, before, sessions>>
    BY <1>4 DEF Meddle, durable, process, memory
  <2> QED BY <2>1, <2>2 DEF LeaseInv, ChangesAreOnRecord, IdleOwesNothing, DeadIsBlank, HeldWhileChanging,
         DebtIsHeld, PaidBack, StartPending, SessionsInside, Free, CommandSteps
<1> QED BY <1>1, <1>2, <1>3, <1>4 DEF Environment

\* The invariant behind the safety properties: what each point of an operation may
\* rely on of the journal, the modules and the memory of the process.
THEOREM LeaseInvariant == Spec => []LeaseInv
<1>1. LeaseInv /\ TypeOK' /\ [Next]_vars => LeaseInv'
  <2>1. LeaseInv /\ TypeOK' /\ UNCHANGED vars => LeaseInv'
    BY DEF vars, host, durable, process, memory, LeaseInv, ChangesAreOnRecord, IdleOwesNothing, DeadIsBlank, HeldWhileChanging,
         DebtIsHeld, PaidBack, StartPending, SessionsInside, Free
  <2> QED BY <2>1, LeaseOperation, LeaseReconcile, LeaseStep, LeaseEnvironment DEF Next
<1> QED BY LeaseInit, TypeCorrect, <1>1, PTL DEF Spec

\* Whatever is killed, fails or is meddled with, at any point of any history:
\* what the controller changed and has not undone is on record as its own.
THEOREM ChangesStayOnRecord == Spec => []ChangesAreOnRecord
BY LeaseInvariant, PTL DEF LeaseInv

\* A controller that reports idle owes the host nothing.
THEOREM IdleIsRestored == Spec => []IdleOwesNothing
BY LeaseInvariant, PTL DEF LeaseInv

-----------------------------------------------------------------------------
(* What the journal says of sessions, and what is left alone.              *)

\* An operation that returns, or a process that exits.
LEMMA Returned ==
  ASSUME NEW ok, NEW s, NEW o, Return(ok, s, o)
  PROVE  /\ pc' = "free"
         /\ \/ ~up' /\ state' = "idle" /\ ~owned' /\ sessions' = {}
            \/ /\ op.kind = "reconcile" => ok
               /\ state' = s /\ owned' = o /\ UNCHANGED <<up, before, sessions>>
  BY DEF Return, Exit

\* The preflight runs without ownership, and either ends there or begins the activation.
LEMMA Preflight ==
  ASSUME LeaseInv, TakeSnapshot
  PROVE  /\ pc = "preflight" /\ up /\ ~owned /\ UNCHANGED <<host, durable, meddled>>
         /\ \/ pc' = "free" /\ ~owned'
            \/ /\ pc' = "journal_activation" /\ up' /\ before' = loaded
               /\ state' = "switching-to-emulation"
<1>1. pc = "preflight" /\ up /\ ~owned /\ UNCHANGED <<host, durable, meddled>>
  BY DEF TakeSnapshot, LeaseInv, DeadIsBlank, HeldWhileChanging
<1>2. Return(FALSE, state, owned) => pc' = "free" /\ ~owned'
  BY <1>1 DEF Return, Exit
<1> QED BY <1>1, <1>2 DEF TakeSnapshot

\* No other step but the write of the sessions and the load of the emulation ends in an
\* active controller.
LEMMA Quieting ==
  ASSUME Step, ~TakeSnapshot, ~PersistSessions, ~LoadEmulation
  PROVE  \/ pc' \in CommandSteps \cup {"clear"} /\ UNCHANGED <<up, memory>>
         \/ pc' = "free" /\ state' \in {"idle", "recovery-required"}
<1>1. CASE JournalActivation \/ JournalRestore \/ ClearJournal \/ DiscardJournal
  BY <1>1, Returned DEF JournalActivation, JournalRestore, ClearJournal, DiscardJournal, Goto, CommandSteps
<1>2. CASE RemoveKvmAmd \/ RemoveKvm
  BY <1>2 DEF RemoveKvmAmd, RemoveKvm, RemoveStep, Goto, Rollback, CommandSteps
<1>3. CASE UnloadEmulation \/ ReloadKvmAmd \/ ReloadKvm
  BY <1>3, Returned DEF UnloadEmulation, ReloadKvmAmd, ReloadKvm, RestoreStep, Goto, CommandSteps
<1> QED
  BY <1>1, <1>2, <1>3 DEF Step

\* Before a write that takes sessions away or attaches one, those that stay are on record already;
\* so nothing is lost if it fails.
SessionsInv ==
  /\ SessionsAreOnRecord
  /\ pc = "persist" /\ state = "emulation-active" /\ op.kind # "start" =>
       Ids(sessions) \subseteq Ids(journal.sessions)

\* Closing sessions, or attaching one, adds none to those on record.
LEMMA FewerIds == \A ss, tt : ss \subseteq tt => Ids(ss) \subseteq Ids(tt)
  BY DEF Ids

LEMMA SessionsOperation == LeaseInv /\ SessionsInv /\ Operation => SessionsInv'
<1> SUFFICES ASSUME LeaseInv, SessionsInv, Operation PROVE SessionsInv'
  OBVIOUS
<1>1. ASSUME pc' \in {"preflight", "journal_restore"} \/ (~up' /\ pc' = "free") PROVE SessionsInv'
  BY <1>1 DEF SessionsInv, SessionsAreOnRecord, Free
<1>2. ASSUME Free, ~owned, ~owned', pc' = "free" PROVE SessionsInv'
  BY <1>2 DEF SessionsInv, SessionsAreOnRecord, Free
<1>3. ASSUME Free, owned, UNCHANGED <<journal, state>>, pc' = "persist", Ids(sessions') \subseteq Ids(sessions)
      PROVE  SessionsInv'
  BY <1>3 DEF SessionsInv, SessionsAreOnRecord, Free
<1>4. ASSUME NEW kind, NEW rest, NEW s, rest \subseteq sessions, Free, Close(kind, rest, s) PROVE SessionsInv'
  <2>1. sessions' = rest /\ UNCHANGED <<journal, owned>> /\ pc = "free"
    BY <1>4 DEF Close, durable, Free
  <2>2. \/ owned /\ pc' = "persist" /\ UNCHANGED state
        \/ pc' = "journal_restore"
        \/ ~owned /\ pc' = pc
    BY <1>4 DEF Close, Restoring
  <2>3. CASE owned /\ pc' = "persist" /\ UNCHANGED state
    BY <1>3, <1>4, <2>1, <2>3, FewerIds
  <2>4. CASE pc' = "journal_restore"
    BY <1>1, <2>4
  <2>5. CASE ~owned /\ pc' = pc
    BY <1>2, <1>4, <2>1, <2>5
  <2> QED
    BY <2>2, <2>3, <2>4, <2>5
<1>5. CASE TestModule \/ Shutdown
  <2>1. pc' \in {"preflight", "journal_restore"} \/ Exit
    BY <1>5 DEF TestModule, Shutdown, Activate, Restoring
  <2>2. Exit => ~up' /\ pc' = "free"
    BY DEF Exit
  <2> QED
    BY <1>1, <2>1, <2>2
<1>6. ASSUME NEW id \in SessionIds, EndSession(id) PROVE SessionsInv'
  BY <1>4, <1>6 DEF EndSession
<1>7. ASSUME NEW id \in SessionIds, NEW app \in Apps, StartSession(app, id) PROVE SessionsInv'
  <2>1. PICK s : /\ Free /\ UNCHANGED <<host, durable, process>>
                 /\ JoinSession(s) \/ BorrowEmulation(s) \/ ActivateSession(s)
    BY <1>7 DEF StartSession
  <2>2. CASE JoinSession(s)
    <3>1. CASE ~owned
      BY <1>2, <2>1, <2>2, <3>1 DEF JoinSession, Free
    <3>2. CASE owned
      BY <2>2, <3>2, BeginFields DEF JoinSession, SessionsInv, SessionsAreOnRecord, Free
    <3> QED
      BY <3>1, <3>2
  <2>3. CASE BorrowEmulation(s)
    BY <1>2, <2>1, <2>3 DEF BorrowEmulation, Free
  <2>4. CASE ActivateSession(s)
    BY <1>1, <2>4 DEF ActivateSession, Activate
  <2> QED
    BY <2>1, <2>2, <2>3, <2>4
<1>8. ASSUME NEW app \in Apps, NEW inst \in Instances \cup {Unattached}, ObserveRunning(app, inst) PROVE SessionsInv'
  <2>1. PICK s \in sessions : sessions' = (sessions \ {s}) \cup {[s EXCEPT !.inst = inst]}
    BY <1>8 DEF ObserveRunning
  <2>2. [s EXCEPT !.inst = inst].id = s.id
    BY DEF LeaseInv, TypeOK, Session
  <2>3. Ids(sessions') \subseteq Ids(sessions)
    BY <2>1, <2>2 DEF Ids
  <2> QED
    BY <1>2, <1>3, <1>8, <2>3 DEF ObserveRunning, durable, Free
<1>9. ASSUME NEW app \in Apps, NEW inst \in Instances \cup {Unattached}, ObserveStop(app, inst) PROVE SessionsInv'
  <2>1. PICK rest, s : rest \subseteq sessions /\ Free /\ Close("lifetime", rest, s)
    BY <1>9 DEF ObserveStop
  <2> QED
    BY <1>4, <2>1
<1> QED
  BY <1>5, <1>6, <1>7, <1>8, <1>9 DEF Operation

LEMMA SessionsStep == LeaseInv /\ SessionsInv /\ Step => SessionsInv'
<1> SUFFICES ASSUME LeaseInv, SessionsInv, Step PROVE SessionsInv'
  OBVIOUS
<1>1. CASE ~TakeSnapshot /\ ~PersistSessions /\ ~LoadEmulation
  BY <1>1, Quieting DEF SessionsInv, SessionsAreOnRecord, Free, CommandSteps
<1>2. CASE LoadEmulation
  BY <1>2 DEF LoadEmulation, Rollback, Restoring, SessionsInv, SessionsAreOnRecord, Free
<1>3. CASE PersistSessions
  <2>1. PICK ok \in BOOLEAN : /\ Write(sessions, ok)
                              /\ Return(ok, IF ~ok /\ op.kind = "start" THEN "recovery-required" ELSE state, owned)
    BY <1>3 DEF PersistSessions
  <2>2. journal'.sessions = sessions \/ (~ok /\ journal' = journal)
    BY <2>1 DEF Write, Replace
  <2>3. pc = "persist"
    BY <1>3 DEF PersistSessions
  <2> QED
    BY <2>1, <2>2, <2>3, Returned DEF SessionsInv, SessionsAreOnRecord, Free
<1>4. CASE TakeSnapshot
  BY <1>4, Preflight DEF SessionsInv, SessionsAreOnRecord, Free
<1> QED
  BY <1>1, <1>2, <1>3, <1>4

LEMMA SessionsNext == LeaseInv /\ SessionsInv /\ [Next]_vars => SessionsInv'
<1> SUFFICES ASSUME LeaseInv, SessionsInv, [Next]_vars PROVE SessionsInv'
  OBVIOUS
<1>1. CASE Start
  <2>1. PICK running \in SUBSET Apps : Reconcile(running)
    BY <1>1 DEF Start
  <2>2. ~owned /\ pc = "free"
    BY <2>1 DEF Reconcile, LeaseInv, DeadIsBlank
  <2>3. CASE ReconcileNothing \/ ReconcileFinished \/ ReconcileAmbiguous
    BY <2>2, <2>3 DEF ReconcileNothing, ReconcileFinished, ReconcileAmbiguous, memory, SessionsInv, SessionsAreOnRecord, Free
  <2>4. CASE ReconcileOwned(running)
    <3>1. sessions' \subseteq journal.sessions /\ UNCHANGED journal /\ pc' \in {"persist", "journal_restore"}
      BY <2>1, <2>4 DEF Reconcile, ReconcileOwned, Restoring, durable
    <3> QED
      BY <3>1, FewerIds DEF SessionsInv, SessionsAreOnRecord, Free
  <2> QED
    BY <2>1, <2>3, <2>4 DEF Reconcile
<1>2. CASE Environment
  <2>1. CASE Cancel
    <3>1. op'.kind = op.kind
      BY <2>1 DEF Cancel, LeaseInv, TypeOK, Op
    <3> QED
      BY <2>1, <3>1 DEF Cancel, durable, process, memory, SessionsInv, SessionsAreOnRecord, Free
  <2>2. CASE Kill \/ Reboot
    BY <2>2 DEF Kill, Reboot, Exit, SessionsInv, SessionsAreOnRecord, Free
  <2>3. CASE VirtualMachine \/ Meddle
    BY <2>3 DEF VirtualMachine, Meddle, durable, process, memory, SessionsInv, SessionsAreOnRecord, Free
  <2> QED
    BY <1>2, <2>1, <2>2, <2>3 DEF Environment
<1>3. CASE UNCHANGED vars
  BY <1>3 DEF vars, durable, process, memory, SessionsInv, SessionsAreOnRecord, Free
<1> QED
  BY <1>1, <1>2, <1>3, SessionsOperation, SessionsStep DEF Next

\* A kill forgets no game: every session of an active controller at rest is in the journal,
\* whichever writes failed.
THEOREM SessionsStayOnRecord == Spec => []SessionsAreOnRecord
<1>1. Init => SessionsInv
  BY DEF Init, SessionsInv, SessionsAreOnRecord, Free
<1>2. SessionsInv => SessionsAreOnRecord
  BY DEF SessionsInv
<1> QED
  BY <1>1, <1>2, SessionsNext, LeaseInvariant, PTL DEF Spec

\* While a record without ownership stands, the controller holds no session that could end.
AmbiguityInv ==
  /\ up /\ journal.exists /\ ~journal.owned =>
       \/ pc = "discard"
       \/ pc = "free" /\ state = "recovery-required" /\ ~owned /\ sessions = {}
  /\ pc = "discard" => op.kind = "reconcile"

LEMMA AmbiguityOperation == LeaseInv /\ AmbiguityInv /\ Operation => AmbiguityInv'
<1> SUFFICES ASSUME LeaseInv, AmbiguityInv, Operation PROVE AmbiguityInv'
  OBVIOUS
<1>1. Free /\ UNCHANGED journal
  BY DEF Operation, TestModule, Shutdown, EndSession, StartSession, ObserveRunning, ObserveStop, Close, durable, Free
<1>2. pc' # "discard"
  BY <1>1 DEF Operation, TestModule, Shutdown, EndSession, StartSession, ObserveRunning, ObserveStop, Close,
              JoinSession, BorrowEmulation, ActivateSession, Activate, Restoring, Exit, Free
<1>3. CASE ~(journal.exists /\ ~journal.owned)
  BY <1>1, <1>2, <1>3 DEF AmbiguityInv
<1>4. CASE journal.exists /\ ~journal.owned
  <2>1. pc = "free" /\ state = "recovery-required" /\ ~owned /\ sessions = {}
    BY <1>1, <1>4 DEF AmbiguityInv, Free
  <2>2. CASE Shutdown
    BY <1>1, <1>2, <2>1, <2>2 DEF Shutdown, Exit, AmbiguityInv
  <2>3. ASSUME NEW app \in Apps, NEW inst \in Instances \cup {Unattached}, ObserveStop(app, inst) PROVE AmbiguityInv'
    <3>1. PICK rest : rest \subseteq sessions /\ Close("lifetime", rest, state)
      BY <2>1, <2>3 DEF ObserveStop
    <3> QED
      BY <1>2, <2>1, <3>1 DEF Close, AmbiguityInv
  <2>4. ~TestModule /\ \A id, app, inst : ~EndSession(id) /\ ~StartSession(app, id) /\ ~ObserveRunning(app, inst)
    BY <2>1 DEF TestModule, EndSession, StartSession, ObserveRunning
  <2> QED
    BY <2>2, <2>3, <2>4 DEF Operation
<1> QED
  BY <1>3, <1>4

LEMMA AmbiguityStep == LeaseInv /\ AmbiguityInv /\ Step => AmbiguityInv'
<1> SUFFICES ASSUME LeaseInv, AmbiguityInv, Step PROVE AmbiguityInv'
  OBVIOUS
<1>1. up /\ pc # "free"
  BY DEF LeaseInv, DeadIsBlank, Step, TakeSnapshot, JournalActivation, RemoveKvmAmd, RemoveKvm, RemoveStep, LoadEmulation, PersistSessions,
         JournalRestore, UnloadEmulation, ReloadKvmAmd, ReloadKvm, RestoreStep, ClearJournal, DiscardJournal
<1>2. CASE DiscardJournal
  <2>1. PICK ok \in BOOLEAN : Clear(ok) /\ Return(ok, "idle", FALSE)
    BY <1>2 DEF DiscardJournal
  <2>2. CASE ok
    <3>1. ~journal'.exists
      BY <2>1, <2>2 DEF Clear, Replace, NoRecord
    <3> QED
      BY <2>1, <3>1, Returned DEF AmbiguityInv
  <2>3. CASE ~ok
    BY <1>2, <2>1, <2>3, Returned DEF DiscardJournal, AmbiguityInv
  <2> QED
    BY <2>2, <2>3
<1>3. CASE ~DiscardJournal /\ ~TakeSnapshot
  <2>1. pc \notin {"free", "preflight", "discard"} /\ pc' # "discard"
    BY <1>3, Returned
    DEF Step, JournalActivation, RemoveKvmAmd, RemoveKvm, RemoveStep, LoadEmulation, PersistSessions, JournalRestore,
        UnloadEmulation, ReloadKvmAmd, ReloadKvm, RestoreStep, ClearJournal, Goto, Rollback, Restoring, CommandSteps
  <2>2. owned /\ ~(journal.exists /\ ~journal.owned)
    BY <1>1, <2>1 DEF LeaseInv, HeldWhileChanging, AmbiguityInv
  <2>3. journal' = journal \/ journal'.owned \/ ~journal'.exists
    <3>1. \A ss, ok : Write(ss, ok) \/ Clear(ok) => journal' = journal \/ journal'.owned \/ ~journal'.exists
      BY <2>2 DEF Write, Clear, Replace, NoRecord
    <3>2. \/ UNCHANGED journal
          \/ \E ss, ok : Write(ss, ok) \/ Clear(ok)
      BY <1>3
      DEF Step, JournalActivation, RemoveKvmAmd, RemoveKvm, RemoveStep, LoadEmulation, PersistSessions, JournalRestore,
          UnloadEmulation, ReloadKvmAmd, ReloadKvm, RestoreStep, ClearJournal, durable
    <3> QED
      BY <3>1, <3>2
  <2> QED
    BY <2>1, <2>2, <2>3 DEF AmbiguityInv
<1>4. CASE TakeSnapshot
  <2>1. pc = "preflight" /\ UNCHANGED journal /\ pc' # "discard"
    BY <1>4, Preflight DEF durable
  <2> QED
    BY <1>1, <2>1 DEF AmbiguityInv
<1> QED
  BY <1>2, <1>3, <1>4

LEMMA AmbiguityNext == LeaseInv /\ AmbiguityInv /\ [Next]_vars => AmbiguityInv'
<1> SUFFICES ASSUME LeaseInv, AmbiguityInv, [Next]_vars PROVE AmbiguityInv'
  OBVIOUS
<1>1. CASE Start
  <2>1. PICK running \in SUBSET Apps : Reconcile(running)
    BY <1>1 DEF Start
  <2>2. pc = "free" /\ ~owned /\ sessions = {} /\ UNCHANGED journal
    BY <2>1 DEF Reconcile, LeaseInv, DeadIsBlank, durable
  <2>3. CASE ReconcileNothing \/ ReconcileAmbiguous \/ ReconcileOwned(running)
    BY <2>2, <2>3 DEF ReconcileNothing, ReconcileAmbiguous, ReconcileOwned, Restoring, AmbiguityInv
  <2>4. CASE ReconcileFinished
    BY <2>4, BeginFields DEF ReconcileFinished, AmbiguityInv
  <2> QED
    BY <2>1, <2>3, <2>4 DEF Reconcile
<1>2. CASE Environment
  <2>1. CASE Cancel
    <3>1. op'.kind = op.kind
      BY <2>1 DEF Cancel, LeaseInv, TypeOK, Op
    <3> QED
      BY <2>1, <3>1 DEF Cancel, durable, process, memory, AmbiguityInv
  <2>2. CASE Kill \/ Reboot
    BY <2>2 DEF Kill, Reboot, Exit, AmbiguityInv
  <2>3. CASE VirtualMachine \/ Meddle
    BY <2>3 DEF VirtualMachine, Meddle, durable, process, memory, AmbiguityInv
  <2> QED
    BY <1>2, <2>1, <2>2, <2>3 DEF Environment
<1>3. CASE UNCHANGED vars
  BY <1>3 DEF vars, durable, process, memory, AmbiguityInv
<1> QED
  BY <1>1, <1>2, <1>3, AmbiguityOperation, AmbiguityStep DEF Next

\* "If it cannot determine who changed module state, it asks for recovery": no operation
\* runs, and no request begins one, under a record that nobody owns.
THEOREM AmbiguityIsSafe == Spec => []AmbiguityIsLeftAlone
<1>1. Init => AmbiguityInv
  BY DEF Init, AmbiguityInv
<1>2. AmbiguityInv => AmbiguityIsLeftAlone
  BY DEF AmbiguityInv, AmbiguityIsLeftAlone
<1> QED
  BY <1>1, <1>2, AmbiguityNext, LeaseInvariant, PTL DEF Spec

-----------------------------------------------------------------------------
(* The emulation, while nobody else meddles under the record.              *)

\* An active controller with ownership has the emulation loaded.
EmulationInv ==
  /\ pc \in CommandSteps \cup {"journal_activation", "journal_restore", "clear"} => state # "emulation-active"
  /\ ~meddled /\ up /\ owned /\ state = "emulation-active" => EMU \in loaded

LEMMA EmulationOperation == LeaseInv /\ EmulationInv /\ Operation => EmulationInv'
<1> SUFFICES ASSUME LeaseInv, EmulationInv, Operation PROVE EmulationInv'
  OBVIOUS
<1>1. Free /\ UNCHANGED <<loaded, meddled>>
  BY DEF Operation, TestModule, Shutdown, EndSession, StartSession, ObserveRunning, ObserveStop, Close, host, process, Free
<1>2. CASE state' = state /\ up' = up /\ owned' = owned /\ pc' \in {"free", "persist", "preflight"}
  BY <1>1, <1>2 DEF EmulationInv, CommandSteps
<1>3. ASSUME state' # "emulation-active" \/ (~owned' /\ pc' = "free") PROVE EmulationInv'
  BY <1>3 DEF EmulationInv, CommandSteps
<1>4. ASSUME NEW kind, NEW rest, NEW s, Close(kind, rest, s) PROVE EmulationInv'
  <2>1. \/ pc' = "persist" /\ UNCHANGED <<state, up, owned>>
        \/ state' = "restoring-kvm"
        \/ ~owned /\ UNCHANGED <<pc, owned>>
    BY <1>4 DEF Close, Restoring, process
  <2> QED
    BY <1>1, <1>2, <1>3, <2>1 DEF Free
<1>5. CASE TestModule \/ Shutdown
  BY <1>1, <1>2, <1>3, <1>5 DEF TestModule, Shutdown, Activate, Restoring, Exit, process, memory
<1>6. ASSUME NEW id \in SessionIds, NEW app \in Apps, StartSession(app, id) PROVE EmulationInv'
  <2>1. PICK s : UNCHANGED <<host, durable, process>> /\ (JoinSession(s) \/ BorrowEmulation(s) \/ ActivateSession(s))
    BY <1>6 DEF StartSession
  <2>2. CASE JoinSession(s)
    BY <1>1, <1>2, <2>1, <2>2 DEF JoinSession, process, Free
  <2>3. CASE BorrowEmulation(s)
    BY <1>1, <1>3, <2>3 DEF BorrowEmulation, Free
  <2>4. CASE ActivateSession(s)
    BY <1>2, <2>1, <2>4 DEF ActivateSession, Activate, process, memory
  <2> QED
    BY <2>1, <2>2, <2>3, <2>4
<1>7. ASSUME NEW app, NEW inst, ObserveRunning(app, inst) PROVE EmulationInv'
  BY <1>1, <1>2, <1>7 DEF ObserveRunning, process, Free
<1> QED
  BY <1>4, <1>5, <1>6, <1>7 DEF Operation, EndSession, ObserveStop

LEMMA EmulationStep == LeaseInv /\ EmulationInv /\ Step => EmulationInv'
<1> SUFFICES ASSUME LeaseInv, EmulationInv, Step PROVE EmulationInv'
  OBVIOUS
<1>1. CASE ~TakeSnapshot /\ ~PersistSessions /\ ~LoadEmulation
  <2>1. pc \in CommandSteps \cup {"journal_activation", "journal_restore", "clear"} \/ DiscardJournal
    BY <1>1 DEF Step, JournalActivation, RemoveKvmAmd, RemoveKvm, RemoveStep, JournalRestore,
                UnloadEmulation, ReloadKvmAmd, ReloadKvm, RestoreStep, ClearJournal, CommandSteps
  <2>2. CASE DiscardJournal
    BY <2>2, Returned DEF DiscardJournal, EmulationInv, CommandSteps
  <2>3. CASE pc \in CommandSteps \cup {"journal_activation", "journal_restore", "clear"}
    BY <1>1, <2>3, Quieting DEF EmulationInv, memory, CommandSteps
  <2> QED
    BY <2>1, <2>2, <2>3
<1>2. CASE LoadEmulation
  <2>1. state # "emulation-active"
    BY <1>2 DEF LoadEmulation, EmulationInv, CommandSteps
  <2>2. PICK ok \in BOOLEAN : /\ ModuleCommand(TRUE, EMU, ok)
                              /\ \/ UNCHANGED state
                                 \/ state' = "restoring-kvm"
                                 \/ ok /\ pc' = "persist"
    BY <1>2 DEF LoadEmulation, Rollback, Restoring, memory
  <2>3. ok => EMU \in loaded'
    BY <2>2, CommandEffect DEF LeaseInv
  <2> QED
    BY <2>1, <2>2, <2>3 DEF EmulationInv, CommandSteps
<1>3. CASE PersistSessions
  <2>1. PICK ok, s : Return(ok, s, owned) /\ (s = state \/ s = "recovery-required")
    BY <1>3 DEF PersistSessions
  <2>2. pc' = "free" /\ (state' # "emulation-active" \/ UNCHANGED <<state, owned, up>>)
    BY <2>1, Returned
  <2> QED
    BY <1>3, <2>2 DEF PersistSessions, host, EmulationInv, CommandSteps
<1>4. CASE TakeSnapshot
  BY <1>4, Preflight DEF EmulationInv, CommandSteps
<1> QED
  BY <1>1, <1>2, <1>3, <1>4

LEMMA EmulationNext == LeaseInv /\ EmulationInv /\ [Next]_vars => EmulationInv'
<1> SUFFICES ASSUME LeaseInv, EmulationInv, [Next]_vars PROVE EmulationInv'
  OBVIOUS
<1>1. CASE Start
  <2>1. PICK running \in SUBSET Apps : Reconcile(running)
    BY <1>1 DEF Start
  <2>2. pc = "free" /\ ~owned /\ state = "idle" /\ UNCHANGED loaded
    BY <2>1 DEF Reconcile, LeaseInv, DeadIsBlank, host
  <2>3. CASE ReconcileNothing \/ ReconcileAmbiguous \/ ReconcileFinished
    BY <2>2, <2>3 DEF ReconcileNothing, ReconcileAmbiguous, ReconcileFinished, memory, EmulationInv, CommandSteps
  <2>4. CASE ReconcileOwned(running)
    BY <2>2, <2>4 DEF ReconcileOwned, Restoring, EmulationInv, CommandSteps
  <2> QED
    BY <2>1, <2>3, <2>4 DEF Reconcile
<1>2. CASE Environment
  <2>1. CASE Cancel \/ VirtualMachine
    BY <2>1 DEF Cancel, VirtualMachine, host, process, memory, EmulationInv
  <2>2. CASE Kill \/ Reboot
    BY <2>2 DEF Kill, Reboot, Exit, EmulationInv, CommandSteps
  <2>3. CASE Meddle
    <3>1. (meddled' \/ ~owned) /\ UNCHANGED <<up, pc, owned, state>>
      BY <2>3 DEF Meddle, memory
    <3> QED
      BY <3>1 DEF EmulationInv
  <2> QED
    BY <1>2, <2>1, <2>2, <2>3 DEF Environment
<1>3. CASE UNCHANGED vars
  BY <1>3 DEF vars, host, process, memory, EmulationInv
<1> QED
  BY <1>1, <1>2, <1>3, EmulationOperation, EmulationStep DEF Next

\* While others keep their hands off, whatever fails, ends or is killed: an active controller
\* has sessions, and what they play on.
THEOREM EmulationStays == Spec => []GamesKeepEmulation
<1>1. Init => EmulationInv
  BY DEF Init, EmulationInv, CommandSteps
<1>2. LeaseInv /\ EmulationInv => GamesKeepEmulation
  BY DEF LeaseInv, SessionsInside, HeldWhileChanging, TypeOK, JournalSteps, EmulationInv, GamesKeepEmulation, Free
<1> QED
  BY <1>1, <1>2, EmulationNext, LeaseInvariant, PTL DEF Spec

\* An emulation that is loaded under ownership, in memory or on record, is the controller's
\* own or in the snapshot it returns to.
ForeignInv ==
  ~meddled /\ EMU \in loaded /\ EMU \notin debt =>
    /\ owned => EMU \in before
    /\ journal.exists /\ journal.owned => EMU \in journal.before

\* The steps that run modprobe, each under ownership and for a reason.
LEMMA StepOfOwner ==
  ASSUME LeaseInv, Step
  PROVE  \/ UNCHANGED <<loaded, debt>>
         \/ /\ owned /\ journal.before = before /\ UNCHANGED journal
            /\ (owned' => UNCHANGED before)
            /\ \E load \in BOOLEAN, m \in Modules, ok \in BOOLEAN :
                 ModuleCommand(load, m, ok) /\ (~load /\ m = EMU => EMU \notin before)
<1>1. CASE TakeSnapshot \/ JournalActivation \/ PersistSessions \/ JournalRestore \/ ClearJournal \/ DiscardJournal
  BY <1>1 DEF TakeSnapshot, JournalActivation, PersistSessions, JournalRestore, ClearJournal, DiscardJournal, host
<1>2. CASE RemoveKvmAmd \/ RemoveKvm \/ LoadEmulation \/ UnloadEmulation \/ ReloadKvmAmd \/ ReloadKvm
  <2>1. pc \in CommandSteps /\ UNCHANGED journal
    BY <1>2 DEF RemoveKvmAmd, RemoveKvm, LoadEmulation, UnloadEmulation, ReloadKvmAmd, ReloadKvm,
                RemoveStep, RestoreStep, CommandSteps, durable
  <2>2. owned /\ journal.before = before
    BY <2>1 DEF LeaseInv, HeldWhileChanging, CommandSteps
  <2>3. \/ UNCHANGED host
        \/ \E load \in BOOLEAN, m \in Modules, ok \in BOOLEAN :
             ModuleCommand(load, m, ok) /\ (~load /\ m = EMU => EMU \notin before)
    BY <1>2 DEF RemoveKvmAmd, RemoveKvm, LoadEmulation, UnloadEmulation, ReloadKvmAmd, ReloadKvm,
                RemoveStep, RestoreStep
  <2>4. owned' => UNCHANGED before
    BY <1>2, Returned DEF RemoveKvmAmd, RemoveKvm, LoadEmulation, UnloadEmulation, ReloadKvmAmd, ReloadKvm,
                RemoveStep, RestoreStep, Goto, Rollback, Restoring, memory
  <2> QED
    BY <2>1, <2>2, <2>3, <2>4 DEF host
<1> QED
  BY <1>1, <1>2 DEF Step

\* A step that changes no module: ownership comes from a preflight, with what is then loaded
\* as the snapshot, and what goes on record is what is owned.
LEMMA QuietStep ==
  ASSUME LeaseInv, Step, UNCHANGED <<loaded, debt>>
  PROVE  /\ owned' => before' = loaded \/ (owned /\ UNCHANGED before)
         /\ journal'.exists /\ journal'.owned => journal' = journal \/ (owned /\ journal'.before = before)
<1>1. CASE TakeSnapshot
  BY <1>1, Preflight DEF durable
<1>2. CASE JournalActivation \/ PersistSessions \/ JournalRestore \/ ClearJournal \/ DiscardJournal
  <2>1. owned \/ DiscardJournal
    BY <1>2 DEF LeaseInv, HeldWhileChanging, JournalActivation, PersistSessions, JournalRestore, ClearJournal
  <2>2. PICK ok, ss, s, o, step :
          /\ Write(ss, ok) \/ Clear(ok)
          /\ Goto(step) \/ Return(ok, s, o)
          /\ DiscardJournal => Clear(ok) /\ ~o
    BY <1>2 DEF JournalActivation, PersistSessions, JournalRestore, ClearJournal, DiscardJournal
  <2>3. journal'.exists /\ journal'.owned => journal' = journal \/ (owned /\ journal'.before = before)
    <3>1. Clear(ok) => journal' = journal \/ ~journal'.exists
      BY DEF Clear, Replace, NoRecord
    <3>2. Write(ss, ok) => journal' = journal \/ journal'.before = before
      BY DEF Write, Replace
    <3>3. CASE Clear(ok)
      BY <3>1, <3>3
    <3>4. CASE ~Clear(ok)
      <4>1. owned /\ Write(ss, ok)
        BY <2>1, <2>2, <3>4
      <4> QED BY <3>2, <4>1
    <3> QED
      BY <3>3, <3>4
  <2>4. owned' => owned /\ UNCHANGED before
    <3>1. DiscardJournal => ~owned'
      BY Returned DEF DiscardJournal
    <3>2. owned' => UNCHANGED before
      BY <2>2, Returned DEF Goto, memory
    <3> QED
      BY <2>1, <3>1, <3>2
  <2> QED
    BY <2>3, <2>4
<1>3. CASE RemoveKvmAmd \/ RemoveKvm \/ LoadEmulation \/ UnloadEmulation \/ ReloadKvmAmd \/ ReloadKvm
  <2>1. pc \in CommandSteps /\ UNCHANGED journal
    BY <1>3 DEF RemoveKvmAmd, RemoveKvm, LoadEmulation, UnloadEmulation, ReloadKvmAmd, ReloadKvm,
                RemoveStep, RestoreStep, CommandSteps, durable
  <2>2. owned
    BY <2>1 DEF LeaseInv, HeldWhileChanging, CommandSteps
  <2>3. owned' => UNCHANGED before
    BY <1>3, Returned DEF RemoveKvmAmd, RemoveKvm, LoadEmulation, UnloadEmulation, ReloadKvmAmd, ReloadKvm,
                RemoveStep, RestoreStep, Goto, Rollback, Restoring, memory
  <2> QED
    BY <2>1, <2>2, <2>3
<1> QED
  BY <1>1, <1>2, <1>3 DEF Step

LEMMA ForeignNext ==
  ASSUME EMU \notin BootModules, LeaseInv, ForeignInv, [Next]_vars
  PROVE  ForeignInv'
<1>1. ASSUME UNCHANGED <<loaded, debt, meddled, journal>>, owned' => owned /\ UNCHANGED before
      PROVE  ForeignInv'
  BY <1>1 DEF ForeignInv
<1>2. CASE Operation
  <2>1. UNCHANGED <<host, journal, meddled>>
    BY <1>2 DEF Operation, TestModule, Shutdown, EndSession, StartSession, ObserveRunning, ObserveStop, Close, durable, process
  <2>2. owned' => owned /\ UNCHANGED before
    BY <1>2 DEF Operation, TestModule, Shutdown, EndSession, StartSession, ObserveRunning, ObserveStop, Close,
                JoinSession, BorrowEmulation, ActivateSession, Activate, Exit, memory
  <2> QED
    BY <1>1, <2>1, <2>2 DEF host
<1>3. CASE Start
  <2>1. PICK running \in SUBSET Apps : Reconcile(running)
    BY <1>3 DEF Start
  <2>2. UNCHANGED <<host, journal, meddled>>
    BY <2>1 DEF Reconcile, durable
  <2>3. CASE ReconcileNothing \/ ReconcileFinished \/ ReconcileAmbiguous
    BY <1>1, <2>2, <2>3 DEF ReconcileNothing, ReconcileFinished, ReconcileAmbiguous, memory, host
  <2>4. CASE ReconcileOwned(running)
    <3>1. journal.exists /\ journal.owned /\ before' = journal.before
      BY <2>4 DEF ReconcileOwned
    <3> QED
      BY <2>2, <3>1 DEF ForeignInv, host
  <2> QED
    BY <2>1, <2>3, <2>4 DEF Reconcile
<1>4. CASE Step
  <2>1. UNCHANGED meddled
    BY <1>4
    DEF Step, TakeSnapshot, JournalActivation, RemoveKvmAmd, RemoveKvm, RemoveStep, LoadEmulation, PersistSessions,
        JournalRestore, UnloadEmulation, ReloadKvmAmd, ReloadKvm, RestoreStep, ClearJournal, DiscardJournal
  <2>2. CASE UNCHANGED <<loaded, debt>>
    BY <1>4, <2>1, <2>2, QuietStep DEF ForeignInv
  <2>3. ASSUME owned, journal.before = before, UNCHANGED journal, owned' => UNCHANGED before,
               NEW load \in BOOLEAN, NEW m \in Modules, NEW ok \in BOOLEAN, ModuleCommand(load, m, ok)
        PROVE  ForeignInv'
    <3>1. debt' = (debt \ Changed(loaded, loaded'))
                    \cup {x \in Changed(loaded, loaded') : IF x = EMU THEN x \in loaded' \ before ELSE x \notin loaded'}
      BY <2>3, CommandEffect DEF LeaseInv
    <3>2. EMU \in loaded' /\ EMU \notin debt' => EMU \in before \/ (EMU \in loaded /\ EMU \notin debt)
      BY <3>1 DEF Changed
    <3> QED
      BY <2>1, <2>3, <3>2 DEF ForeignInv
  <2> QED
    BY <1>4, <2>2, <2>3, StepOfOwner
<1>5. CASE Environment
  <2>1. CASE Cancel \/ VirtualMachine
    BY <1>1, <2>1 DEF Cancel, VirtualMachine, host, durable, process, memory
  <2>2. CASE Kill
    BY <1>1, <2>2 DEF Kill, Exit, host, durable
  <2>3. CASE Reboot
    BY <2>3 DEF Reboot, ForeignInv
  <2>4. CASE Meddle
    BY <2>4 DEF Meddle, ForeignInv, durable, memory
  <2> QED
    BY <1>5, <2>1, <2>2, <2>3, <2>4 DEF Environment
<1>6. CASE UNCHANGED vars
  BY <1>1, <1>6 DEF vars, host, durable, process, memory
<1> QED
  BY <1>2, <1>3, <1>4, <1>5, <1>6 DEF Next

\* ForeignInv holds of every host that does not load the emulation at boot.
LEMMA ForeignHolds == ASSUME EMU \notin BootModules PROVE Spec => []ForeignInv
<1>1. Init => ForeignInv
  BY DEF Init, ForeignInv, NoRecord
<1>2. LeaseInv /\ ForeignInv /\ [Next]_vars => ForeignInv'
  BY ForeignNext
<1> QED
  BY <1>1, <1>2, LeaseInvariant, PTL DEF Spec

\* TestPreexistingEmulationIsNeverOwnedOrUnloaded, for every history in which nobody meddles
\* under the record: the controller unloads no emulation that it did not load.
THEOREM ForeignIsNeverUnloaded == ASSUME EMU \notin BootModules PROVE Spec => ForeignEmulationStays
<1>1. ASSUME LeaseInv, ForeignInv, ~meddled, Step, EMU \in loaded, EMU \notin loaded'
      PROVE  EMU \in debt
  <2>1. PICK load \in BOOLEAN, m \in Modules, ok \in BOOLEAN :
          owned /\ ModuleCommand(load, m, ok) /\ (~load /\ m = EMU => EMU \notin before)
    BY <1>1, StepOfOwner
  <2>2. ~load /\ m = EMU
    BY <1>1, <2>1, CommandEffect DEF LeaseInv
  <2> QED
    BY <1>1, <2>1, <2>2 DEF ForeignInv
<1> QED
  BY <1>1, ForeignHolds, LeaseInvariant, PTL DEF Spec, ForeignEmulationStays

-----------------------------------------------------------------------------
(* Controller implements ModuleLease.                                      *)

LeaseMove == [Lease!Next]_(Lease!vars)

\* The shapes a step of the controller takes for the lease.
LEMMA ForgiveStep == UNCHANGED journal /\ debt' \subseteq debt => LeaseMove
  BY DEF LeaseMove, Lease!Next, Lease!Forgive, Lease!vars

\* A change of modules under an owned record is a change under the lease.
LEMMA ChangeStep ==
  UNCHANGED journal /\ journal.exists /\ journal.owned /\ debt' \subseteq Modules => LeaseMove
  BY DEF LeaseMove, Lease!Next, Lease!Change, Lease!vars

\* A write of the snapshot in memory takes the lease, or keeps the one held.
LEMMA WriteStep ==
  ASSUME LeaseInv, up, owned, UNCHANGED debt, NEW ss, NEW ok \in BOOLEAN, Write(ss, ok)
  PROVE  LeaseMove
<1>1. journal' = journal \/ (journal'.exists /\ journal'.owned /\ journal'.before = before)
  BY DEF Write, Replace
<1>2. CASE journal' = journal
  BY <1>2, ForgiveStep
<1>3. CASE debt = {} /\ journal'.exists /\ journal'.owned /\ journal'.before = before
  BY <1>3 DEF LeaseMove, Lease!Next, Lease!Take, LeaseInv, TypeOK
<1>4. CASE debt # {} /\ journal'.exists /\ journal'.owned /\ journal'.before = before
  BY <1>4 DEF LeaseMove, Lease!vars, LeaseInv, ChangesAreOnRecord, DebtIsHeld
<1> QED BY <1>1, <1>2, <1>3, <1>4

\* A removal of the journal with nothing owed releases the lease.
LEMMA ClearStep ==
  ASSUME debt = {}, UNCHANGED debt, NEW ok \in BOOLEAN, Clear(ok)
  PROVE  LeaseMove
<1>1. journal' = journal \/ ~journal'.exists
  BY DEF Clear, Replace, NoRecord
<1>2. CASE journal' = journal
  BY <1>2, ForgiveStep
<1>3. CASE ~journal'.exists
  BY <1>3 DEF LeaseMove, Lease!Next, Lease!Release
<1> QED BY <1>1, <1>2, <1>3

\* Every step of the controller is a step of the lease or leaves it alone.
LEMMA LeaseSimulation == LeaseInv /\ TypeOK' /\ [Next]_vars => LeaseMove
<1> SUFFICES ASSUME LeaseInv, TypeOK', [Next]_vars PROVE LeaseMove
  OBVIOUS
<1>1. CASE Operation \/ Start \/ TakeSnapshot
  BY <1>1, ForgiveStep
  DEF Operation, TestModule, Shutdown, EndSession, StartSession, ObserveRunning, ObserveStop, Close,
      Start, Reconcile, TakeSnapshot, host, durable
<1>2. CASE JournalActivation \/ PersistSessions \/ JournalRestore
  <2>1. up /\ owned /\ UNCHANGED debt
    BY <1>2 DEF JournalActivation, PersistSessions, JournalRestore, LeaseInv, HeldWhileChanging, DeadIsBlank, host
  <2> QED BY <1>2, <2>1, WriteStep DEF JournalActivation, PersistSessions, JournalRestore
<1>3. CASE ClearJournal \/ DiscardJournal
  <2>1. debt = {} /\ UNCHANGED debt
    BY <1>3 DEF ClearJournal, DiscardJournal, LeaseInv, HeldWhileChanging, DeadIsBlank, PaidBack, DebtIsHeld, host
  <2> QED BY <1>3, <2>1, ClearStep DEF ClearJournal, DiscardJournal
<1>4. CASE RemoveKvmAmd \/ RemoveKvm \/ LoadEmulation \/ UnloadEmulation \/ ReloadKvmAmd \/ ReloadKvm
  <2>1. pc \in CommandSteps /\ UNCHANGED journal
    BY <1>4 DEF RemoveKvmAmd, RemoveKvm, LoadEmulation, UnloadEmulation, ReloadKvmAmd, ReloadKvm,
                RemoveStep, RestoreStep, durable, CommandSteps
  <2> QED BY <2>1, ChangeStep DEF LeaseInv, HeldWhileChanging, TypeOK
<1>5. CASE Environment
  <2>1. UNCHANGED journal /\ debt' \subseteq debt
    BY <1>5 DEF Environment, Cancel, Kill, Reboot, VirtualMachine, Meddle, host, durable
  <2> QED BY <2>1, ForgiveStep
<1>6. CASE UNCHANGED vars
  BY <1>6, ForgiveStep DEF vars, host, durable
<1> QED BY <1>1, <1>2, <1>3, <1>4, <1>5, <1>6 DEF Next, Step

\* The controller keeps the module lease: the record of the snapshot to return
\* to is on disk before a module changes, and is neither dropped nor exchanged
\* while a change is outstanding.
THEOREM ImplementsLease == Spec => LeaseSpec
<1>1. Init => Lease!Init
  BY DEF Init, Lease!Init, NoRecord
<1> QED
  BY <1>1, LeaseInvariant, TypeCorrect, LeaseSimulation, PTL
  DEF Spec, LeaseSpec, Lease!Spec, LeaseMove

\* What the lease promises: no module is changed without a snapshot to return to.
THEOREM DebtIsCovered == Spec => []Lease!Covered
<1>1. Lease!Init => Lease!Covered
  BY DEF Lease!Init, Lease!Covered
<1>2. Lease!Covered /\ LeaseMove => Lease!Covered'
  <2>1. CASE Lease!Take
    BY <2>1 DEF Lease!Take, Lease!Covered
  <2>2. CASE Lease!Change
    BY <2>2 DEF Lease!Change, Lease!Covered
  <2>3. CASE Lease!Forgive
    BY <2>3 DEF Lease!Forgive, Lease!Covered
  <2>4. CASE Lease!Release
    BY <2>4 DEF Lease!Release, Lease!Covered
  <2>5. CASE UNCHANGED Lease!vars
    BY <2>5 DEF Lease!vars, Lease!Covered
  <2> QED BY <2>1, <2>2, <2>3, <2>4, <2>5 DEF LeaseMove, Lease!Next
<1> QED BY <1>1, <1>2, ImplementsLease, PTL DEF LeaseSpec, Lease!Spec, LeaseMove

=============================================================================
