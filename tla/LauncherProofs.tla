--------------------------- MODULE LauncherProofs ---------------------------
(***************************************************************************)
(* Every behaviour of Launcher is, for the controller, a behaviour of      *)
(* Controller: what ControllerProofs proves of it holds among wrappers,    *)
(* notices and plugin restarts as well.  On top of it, a game that plays   *)
(* keeps the emulation it was promised, and after the last game the host   *)
(* has its modules back.                                                   *)
(***************************************************************************)
EXTENDS Launcher, ControllerProofs

\* What the controller does in the composition: here nobody else loads or removes modules.
Calm == Operation \/ Start \/ Step \/ Cancel \/ Kill \/ Reboot

\* Starting a session for a request is a step of the controller.
LEMMA ServeStep == ASSUME NEW a \in Apps, Serve(a) PROVE Calm
  BY DEF Serve, Calm, Operation

\* A client that goes away cancels the operation that serves it, or none.
LEMMA AbandonStep == ASSUME NEW a \in Apps, Abandon(a) PROVE Calm \/ UNCHANGED vars
<1>1. CASE Serving(a) /\ op.live
  BY <1>1, LaunchAssumption DEF Abandon, Serving, Calm, Cancel
<1>2. CASE ~(Serving(a) /\ op.live)
  BY <1>2 DEF Abandon, vars
<1> QED BY <1>1, <1>2

\* Giving a session back ends it, or finds it or the backend gone.
LEMMA GiveBackStep == ASSUME TypeOK, NEW a \in Apps, GiveBack(a) PROVE Calm \/ UNCHANGED vars
<1>1. CASE EndSession(ticket[a])
  <2>1. PICK s \in sessions : s.id = ticket[a]
    BY <1>1 DEF EndSession
  <2>2. ticket[a] \in SessionIds
    BY <2>1 DEF TypeOK, Session
  <2> QED BY <1>1, <2>2 DEF Calm, Operation
<1> QED BY <1>1 DEF GiveBack

\* A lifetime notice is an observation of an app, or changes nothing.
LEMMA DeliverStep ==
  ASSUME LauncherTypeOK, NEW n \in notices, Deliver(n)
  PROVE  Calm \/ UNCHANGED vars
<1>1. n.app \in Apps /\ n.inst \in Instances \cup {Unattached}
  BY DEF LauncherTypeOK
<1>2. CASE UNCHANGED vars
  BY <1>2
<1>3. CASE \E a \in Apps : ObserveRunning(a, n.inst) \/ ObserveStop(a, n.inst)
  BY <1>1, <1>3 DEF Calm, Operation
<1> QED BY <1>1, <1>2, <1>3 DEF Deliver, Running

\* What Steam and a wrapper do is a step of the controller, or none to it.
LEMMA WrapperStep == ASSUME TypeOK, NEW a \in Apps, WrapperNext(a) PROVE Calm \/ UNCHANGED vars
<1>1. CASE Launch(a) \/ Unreachable(a) \/ GameExits(a)
  BY <1>1 DEF Launch, Unreachable, GameExits
<1>2. CASE Timeout(a) \/ KillWrapper(a)
  BY <1>2, AbandonStep DEF Timeout, KillWrapper
<1>3. CASE GiveBack(a)
  BY <1>3, GiveBackStep
<1> QED BY <1>1, <1>2, <1>3 DEF WrapperNext

\* Every step of the composition is a step or a stutter of the controller.
LEMMA ControllerStep ==
  ASSUME LauncherTypeOK, [LauncherNext]_allVars
  PROVE  Calm \/ UNCHANGED vars
<1>1. CASE UNCHANGED allVars
  BY <1>1 DEF allVars
<1>2. ASSUME NEW a \in Apps, WrapperNext(a) PROVE Calm \/ UNCHANGED vars
  BY <1>2, WrapperStep DEF LauncherTypeOK
<1>3. ASSUME NEW a \in Apps, ServerNext(a) PROVE Calm \/ UNCHANGED vars
  BY <1>3, ServeStep DEF ServerNext, Refuse
<1>4. CASE Work
  BY <1>4 DEF Work, Calm
<1>5. ASSUME NEW n \in notices, Deliver(n) PROVE Calm \/ UNCHANGED vars
  BY <1>5, DeliverStep
<1>6. CASE Restart
  <2>1. Running \in SUBSET Apps
    BY DEF Running
  <2> QED BY <1>6, <2>1 DEF Restart, Calm, Start
<1>7. CASE KillBackend \/ StopPlugin \/ RebootHost
  BY <1>7 DEF KillBackend, StopPlugin, RebootHost, Calm, Operation
<1> QED
  BY <1>1, <1>2, <1>3, <1>4, <1>5, <1>6, <1>7 DEF LauncherNext

\* What it does is a step of Controller, or a stutter.
LEMMA CalmIsNext == Calm \/ UNCHANGED vars => [Next]_vars
  BY DEF Calm, Next, Environment

-----------------------------------------------------------------------------
(* Type correctness of what the launcher adds.                             *)

\* What is settled at the start, and the bound.
SettledTypeOK ==
  interrupts \in 0..MaxInterrupts /\ nameless \subseteq Apps /\ late \in BOOLEAN

\* The launcher's own part of LauncherTypeOK.
LaunchTypeOK ==
  /\ stage \in [Apps -> Stages]
  /\ ticket \in [Apps -> SessionIds \cup {NoId}]
  /\ request \in [Apps -> Requests]
  /\ notices \subseteq [app : Apps, inst : Instances \cup {Unattached}, running : BOOLEAN]
  /\ instance \in [Apps -> Instances \cup {Unattached}]
  /\ launches \in 0..MaxLaunches
  /\ SettledTypeOK

\* A post adds a well-formed notice, or none.
LEMMA PostType ==
  ASSUME LaunchTypeOK, NEW a \in Apps, NEW i \in Instances \cup {Unattached}, NEW r \in BOOLEAN, Post(a, i, r)
  PROVE  notices' \subseteq [app : Apps, inst : Instances \cup {Unattached}, running : BOOLEAN]
  BY DEF Post, LaunchTypeOK

\* An exiting wrapper leaves its own part well formed.
LEMMA WrapperExitsType ==
  ASSUME LaunchTypeOK, NEW a \in Apps, WrapperExits(a), request' \in [Apps -> Requests],
         SettledTypeOK'
  PROVE  LaunchTypeOK'
<1>1. Post(a, instance[a], FALSE) /\ instance[a] \in Instances \cup {Unattached}
  BY DEF WrapperExits, LaunchTypeOK
<1>2. notices' \subseteq [app : Apps, inst : Instances \cup {Unattached}, running : BOOLEAN]
  BY <1>1, PostType
<1> QED BY <1>2 DEF WrapperExits, LaunchTypeOK, Stages

\* So does a wrapper that runs its game without a session.
LEMMA FailOpenType ==
  ASSUME LaunchTypeOK, NEW a \in Apps, FailOpen(a), request' \in [Apps -> Requests],
         SettledTypeOK'
  PROVE  LaunchTypeOK'
  BY DEF FailOpen, LaunchTypeOK, Stages

\* And an answer of the server.
LEMMA AnswerType ==
  ASSUME LaunchTypeOK, NEW a \in Apps, NEW granted \in BOOLEAN, Answer(a, granted)
  PROVE  LaunchTypeOK'
<1>1. request' \in [Apps -> Requests]
  BY DEF Answer, LaunchTypeOK, Requests
<1>2. CASE stage[a] = "asking" /\ ~granted
  BY <1>1, <1>2, WrapperExitsType DEF Answer, LaunchTypeOK, SettledTypeOK, settled
<1>3. CASE ~(stage[a] = "asking" /\ ~granted)
  BY <1>1, <1>3 DEF Answer, LaunchTypeOK, SettledTypeOK, Stages, counts, settled
<1> QED BY <1>2, <1>3

\* A launch has an instance ID of its own and keeps the types.
LEMMA LaunchType == ASSUME LaunchTypeOK, NEW a \in Apps, Launch(a) PROVE LaunchTypeOK'
<1>1. launches' \in 0..MaxLaunches /\ launches' \in Instances
  BY LaunchAssumption DEF Launch, LaunchTypeOK
<1>2. notices' \subseteq [app : Apps, inst : Instances \cup {Unattached}, running : BOOLEAN]
  BY <1>1, PostType DEF Launch
<1> QED BY <1>1, <1>2 DEF Launch, LaunchTypeOK, SettledTypeOK, Stages, Requests, settled

\* Whatever Steam and a wrapper do keeps the types.
LEMMA WrapperType == ASSUME LaunchTypeOK, NEW a \in Apps, WrapperNext(a) PROVE LaunchTypeOK'
<1>1. Interrupt => SettledTypeOK'
  BY LaunchAssumption DEF Interrupt, LaunchTypeOK, SettledTypeOK
<1>0. UNCHANGED settled => SettledTypeOK'
  BY DEF LaunchTypeOK, SettledTypeOK, settled
<1>2. Abandon(a) => request' \in [Apps -> Requests]
  BY DEF Abandon, LaunchTypeOK, Requests
<1>3. CASE Launch(a)
  BY <1>3, LaunchType
<1>4. CASE Unreachable(a)
  BY <1>0, <1>4, FailOpenType DEF Unreachable, LaunchTypeOK
<1>5. CASE Timeout(a)
  BY <1>1, <1>2, <1>5, FailOpenType DEF Timeout
<1>6. CASE KillWrapper(a)
  BY <1>1, <1>2, <1>6, WrapperExitsType DEF KillWrapper
<1>7. CASE GameExits(a)
  <2>1. CASE stage[a] = "playing"
    BY <1>7, <2>1 DEF GameExits, LaunchTypeOK, SettledTypeOK, Stages, counts, settled
  <2>2. CASE stage[a] # "playing"
    BY <1>0, <1>7, <2>2, WrapperExitsType DEF GameExits, LaunchTypeOK
  <2> QED BY <2>1, <2>2
<1>8. CASE GiveBack(a)
  BY <1>0, <1>8, WrapperExitsType DEF GiveBack, LaunchTypeOK
<1> QED BY <1>3, <1>4, <1>5, <1>6, <1>7, <1>8 DEF WrapperNext

\* The start and the refusal of a session keep the types.
LEMMA ServerType == ASSUME LaunchTypeOK, NEW a \in Apps, ServerNext(a) PROVE LaunchTypeOK'
<1>1. CASE Serve(a)
  BY <1>1 DEF Serve, LaunchTypeOK, SettledTypeOK, Stages, Requests, counts, settled
<1>2. CASE Refuse(a)
  BY <1>2, AnswerType DEF Refuse
<1> QED BY <1>1, <1>2 DEF ServerNext

\* Steps of operations, notices, restarts and kills keep the types.
LEMMA OtherType ==
  ASSUME LauncherTypeOK, LaunchTypeOK,
         Work \/ (\E n \in notices : Deliver(n)) \/ Restart \/ KillBackend \/ StopPlugin \/ RebootHost
  PROVE  LaunchTypeOK'
<1>1. CASE Work
  <2>1. CASE UNCHANGED launcherVars
    BY <2>1 DEF LaunchTypeOK, SettledTypeOK, launcherVars, counts, settled
  <2>2. ASSUME NEW s \in op.pending, Answer(s.app, s.id \in Ids(sessions') /\ state' # "recovery-required")
        PROVE  LaunchTypeOK'
    <3>1. s.app \in Apps
      BY <2>2 DEF LauncherTypeOK, TypeOK, Op, Session
    <3> QED BY <2>2, <3>1, AnswerType
  <2> QED BY <1>1, <2>1, <2>2 DEF Work
<1>2. CASE \E n \in notices : Deliver(n)
  BY <1>2 DEF Deliver, LaunchTypeOK, SettledTypeOK, counts, settled
<1>3. CASE Restart
  BY <1>3 DEF Restart, LaunchTypeOK, SettledTypeOK, launcherVars, counts, settled
<1>4. CASE KillBackend
  BY <1>4 DEF KillBackend, LaunchTypeOK, SettledTypeOK, Dropped, Requests, counts, settled
<1>5. CASE StopPlugin \/ RebootHost
  BY <1>5 DEF StopPlugin, RebootHost, AllGamesEnd, Dropped, LaunchTypeOK, SettledTypeOK, Requests, Stages, counts, settled
<1> QED BY <1>1, <1>2, <1>3, <1>4, <1>5

\* LauncherTypeOK is inductive.
LEMMA LauncherInvariantStep == LauncherTypeOK /\ [LauncherNext]_allVars => LauncherTypeOK'
<1> SUFFICES ASSUME LauncherTypeOK, [LauncherNext]_allVars PROVE LauncherTypeOK'
  OBVIOUS
<1>1. LaunchTypeOK
  BY DEF LauncherTypeOK, LaunchTypeOK, SettledTypeOK
<1>2. LaunchTypeOK'
  <2>1. CASE UNCHANGED allVars
    BY <1>1, <2>1 DEF LaunchTypeOK, SettledTypeOK, allVars, launcherVars, counts, settled
  <2> QED BY <1>1, <2>1, WrapperType, ServerType, OtherType DEF LauncherNext
<1>3. TypeOK'
  BY ControllerStep, CalmIsNext, TypeNext DEF LauncherTypeOK
<1> QED BY <1>2, <1>3 DEF LauncherTypeOK, LaunchTypeOK, SettledTypeOK

\* Type correctness of the composition.
THEOREM LauncherTypeCorrect == LauncherSpec => []LauncherTypeOK
<1>1. LauncherInit => LauncherTypeOK
  BY TypeInit, LaunchAssumption DEF LauncherInit, LauncherTypeOK, Stages, Requests
<1> QED BY <1>1, LauncherInvariantStep, PTL DEF LauncherSpec

\* Whatever Steam, wrappers and frontend do, the controller only ever sees
\* sequences of operations that Controller allows.
THEOREM ImplementsController == LauncherSpec => ControllerSpec
<1>1. LauncherInit => Init
  BY DEF LauncherInit
<1>2. LauncherTypeOK /\ [LauncherNext]_allVars => [Next]_vars
  BY ControllerStep, CalmIsNext
<1> QED BY <1>1, <1>2, LauncherTypeCorrect, PTL DEF LauncherSpec, ControllerSpec, Spec

\* So among any launches, kills and restarts too, what the controller changed
\* and has not undone is on record.
THEOREM LaunchesStayOnRecord == LauncherSpec => []ChangesAreOnRecord
  BY ImplementsController, ChangesStayOnRecord, PTL DEF ControllerSpec

-----------------------------------------------------------------------------
(* Games that were given a session have the emulation.                     *)

\* Nobody else changes modules here, and sessions play on the emulation.
PlayInv == ~meddled /\ (sessions # {} => EMU \in loaded)

\* Only a start that succeeds has sessions where there were none.
LEMMA StepSessions ==
  ASSUME Step, ~PersistSessions, ~LoadEmulation
  PROVE  sessions' \in {sessions, {}}
<1>1. CASE JournalActivation \/ JournalRestore \/ ClearJournal \/ DiscardJournal
  BY <1>1, Returned DEF JournalActivation, JournalRestore, ClearJournal, DiscardJournal, Goto, memory
<1>2. CASE RemoveKvmAmd \/ RemoveKvm
  BY <1>2 DEF RemoveKvmAmd, RemoveKvm, RemoveStep, Goto, Rollback, memory
<1>3. CASE UnloadEmulation \/ ReloadKvmAmd \/ ReloadKvm
  BY <1>3, Returned DEF UnloadEmulation, ReloadKvmAmd, ReloadKvm, RestoreStep, Goto, memory
<1>4. CASE TakeSnapshot
  BY <1>4, Returned DEF TakeSnapshot
<1> QED
  BY <1>1, <1>2, <1>3, <1>4 DEF Step

\* An operation under way, whose steps before the last have no session.
LEMMA StepInside ==
  ASSUME LeaseInv, Step
  PROVE  /\ up /\ pc # "free"
         /\ ~PersistSessions => pc # "persist" /\ sessions = {}
<1>1. pc \in {"preflight"} \cup CommandSteps \cup JournalSteps /\ (~PersistSessions => pc # "persist")
  BY DEF Step, TakeSnapshot, JournalActivation, RemoveKvmAmd, RemoveKvm, RemoveStep, LoadEmulation, PersistSessions,
         JournalRestore, UnloadEmulation, ReloadKvmAmd, ReloadKvm, RestoreStep, ClearJournal, DiscardJournal,
         CommandSteps, JournalSteps
<1>2. pc # "free"
  BY <1>1 DEF CommandSteps, JournalSteps
<1> QED
  BY <1>1, <1>2 DEF LeaseInv, DeadIsBlank, SessionsInside

\* The last step writes the sessions, or fails and leaves the record.
LEMMA PersistStep ==
  ASSUME PersistSessions
  PROVE  /\ UNCHANGED <<host, meddled>> /\ pc' = "free"
         /\ journal'.sessions = sessions \/ journal' = journal
         /\ (~up' /\ sessions' = {}) \/ UNCHANGED <<up, sessions>>
         /\ op.kind = "start" /\ state' # "recovery-required" /\ sessions' # {} =>
              journal'.sessions = sessions
<1>1. PICK ok \in BOOLEAN : /\ Write(sessions, ok)
                            /\ Return(ok, IF ~ok /\ op.kind = "start" THEN "recovery-required" ELSE state, owned)
  BY DEF PersistSessions
<1>2. IF ok THEN journal'.sessions = sessions ELSE journal'.sessions = sessions \/ journal' = journal
  BY <1>1 DEF Write, Replace
<1>3. UNCHANGED <<host, meddled>>
  BY DEF PersistSessions
<1> QED
  BY <1>1, <1>2, <1>3, Returned

\* PlayInv is preserved.
LEMMA PlayStep == ASSUME LeaseInv, PlayInv, Calm \/ UNCHANGED vars PROVE PlayInv'
<1>1. UNCHANGED meddled
  BY DEF Calm, Operation, TestModule, Shutdown, EndSession, StartSession, ObserveRunning, ObserveStop, Close,
         Start, Reconcile, Step, TakeSnapshot, JournalActivation, RemoveKvmAmd, RemoveKvm, RemoveStep, LoadEmulation, PersistSessions,
         JournalRestore, UnloadEmulation, ReloadKvmAmd, ReloadKvm, RestoreStep, ClearJournal, DiscardJournal,
         Cancel, Kill, Reboot, vars, process
<1>2. ASSUME sessions' = {} \/ (sessions # {} /\ UNCHANGED loaded) \/ EMU \in loaded' PROVE PlayInv'
  BY <1>1, <1>2 DEF PlayInv
<1>3. CASE Operation
  <2>1. UNCHANGED loaded
    BY <1>3 DEF Operation, TestModule, Shutdown, EndSession, StartSession, ObserveRunning, ObserveStop, Close, host
  <2>2. sessions # {} \/ sessions' = {} \/ EMU \in loaded
    BY <1>3 DEF Operation, TestModule, Shutdown, EndSession, StartSession, ObserveRunning, ObserveStop, Close, Exit,
                Activate, JoinSession, BorrowEmulation, ActivateSession, Activates, memory
  <2> QED BY <1>2, <2>1, <2>2
<1>4. CASE Start
  <2>1. PICK running \in SUBSET Apps : Reconcile(running)
    BY <1>4 DEF Start
  <2>2. sessions = {} /\ UNCHANGED loaded
    BY <2>1 DEF Reconcile, LeaseInv, DeadIsBlank, host
  <2>3. sessions' = {} \/ EMU \in loaded
    BY <2>1, <2>2 DEF Reconcile, ReconcileNothing, ReconcileFinished, ReconcileAmbiguous, ReconcileOwned, memory
  <2> QED BY <1>2, <2>2, <2>3
<1>5. CASE Step
  <2>1. CASE PersistSessions
    BY <1>2, <2>1, PersistStep DEF host, PlayInv
  <2>2. CASE LoadEmulation
    <3>1. PICK ok \in BOOLEAN : /\ ModuleCommand(TRUE, EMU, ok)
                                /\ UNCHANGED sessions \/ ok
      BY <2>2 DEF LoadEmulation, Rollback, memory
    <3>2. ok => EMU \in loaded'
      BY <3>1, CommandEffect DEF LeaseInv, Modules
    <3>3. sessions = {}
      BY <1>5, <2>2, StepInside DEF LoadEmulation, PersistSessions
    <3> QED BY <1>2, <3>1, <3>2, <3>3
  <2>3. CASE ~PersistSessions /\ ~LoadEmulation
    BY <1>2, <1>5, <2>3, StepSessions, StepInside
  <2> QED BY <2>1, <2>2, <2>3
<1>6. CASE Cancel \/ UNCHANGED vars
  BY <1>2, <1>6 DEF Cancel, vars, host, memory, PlayInv
<1>7. CASE Kill \/ Reboot
  BY <1>2, <1>7 DEF Kill, Reboot, Exit
<1> QED
  BY <1>3, <1>4, <1>5, <1>6, <1>7 DEF Calm

\* One of the sessions ss is that of the app's game with this ticket.
Holds(ss, id, app) == \E s \in ss : s.id = id /\ s.app = app

\* The emulation is there for a game's session: as another's, or as the controller's own
\* with the session in memory and on record.
Held(id, app) ==
  /\ EMU \in loaded
  /\ EMU \in debt => (up => Holds(sessions, id, app)) /\ Holds(journal.sessions, id, app)

\* What the controller may do beside a game that plays: all but to end its session, to be
\* told that the game has stopped, or to go down with the host.
Beside(id, app) ==
  \/ \E i \in SessionIds, b \in Apps : StartSession(b, i)
  \/ \E i \in SessionIds \ {id} : EndSession(i)
  \/ \E b \in Apps, inst \in Instances \cup {Unattached} :
       ObserveRunning(b, inst) \/ (b # app /\ ObserveStop(b, inst))
  \/ \E running \in SUBSET Apps : app \in running /\ Reconcile(running)
  \/ Step \/ Cancel \/ Kill \/ UNCHANGED vars

\* An operation on an emulation of the controller's own leaves the game its session.
LEMMA OperationBeside ==
  ASSUME LeaseInv, NEW id, NEW app, up, Holds(sessions, id, app),
         \/ \E i \in SessionIds, b \in Apps : StartSession(b, i)
         \/ \E i \in SessionIds \ {id} : EndSession(i)
         \/ \E b \in Apps, inst \in Instances \cup {Unattached} :
              ObserveRunning(b, inst) \/ (b # app /\ ObserveStop(b, inst))
  PROVE  Holds(sessions', id, app)
<1>1. PICK s \in sessions : s.id = id /\ s.app = app
  BY DEF Holds
<1>2. CASE \E i \in SessionIds, b \in Apps : StartSession(b, i)
  <2>1. sessions \subseteq sessions'
    BY <1>1, <1>2 DEF StartSession, JoinSession, BorrowEmulation, ActivateSession, Activates
  <2> QED BY <1>1, <2>1 DEF Holds
<1>3. CASE \E i \in SessionIds \ {id} : EndSession(i)
  <2>1. PICK t \in sessions : t.id # id /\ sessions' = sessions \ {t}
    BY <1>3 DEF EndSession, Close
  <2> QED BY <1>1, <2>1 DEF Holds
<1>4. ASSUME NEW b \in Apps, NEW inst, ObserveRunning(b, inst) PROVE Holds(sessions', id, app)
  <2>1. PICK t \in sessions : sessions' = (sessions \ {t}) \cup {[t EXCEPT !.inst = inst]}
    BY <1>4 DEF ObserveRunning
  <2>2. [t EXCEPT !.inst = inst].id = t.id /\ [t EXCEPT !.inst = inst].app = t.app
    BY DEF LeaseInv, TypeOK, Session
  <2>3. CASE s = t
    BY <1>1, <2>1, <2>2, <2>3 DEF Holds
  <2>4. CASE s # t
    BY <1>1, <2>1, <2>4 DEF Holds
  <2> QED BY <2>3, <2>4
<1>5. ASSUME NEW b \in Apps, NEW inst, b # app, ObserveStop(b, inst) PROVE Holds(sessions', id, app)
  <2>1. PICK closed : sessions' = sessions \ closed /\ \A t \in closed : t.app = b
    BY <1>5 DEF ObserveStop, Close
  <2> QED BY <1>1, <1>5, <2>1 DEF Holds
<1> QED
  BY <1>2, <1>3, <1>4, <1>5

\* Beside a game that plays, nothing takes the emulation, or what brings it back, away.
LEMMA KeptStep ==
  ASSUME LeaseInv, ForeignInv, PlayInv, NEW id, NEW app, Held(id, app), Beside(id, app)
  PROVE  Held(id, app)'
<1> DEFINE Operates ==
             \/ \E i \in SessionIds, b \in Apps : StartSession(b, i)
             \/ \E i \in SessionIds \ {id} : EndSession(i)
             \/ \E b \in Apps, inst \in Instances \cup {Unattached} :
                  ObserveRunning(b, inst) \/ (b # app /\ ObserveStop(b, inst))
<1>1. CASE Operates
  <2>1. UNCHANGED <<loaded, debt, journal, up>> /\ up
    BY <1>1 DEF StartSession, EndSession, ObserveRunning, ObserveStop, Close, host, durable, process, Free
  <2>2. Holds(sessions, id, app) => Holds(sessions', id, app)
    BY <1>1, <2>1, OperationBeside
  <2> QED BY <2>1, <2>2 DEF Held, Holds
<1>2. ASSUME NEW running \in SUBSET Apps, app \in running, Reconcile(running) PROVE Held(id, app)'
  <2>1. UNCHANGED <<loaded, debt, journal>>
    BY <1>2 DEF Reconcile, host, durable
  <2>2. CASE EMU \notin debt
    BY <2>1, <2>2 DEF Held
  <2>3. CASE EMU \in debt
    <3>1. journal.exists /\ journal.owned /\ loaded # journal.before
      BY <2>3 DEF LeaseInv, ChangesAreOnRecord
    <3>2. ReconcileOwned(running)
      BY <1>2, <3>1 DEF Reconcile, ReconcileNothing, ReconcileFinished, ReconcileAmbiguous
    <3>3. Holds(sessions', id, app)
      BY <1>2, <2>3, <3>2 DEF ReconcileOwned, Held, Holds
    <3> QED BY <2>1, <3>3 DEF Held, Holds
  <2> QED BY <2>2, <2>3
<1>3. CASE Step
  <2>1. up
    BY <1>3, StepInside
  <2>2. CASE EMU \notin debt
    <3>1. CASE UNCHANGED <<loaded, debt>>
      BY <2>2, <3>1 DEF Held
    <3>2. ASSUME owned, NEW load \in BOOLEAN, NEW m \in Modules, NEW ok \in BOOLEAN,
                 ModuleCommand(load, m, ok), ~load /\ m = EMU => EMU \notin before
          PROVE  Held(id, app)'
      <4>1. EMU \in before /\ EMU \in loaded
        BY <2>2, <3>2 DEF ForeignInv, PlayInv, Held
      <4>2. EMU \in loaded'
        BY <3>2, <4>1, CommandEffect DEF LeaseInv, EMU, KVM, KVMAMD
      <4>3. EMU \notin debt'
        BY <2>2, <3>2, <4>1, <4>2, CommandEffect DEF LeaseInv, Changed
      <4> QED BY <4>2, <4>3 DEF Held
    <3> QED BY <1>3, <3>1, <3>2, StepOfOwner
  <2>3. CASE EMU \in debt
    <3>1. Holds(sessions, id, app) /\ Holds(journal.sessions, id, app)
      BY <2>1, <2>3 DEF Held
    <3>2. PersistSessions
      BY <1>3, <3>1, StepInside DEF Holds
    <3> QED BY <3>1, <3>2, PersistStep DEF host, Held, Holds
  <2> QED BY <2>2, <2>3
<1>4. CASE Cancel \/ UNCHANGED vars
  BY <1>4 DEF Cancel, vars, host, durable, process, memory, Held, Holds
<1>5. CASE Kill
  BY <1>5 DEF Kill, Exit, host, durable, Held, Holds
<1> QED
  BY <1>1, <1>2, <1>3, <1>4, <1>5 DEF Beside

-----------------------------------------------------------------------------
\* No two wrappers hold the same session ID.
TicketsDiffer == \A a, b \in Apps : a # b /\ ticket[a] = ticket[b] => ticket[a] = NoId

\* A start under way serves a request, of a wrapper that still waits for it or of one that
\* has given up, and writes its session in its last step.
PendingInv ==
  pc # "free" => \A s \in op.pending :
    /\ op.kind = "start" /\ request[s.app] = "served"
    /\ stage[s.app] = "asking" => ticket[s.app] = s.id
    /\ pc = "persist" => s \in sessions

\* Where notices name their game and are not overtaken, those of a game that runs say so.
NoticesInOrder == \A n \in notices : stage[n.app] # "none" => n.running

\* Every game that plays has the emulation, for the session it was given.
GamesHeld == \A a \in Apps : stage[a] = "playing" => Held(ticket[a], a)

\* What GamesHaveEmulation assumes of notices.
InOrder == nameless = {} /\ ~late

\* What the wrappers, the server and the notices rely on of each other.
LaunchInv ==
  /\ PlayInv /\ TicketsDiffer /\ PendingInv
  /\ InOrder => NoticesInOrder /\ GamesHeld

\* TicketsDiffer is preserved: a session is given an ID that no wrapper holds.
LEMMA TicketsStep ==
  ASSUME LauncherTypeOK, TicketsDiffer, [LauncherNext]_allVars
  PROVE  TicketsDiffer'
<1>1. ASSUME ticket' = ticket PROVE TicketsDiffer'
  BY <1>1 DEF TicketsDiffer
<1>2. ASSUME NEW b \in Apps, ticket' = [ticket EXCEPT ![b] = NoId] PROVE TicketsDiffer'
  BY <1>2 DEF TicketsDiffer, LauncherTypeOK
<1>3. ASSUME NEW b \in Apps, NEW id, \A a \in Apps : ticket[a] # id, ticket' = [ticket EXCEPT ![b] = id]
      PROVE  TicketsDiffer'
  BY <1>3 DEF TicketsDiffer, LauncherTypeOK
<1>4. ASSUME NEW b \in Apps, WrapperNext(b) PROVE TicketsDiffer'
  <2>1. ticket' = ticket \/ ticket' = [ticket EXCEPT ![b] = NoId]
    BY <1>4 DEF WrapperNext, Launch, Unreachable, Timeout, KillWrapper, GameExits, GiveBack, WrapperExits, FailOpen
  <2> QED BY <1>1, <1>2, <2>1
<1>5. ASSUME NEW b \in Apps, Serve(b) PROVE TicketsDiffer'
  <2>1. PICK id \in SessionIds : /\ \A a \in Apps : ticket[a] # id
                                 /\ ticket' = IF stage[b] = "asking" THEN [ticket EXCEPT ![b] = id] ELSE ticket
    BY <1>5 DEF Serve
  <2> QED BY <1>1, <1>3, <2>1
<1>6. ASSUME NEW b \in Apps, NEW granted, Answer(b, granted) PROVE TicketsDiffer'
  <2>1. ticket' = ticket \/ ticket' = [ticket EXCEPT ![b] = NoId]
    BY <1>6 DEF Answer, WrapperExits
  <2> QED BY <1>1, <1>2, <2>1
<1>7. CASE Work
  <2>1. CASE UNCHANGED launcherVars
    BY <1>1, <2>1 DEF launcherVars
  <2>2. ASSUME NEW s \in op.pending, NEW granted, Answer(s.app, granted) PROVE TicketsDiffer'
    <3>1. s.app \in Apps
      BY DEF LauncherTypeOK, TypeOK, Op, Session
    <3> QED BY <1>6, <2>2, <3>1
  <2> QED BY <1>7, <2>1, <2>2 DEF Work
<1>8. CASE (\E n \in notices : Deliver(n)) \/ Restart \/ KillBackend \/ UNCHANGED allVars
  BY <1>1, <1>8 DEF Deliver, Restart, KillBackend, allVars, launcherVars
<1>9. CASE StopPlugin \/ RebootHost
  BY <1>9 DEF StopPlugin, RebootHost, AllGamesEnd, TicketsDiffer
<1> QED
  BY <1>4, <1>5, <1>6, <1>7, <1>8, <1>9 DEF LauncherNext, ServerNext, Refuse

\* What a step leaves of the operation under way.
LEMMA StepPending ==
  ASSUME TypeOK, Step, pc' # "free"
  PROVE  /\ op'.kind = op.kind /\ op'.pending = op.pending
         /\ pc' = "persist" => op.kind = "start" /\ sessions' = op.pending
<1>1. CASE JournalActivation \/ JournalRestore \/ ClearJournal \/ DiscardJournal \/ PersistSessions
  BY <1>1, Returned DEF JournalActivation, JournalRestore, ClearJournal, DiscardJournal, PersistSessions, Goto
<1>2. [op EXCEPT !.rollback = TRUE].kind = op.kind /\ [op EXCEPT !.rollback = TRUE].pending = op.pending
  BY DEF TypeOK, Op
<1>3. CASE RemoveKvmAmd \/ RemoveKvm
  BY <1>2, <1>3 DEF RemoveKvmAmd, RemoveKvm, RemoveStep, Goto, Rollback
<1>4. CASE LoadEmulation
  BY <1>2, <1>4 DEF LoadEmulation, Rollback, Restoring
<1>5. CASE UnloadEmulation \/ ReloadKvmAmd \/ ReloadKvm
  BY <1>5, Returned DEF UnloadEmulation, ReloadKvmAmd, ReloadKvm, RestoreStep, Goto
<1>6. CASE TakeSnapshot
  BY <1>6, Returned DEF TakeSnapshot
<1> QED
  BY <1>1, <1>3, <1>4, <1>5, <1>6 DEF Step

\* An operation that begins without a session to start.
LEMMA NothingPending ==
  ASSUME LeaseInv,
         \/ \E id : EndSession(id)
         \/ \E b, inst : ObserveRunning(b, inst) \/ ObserveStop(b, inst)
         \/ \E running : Reconcile(running)
         \/ Shutdown \/ Kill \/ Reboot
         \/ (Free \/ ~up) /\ UNCHANGED vars
  PROVE  pc' = "free" \/ op'.pending = {}
<1>0. \A kind : Begin(kind).pending = {}
  BY DEF Begin, BeginWith
<1>1. CASE \E id : EndSession(id)
  BY <1>0, <1>1 DEF EndSession, Close, Restoring, Free
<1>2. CASE \E b, inst : ObserveRunning(b, inst) \/ ObserveStop(b, inst)
  BY <1>0, <1>2 DEF ObserveRunning, ObserveStop, Close, Restoring, Free
<1>3. CASE \E running : Reconcile(running)
  BY <1>0, <1>3 DEF Reconcile, ReconcileNothing, ReconcileFinished, ReconcileAmbiguous, ReconcileOwned,
                           LeaseInv, DeadIsBlank
<1>4. CASE Shutdown \/ Kill \/ Reboot
  BY <1>0, <1>4 DEF Shutdown, Kill, Reboot, Exit
<1>5. CASE (Free \/ ~up) /\ UNCHANGED vars
  BY <1>5 DEF Free, vars, LeaseInv, DeadIsBlank
<1> QED
  BY <1>1, <1>2, <1>3, <1>4, <1>5

\* What does not touch the operation under way, nor the wrapper it serves, keeps PendingInv.
LEMMA PendingFrame ==
  ASSUME TypeOK, PendingInv, pc' = pc, sessions' = sessions,
         op'.kind = op.kind, op'.pending = op.pending,
         \A c \in Apps : request[c] = "served" =>
           request'[c] = "served" /\ (stage'[c] = "asking" => stage[c] = "asking" /\ ticket'[c] = ticket[c])
  PROVE  PendingInv'
<1>1. \A s \in op.pending : s.app \in Apps
  BY DEF TypeOK, Op, Session
<1> QED BY <1>1 DEF PendingInv

\* A client that goes away leaves the request that is served, and what serves it.
LEMMA AbandonKeeps ==
  ASSUME TypeOK, NEW a \in Apps, Abandon(a), request \in [Apps -> Requests]
  PROVE  /\ pc' = pc /\ sessions' = sessions /\ op'.kind = op.kind /\ op'.pending = op.pending
         /\ \A c \in Apps : request[c] = "served" => request'[c] = "served"
<1>1. [op EXCEPT !.live = FALSE].kind = op.kind /\ [op EXCEPT !.live = FALSE].pending = op.pending
  BY DEF TypeOK, Op
<1> QED BY <1>1 DEF Abandon, memory

\* What Steam and a wrapper do leaves PendingInv: they change what no start serves, or give up waiting.
LEMMA PendingWrapper ==
  ASSUME LauncherTypeOK, LeaseInv, PendingInv, NEW b \in Apps, WrapperNext(b)
  PROVE  PendingInv'
<1>1. TypeOK /\ request \in [Apps -> Requests] /\ stage \in [Apps -> Stages] /\ ticket \in [Apps -> SessionIds \cup {NoId}]
  BY DEF LauncherTypeOK
<1>2. CASE Launch(b)
  <2>1. \A c \in Apps : request[c] = "served" => c # b
    BY <1>2 DEF Launch
  <2> QED BY <1>1, <1>2, <2>1, PendingFrame DEF Launch, vars, memory
<1>3. CASE Unreachable(b)
  BY <1>1, <1>3, PendingFrame DEF Unreachable, FailOpen, vars, memory
<1>4. CASE Timeout(b)
  BY <1>1, <1>4, PendingFrame, AbandonKeeps DEF Timeout, FailOpen
<1>5. CASE KillWrapper(b)
  BY <1>1, <1>5, PendingFrame, AbandonKeeps DEF KillWrapper, WrapperExits
<1>6. CASE GameExits(b)
  BY <1>1, <1>6, PendingFrame DEF GameExits, WrapperExits, vars, memory
<1>7. CASE GiveBack(b)
  <2>1. (\E id : EndSession(id)) \/ ((Free \/ ~up) /\ UNCHANGED vars)
    BY <1>7 DEF GiveBack
  <2>2. pc' = "free" \/ op'.pending = {}
    BY <2>1, NothingPending
  <2> QED BY <2>2 DEF PendingInv
<1> QED
  BY <1>2, <1>3, <1>4, <1>5, <1>6, <1>7 DEF WrapperNext

\* So does a request that is served or refused.
LEMMA PendingServer ==
  ASSUME LauncherTypeOK, LeaseInv, PendingInv, NEW b \in Apps, ServerNext(b)
  PROVE  PendingInv'
<1>1. TypeOK /\ request \in [Apps -> Requests] /\ stage \in [Apps -> Stages] /\ ticket \in [Apps -> SessionIds \cup {NoId}]
  BY DEF LauncherTypeOK
<1>2. CASE Serve(b)
  <2>1. PICK id \in SessionIds : StartSession(b, id) /\ ticket' = IF stage[b] = "asking" THEN [ticket EXCEPT ![b] = id] ELSE ticket
    BY <1>2 DEF Serve
  <2>2. CASE pc' = "free"
    BY <2>2 DEF PendingInv
  <2>3. CASE pc' # "free"
    <3>1. request'[b] = "served" /\ UNCHANGED stage
      BY <1>1, <1>2, <2>3 DEF Serve
    <3>2. stage[b] = "asking" => ticket'[b] = id
      BY <1>1, <2>1
    <3>3. PICK s : /\ s = [id |-> id, app |-> b, inst |-> Unattached] /\ pc = "free"
                   /\ JoinSession(s) \/ BorrowEmulation(s) \/ ActivateSession(s)
      BY <2>1 DEF StartSession, Free
    <3>4. op'.kind = "start" /\ op'.pending = {s} /\ (pc' = "persist" => s \in sessions')
      BY <2>3, <3>3, BeginFields DEF JoinSession, BorrowEmulation, ActivateSession, Activate
    <3>5. s.app = b /\ s.id = id
      BY <3>3
    <3> QED BY <3>1, <3>2, <3>4, <3>5 DEF PendingInv
  <2> QED BY <2>2, <2>3
<1>3. CASE Refuse(b)
  BY <1>1, <1>3, PendingFrame DEF Refuse, Answer, WrapperExits, vars, memory
<1> QED
  BY <1>2, <1>3 DEF ServerNext

\* PendingInv is preserved.
LEMMA PendingStep ==
  ASSUME LauncherTypeOK, LeaseInv, PendingInv, [LauncherNext]_allVars
  PROVE  PendingInv'
<1>1. ASSUME pc' = "free" \/ op'.pending = {} PROVE PendingInv'
  BY <1>1 DEF PendingInv
<1>2. CASE Work
  <2>1. CASE pc' = "free"
    BY <1>1, <2>1
  <2>2. CASE pc' # "free"
    <3>1. Step /\ UNCHANGED launcherVars
      BY <1>2, <2>2 DEF Work
    <3>2. pc # "free"
      BY <3>1, StepInside
    <3>3. /\ op'.kind = op.kind /\ op'.pending = op.pending
          /\ pc' = "persist" => sessions' = op.pending
      BY <2>2, <3>1, StepPending DEF LeaseInv
    <3> QED BY <3>1, <3>2, <3>3 DEF PendingInv, launcherVars
  <2> QED BY <2>1, <2>2
<1>3. ASSUME NEW n \in notices, Deliver(n) PROVE PendingInv'
  <2>1. (\E c, inst : ObserveRunning(c, inst) \/ ObserveStop(c, inst)) \/ (Free /\ UNCHANGED vars)
    BY <1>3 DEF Deliver
  <2> QED BY <1>1, <2>1, NothingPending
<1>4. CASE Restart \/ KillBackend \/ StopPlugin \/ RebootHost
  BY <1>1, <1>4, NothingPending DEF Restart, KillBackend, StopPlugin, RebootHost
<1>5. CASE UNCHANGED allVars
  BY <1>5 DEF allVars, launcherVars, vars, memory, PendingInv
<1> QED
  BY <1>2, <1>3, <1>4, <1>5, PendingWrapper, PendingServer DEF LauncherNext

-----------------------------------------------------------------------------
\* NoticesInOrder is preserved: nothing but a launch takes a game out of "none", and it finds no notice of the game.
LEMMA NoticesStep ==
  ASSUME LauncherTypeOK, InOrder, NoticesInOrder, [LauncherNext]_allVars
  PROVE  NoticesInOrder'
<1>1. stage \in [Apps -> Stages] /\ \A n \in notices : n.app \in Apps
  BY DEF LauncherTypeOK
<1>2. ASSUME notices' \subseteq notices, \A c \in Apps : stage'[c] # "none" => stage[c] # "none"
      PROVE  NoticesInOrder'
  BY <1>1, <1>2 DEF NoticesInOrder
<1>3. ASSUME NEW b \in Apps, WrapperExits(b) PROVE NoticesInOrder'
  <2>1. \A n \in notices' : n \in notices \/ n.app = b
    BY <1>3 DEF WrapperExits, Post
  <2>2. stage'[b] = "none" /\ \A c \in Apps \ {b} : stage'[c] = stage[c]
    BY <1>1, <1>3 DEF WrapperExits
  <2> QED BY <1>1, <2>1, <2>2 DEF NoticesInOrder
<1>4. ASSUME NEW b \in Apps, Launch(b) PROVE NoticesInOrder'
  <2>1. \A n \in notices : n.app # b
    BY <1>4 DEF Launch, InOrder
  <2>2. \A n \in notices' : n \in notices \/ n.running
    BY <1>4 DEF Launch, Post
  <2>3. \A c \in Apps \ {b} : stage'[c] = stage[c]
    BY <1>1, <1>4 DEF Launch
  <2> QED BY <1>1, <2>1, <2>2, <2>3 DEF NoticesInOrder
<1>5. ASSUME NEW b \in Apps, WrapperNext(b) PROVE NoticesInOrder'
  <2>1. CASE Unreachable(b) \/ Timeout(b)
    BY <1>1, <1>2, <2>1 DEF Unreachable, Timeout, FailOpen
  <2>2. CASE KillWrapper(b) \/ GiveBack(b)
    BY <1>3, <2>2 DEF KillWrapper, GiveBack
  <2>3. CASE GameExits(b)
    BY <1>1, <1>2, <1>3, <2>3 DEF GameExits
  <2> QED BY <1>4, <1>5, <2>1, <2>2, <2>3 DEF WrapperNext
<1>6. ASSUME NEW b \in Apps, NEW granted, Answer(b, granted) PROVE NoticesInOrder'
  BY <1>1, <1>2, <1>3, <1>6 DEF Answer
<1>7. ASSUME NEW b \in Apps, Serve(b) PROVE NoticesInOrder'
  BY <1>1, <1>2, <1>7 DEF Serve
<1>8. CASE Work
  <2>1. CASE UNCHANGED launcherVars
    BY <1>2, <2>1 DEF launcherVars
  <2>2. ASSUME NEW s \in op.pending, NEW granted, Answer(s.app, granted) PROVE NoticesInOrder'
    <3>1. s.app \in Apps
      BY DEF LauncherTypeOK, TypeOK, Op, Session
    <3> QED BY <1>6, <2>2, <3>1
  <2> QED BY <1>8, <2>1, <2>2 DEF Work
<1>9. CASE (\E n \in notices : Deliver(n)) \/ Restart \/ KillBackend \/ UNCHANGED allVars
  BY <1>2, <1>9 DEF Deliver, Restart, KillBackend, allVars, launcherVars
<1>10. CASE StopPlugin \/ RebootHost
  BY <1>10 DEF StopPlugin, RebootHost, AllGamesEnd, NoticesInOrder
<1> QED
  BY <1>5, <1>6, <1>7, <1>8, <1>9, <1>10 DEF LauncherNext, ServerNext, Refuse

-----------------------------------------------------------------------------
\* A game that plays on keeps its ticket, and what happens is beside it.
LEMMA BesideGame ==
  ASSUME LauncherTypeOK, TicketsDiffer, InOrder, NoticesInOrder, [LauncherNext]_allVars,
         NEW a \in Apps, stage[a] = "playing", stage'[a] = "playing"
  PROVE  ticket'[a] = ticket[a] /\ Beside(ticket[a], a)
<1>1. /\ TypeOK /\ stage \in [Apps -> Stages] /\ ticket \in [Apps -> SessionIds \cup {NoId}]
      /\ \A n \in notices : n.app \in Apps /\ n.inst \in Instances \cup {Unattached}
  BY DEF LauncherTypeOK
<1>2. ASSUME NEW b \in Apps, WrapperNext(b) PROVE ticket'[a] = ticket[a] /\ Beside(ticket[a], a)
  <2>1. CASE Launch(b) \/ Unreachable(b) \/ GameExits(b)
    BY <1>1, <2>1 DEF Launch, Unreachable, GameExits, FailOpen, WrapperExits, Beside
  <2>2. CASE Timeout(b) \/ KillWrapper(b)
    <3>1. Cancel \/ UNCHANGED vars
      <4>1. Abandon(b)
        BY <2>2 DEF Timeout, KillWrapper
      <4>2. CASE Serving(b) /\ op.live
        BY <4>1, <4>2, LaunchAssumption DEF Abandon, Serving, Cancel
      <4>3. CASE ~(Serving(b) /\ op.live)
        BY <4>1, <4>3 DEF Abandon, vars
      <4> QED BY <4>2, <4>3
    <3>2. b # a
      BY <1>1, <2>2 DEF Timeout, KillWrapper, FailOpen, WrapperExits
    <3> QED BY <1>1, <2>2, <3>1, <3>2 DEF Timeout, KillWrapper, FailOpen, WrapperExits, Beside
  <2>3. CASE GiveBack(b)
    <3>1. b # a /\ ticket'[a] = ticket[a]
      BY <1>1, <2>3 DEF GiveBack, WrapperExits
    <3>2. CASE UNCHANGED vars
      BY <3>1, <3>2 DEF Beside
    <3>3. CASE EndSession(ticket[b])
      <4>1. ticket[b] \in SessionIds
        BY <1>1, <3>3 DEF EndSession, TypeOK, Session
      <4>2. ticket[b] # ticket[a]
        BY <3>1, <4>1, LaunchAssumption DEF TicketsDiffer
      <4> QED BY <3>1, <3>3, <4>1, <4>2 DEF Beside
    <3> QED BY <2>3, <3>2, <3>3 DEF GiveBack
  <2> QED BY <1>2, <2>1, <2>2, <2>3 DEF WrapperNext
<1>3. ASSUME NEW b \in Apps, ServerNext(b) PROVE ticket'[a] = ticket[a] /\ Beside(ticket[a], a)
  <2>1. CASE Serve(b)
    BY <1>1, <2>1 DEF Serve, Beside
  <2>2. CASE Refuse(b)
    BY <1>1, <2>2 DEF Refuse, Answer, WrapperExits, Beside
  <2> QED BY <1>3, <2>1, <2>2 DEF ServerNext
<1>4. CASE Work
  <2>1. \A s \in op.pending : s.app \in Apps
    BY <1>1 DEF TypeOK, Op, Session
  <2> QED BY <1>1, <1>4, <2>1 DEF Work, Answer, WrapperExits, launcherVars, Beside
<1>5. ASSUME NEW n \in notices, Deliver(n) PROVE ticket'[a] = ticket[a] /\ Beside(ticket[a], a)
  <2>1. \/ UNCHANGED vars
        \/ ObserveRunning(n.app, n.inst)
        \/ ~n.running /\ ObserveStop(n.app, n.inst)
    BY <1>1, <1>5 DEF Deliver, InOrder
  <2>2. ~n.running => n.app # a
    BY DEF NoticesInOrder
  <2> QED BY <1>1, <1>5, <2>1, <2>2 DEF Deliver, Beside
<1>6. CASE Restart
  <2>1. a \in Running /\ Running \in SUBSET Apps
    BY DEF Running
  <2> QED BY <1>6, <2>1 DEF Restart, launcherVars, Beside
<1>7. CASE KillBackend \/ UNCHANGED allVars
  BY <1>7 DEF KillBackend, allVars, launcherVars, Beside
<1>8. CASE StopPlugin \/ RebootHost
  BY <1>8 DEF StopPlugin, RebootHost, AllGamesEnd, Dropped
<1> QED
  BY <1>2, <1>3, <1>4, <1>5, <1>6, <1>7, <1>8 DEF LauncherNext

\* A game begins to play on an answer: of a session on another's emulation, or of one that the
\* last step of a start has put on record.
LEMMA NewGame ==
  ASSUME LauncherTypeOK, LeaseInv, PlayInv, PlayInv', PendingInv, [LauncherNext]_allVars,
         NEW a \in Apps, stage[a] # "playing", stage'[a] = "playing"
  PROVE  Held(ticket[a], a)'
<1>1. /\ stage \in [Apps -> Stages] /\ ticket \in [Apps -> SessionIds \cup {NoId}]
      /\ \A s \in op.pending : s.app \in Apps
  BY DEF LauncherTypeOK, TypeOK, Op, Session
<1>2. \/ Serve(a) /\ pc' = "free"
      \/ /\ Step /\ pc' = "free"
         /\ \E s \in op.pending : /\ s.app = a /\ stage[a] = "asking" /\ ticket' = ticket
                                  /\ s.id \in Ids(sessions') /\ state' # "recovery-required"
  <2>1. ASSUME NEW b \in Apps, WrapperNext(b) PROVE FALSE
    BY <1>1, <2>1 DEF WrapperNext, Launch, Unreachable, Timeout, KillWrapper, GameExits, GiveBack,
                      FailOpen, WrapperExits
  <2>2. ASSUME NEW b \in Apps, ServerNext(b) PROVE b = a /\ Serve(a) /\ pc' = "free"
    <3>1. ~Refuse(b)
      BY <1>1 DEF Refuse, Answer, WrapperExits
    <3> QED BY <1>1, <2>2, <3>1 DEF ServerNext, Serve
  <2>3. CASE Work
    <3>1. stage' # stage
      OBVIOUS
    <3>2. PICK s \in op.pending :
            Answer(s.app, s.id \in Ids(sessions') /\ state' # "recovery-required")
      BY <2>3, <3>1 DEF Work, launcherVars
    <3>3. /\ s.app = a /\ stage[a] = "asking" /\ ticket' = ticket
          /\ s.id \in Ids(sessions') /\ state' # "recovery-required"
      BY <1>1, <3>2 DEF Answer, WrapperExits
    <3>4. Step /\ pc' = "free"
      BY <2>3, <3>1 DEF Work, launcherVars
    <3> QED BY <3>3, <3>4
  <2>4. ~((\E n \in notices : Deliver(n)) \/ Restart \/ KillBackend \/ UNCHANGED allVars)
    BY DEF Deliver, Restart, KillBackend, allVars, launcherVars
  <2>5. ~(StopPlugin \/ RebootHost)
    BY DEF StopPlugin, RebootHost, AllGamesEnd, Dropped
  <2> QED BY <2>1, <2>2, <2>3, <2>4, <2>5 DEF LauncherNext
<1>3. CASE Serve(a) /\ pc' = "free"
  <2>1. PICK id \in SessionIds : StartSession(a, id)
    BY <1>3 DEF Serve
  <2>2. EMU \in loaded /\ ~owned
    BY <1>3, <2>1 DEF StartSession, JoinSession, BorrowEmulation, ActivateSession, Activate, PlayInv
  <2>3. up /\ UNCHANGED <<loaded, debt>>
    BY <2>1 DEF StartSession, Free, host
  <2>4. debt = {}
    BY <2>2, <2>3 DEF LeaseInv, DebtIsHeld
  <2> QED BY <2>2, <2>3, <2>4 DEF Held
<1>4. CASE Step /\ pc' = "free" /\ ~Serve(a)
  <2>1. PICK s \in op.pending : /\ s.app = a /\ stage[a] = "asking" /\ ticket' = ticket
                                /\ s.id \in Ids(sessions') /\ state' # "recovery-required"
    BY <1>2, <1>4
  <2>2. pc # "free" /\ up
    BY <1>4, StepInside
  <2>3. op.kind = "start" /\ ticket[a] = s.id /\ (pc = "persist" => s \in sessions)
    BY <2>1, <2>2 DEF PendingInv
  <2>4. sessions' # {}
    BY <2>1 DEF Ids
  <2>5. PersistSessions
    <3>1. ~LoadEmulation
      BY <1>4 DEF LoadEmulation, Rollback, Restoring
    <3> QED BY <1>4, <2>4, <3>1, StepSessions, StepInside
  <2>6. s \in sessions' /\ s \in journal'.sessions
    BY <2>1, <2>3, <2>4, <2>5, PersistStep DEF PersistSessions
  <2>7. EMU \in loaded'
    BY <2>4 DEF PlayInv
  <2> QED BY <2>1, <2>3, <2>6, <2>7 DEF Held, Holds
<1> QED
  BY <1>2, <1>3, <1>4

\* GamesHeld is preserved.
LEMMA GamesStep ==
  ASSUME LauncherTypeOK, LeaseInv, ForeignInv, LaunchInv, PlayInv', InOrder, [LauncherNext]_allVars
  PROVE  GamesHeld'
<1>1. PlayInv /\ TicketsDiffer /\ PendingInv /\ NoticesInOrder /\ GamesHeld
  BY DEF LaunchInv
<1>2. ASSUME NEW a \in Apps, stage[a] = "playing", stage'[a] = "playing" PROVE Held(ticket[a], a)'
  <2>1. PICK id : id = ticket[a]
    OBVIOUS
  <2>2. ticket'[a] = id /\ Beside(id, a)
    BY <1>1, <1>2, <2>1, BesideGame
  <2>3. Held(id, a)
    BY <1>1, <1>2, <2>1 DEF GamesHeld
  <2>4. Held(id, a)'
    BY <1>1, <2>2, <2>3, KeptStep
  <2> QED BY <2>2, <2>4 DEF Held, Holds
<1>3. ASSUME NEW a \in Apps, stage[a] # "playing", stage'[a] = "playing" PROVE Held(ticket[a], a)'
  BY <1>1, <1>3, NewGame
<1> QED
  BY <1>2, <1>3 DEF GamesHeld

\* LaunchInv holds initially.
LEMMA LaunchInit == LauncherInit => LaunchInv
<1> SUFFICES ASSUME LauncherInit PROVE LaunchInv
  OBVIOUS
<1>1. PlayInv /\ pc = "free" /\ notices = {}
  BY DEF LauncherInit, Init, PlayInv
<1>2. \A a \in Apps : stage[a] = "none" /\ ticket[a] = NoId
  BY DEF LauncherInit
<1> QED
  BY <1>1, <1>2 DEF LaunchInv, TicketsDiffer, PendingInv, NoticesInOrder, GamesHeld

\* LaunchInv is inductive.
LEMMA LaunchStep ==
  LauncherTypeOK /\ LeaseInv /\ ForeignInv /\ LaunchInv /\ [LauncherNext]_allVars => LaunchInv'
<1> SUFFICES ASSUME LauncherTypeOK, LeaseInv, ForeignInv, LaunchInv, [LauncherNext]_allVars
             PROVE  LaunchInv'
  OBVIOUS
<1>1. PlayInv /\ TicketsDiffer /\ PendingInv /\ (InOrder => NoticesInOrder)
  BY DEF LaunchInv
<1>2. PlayInv' /\ TicketsDiffer' /\ PendingInv'
  BY <1>1, ControllerStep, PlayStep, TicketsStep, PendingStep
<1>3. UNCHANGED <<nameless, late>>
  BY DEF LauncherNext, WrapperNext, ServerNext, Launch, Unreachable, Timeout, KillWrapper, GameExits, GiveBack,
         WrapperExits, Interrupt, Serve, Refuse, Answer, Work, Deliver, Restart, KillBackend, StopPlugin,
         RebootHost, AllGamesEnd, allVars, launcherVars, counts, settled
<1>4. InOrder => NoticesInOrder' /\ GamesHeld'
  BY <1>1, <1>2, NoticesStep, GamesStep
<1> QED
  BY <1>2, <1>3, <1>4 DEF LaunchInv, InOrder

\* A game that was told it has emulation has it for as long as it plays, through launches, ends
\* and kills of other games, time-outs, and deaths and restarts of the backend, where notices name
\* their application and are not overtaken by its next launch, on a host that does not load the
\* emulation at boot.
THEOREM GamesAreHeld == ASSUME EMU \notin BootModules PROVE LauncherSpec => []GamesHaveEmulation
<1>1. LaunchInv => GamesHaveEmulation
  BY DEF LaunchInv, InOrder, GamesHeld, Held, GamesHaveEmulation, EmulationWhilePlaying
<1>2. LauncherSpec => []ForeignInv
  BY ImplementsController, ForeignHolds, PTL DEF ControllerSpec
<1>3. LauncherSpec => []LeaseInv
  BY ImplementsController, LeaseInvariant, PTL DEF ControllerSpec
<1> QED
  BY <1>1, <1>2, <1>3, LaunchInit, LaunchStep, LauncherTypeCorrect, PTL DEF LauncherSpec

-----------------------------------------------------------------------------
(* What is given back when the games have ended.                           *)

\* What RestoredAfterLastGame assumes: no wrapper was killed, no request timed out, and
\* neither the backend nor the host went down.
Undisturbed == interrupts = 0 /\ crashes = 0

\* The controller knows of the ownership on record: no restart has to take it over.
OwnedInMemory == journal.exists /\ journal.owned => owned

\* The operation under way can run its commands, and its last write neither ends the
\* process nor asks for recovery.
Obeyed ==
  pc # "free" => /\ op.live
                 /\ pc = "persist" => op.kind # "shutdown" /\ (op.kind = "start" => state # "recovery-required")

\* An ID names one session.
Distinct(ss) == \A s, t \in ss : s.id = t.id => s = t

\* A request at the server is one that a wrapper waits for.
Waiting == \A a \in Apps : request[a] # "none" => stage[a] = "asking"

\* A wrapper answers for each session: it holds its ID, and has the DELETE still to send.
Answers(s) ==
  /\ ticket[s.app] = s.id
  /\ stage[s.app] \in {"playing", "ending"} \/ (stage[s.app] = "asking" /\ request[s.app] = "served")

\* Every session has a wrapper that will give it back.
Accounted == \A s \in sessions : Answers(s)

\* No session is lost between the controller, the server and the wrappers.
AllAnswered ==
  /\ Distinct(sessions)
  /\ pc # "free" => Distinct(op.pending)
  /\ Waiting /\ Accounted

\* Why the last game to end leaves no session behind.
EndsInv == Undisturbed => OwnedInMemory /\ Obeyed /\ AllAnswered

\* On a disk and with a modprobe that work, the steps of an operation keep the record and
\* the memory together, and the operation obeyed.
LEMMA ObeyedStep ==
  ASSUME ~Unreliable, LeaseInv, OwnedInMemory, Obeyed, Step
  PROVE  /\ OwnedInMemory' /\ Obeyed'
         /\ PersistSessions => UNCHANGED <<state, sessions>>
<1>1. /\ up /\ pc # "free" /\ op.live /\ TypeOK
      /\ pc = "persist" => op.kind # "shutdown"
      /\ pc \notin {"preflight", "discard"} => owned
  BY StepInside DEF Obeyed, LeaseInv, HeldWhileChanging
<1>2. \A r : \A ok \in BOOLEAN : Replace(r, ok) => ok /\ journal' = r
  BY DEF Replace
<1>3. [op EXCEPT !.rollback = TRUE].live = op.live
  BY <1>1 DEF TypeOK, Op
<1>4. ~NoRecord.exists
  BY DEF NoRecord
<1>5. CASE JournalActivation
  <2>1. Goto("remove_kvm_amd") /\ pc \notin {"preflight", "discard"}
    BY <1>2, <1>5 DEF JournalActivation, Write
  <2> QED BY <1>1, <2>1 DEF Goto, memory, OwnedInMemory, Obeyed, PersistSessions
<1>6. CASE RemoveKvmAmd \/ RemoveKvm
  BY <1>1, <1>3, <1>6 DEF RemoveKvmAmd, RemoveKvm, RemoveStep, Goto, Rollback, memory, durable, OwnedInMemory, Obeyed, PersistSessions
<1>7. CASE LoadEmulation
  <2>1. pc = "load_emulation" /\ UNCHANGED <<journal, owned>>
    BY <1>7 DEF LoadEmulation, Rollback, memory
  <2>2. \/ pc' = "unload_emulation" /\ op' = [op EXCEPT !.rollback = TRUE]
        \/ pc' = "persist" /\ op' = op /\ op.kind = "start" /\ state' = "emulation-active"
        \/ pc' = "journal_restore" /\ op' = op
    BY <1>7 DEF LoadEmulation, Rollback, Restoring
  <2> QED BY <1>1, <1>3, <2>1, <2>2 DEF OwnedInMemory, Obeyed, PersistSessions
<1>8. CASE PersistSessions
  <2>1. Return(TRUE, state, owned) /\ owned /\ op.kind # "shutdown"
    BY <1>1, <1>2, <1>8 DEF PersistSessions, Write
  <2> QED BY <2>1 DEF Return, OwnedInMemory, Obeyed
<1>9. CASE JournalRestore
  <2>1. Goto("unload_emulation") /\ pc \notin {"preflight", "discard"}
    BY <1>2, <1>9 DEF JournalRestore, Write
  <2> QED BY <1>1, <2>1, <1>9 DEF Goto, memory, OwnedInMemory, Obeyed, PersistSessions, JournalRestore
<1>10. CASE UnloadEmulation \/ ReloadKvmAmd \/ ReloadKvm
  <2>1. ASSUME NEW here, here # "persist", NEW load, NEW m, Permitted(load, m), NEW needed,
               NEW next, next # "persist", RestoreStep(here, load, m, needed, next)
        PROVE  OwnedInMemory' /\ Obeyed' /\ pc # "persist"
    <3>1. \A ok \in BOOLEAN : ModuleCommand(load, m, ok) => ok
      BY <1>1, <2>1 DEF ModuleCommand
    <3>2. Goto(next) /\ UNCHANGED durable /\ pc # "persist"
      BY <2>1, <3>1 DEF RestoreStep
    <3> QED BY <1>1, <2>1, <3>2 DEF Goto, durable, memory, OwnedInMemory, Obeyed
  <2>2. Permitted(FALSE, EMU) /\ \A m : Permitted(TRUE, m)
    BY DEF Permitted
  <2>3. UnloadEmulation => OwnedInMemory' /\ Obeyed' /\ pc # "persist"
    BY <2>1, <2>2 DEF UnloadEmulation
  <2>4. ReloadKvmAmd => OwnedInMemory' /\ Obeyed' /\ pc # "persist"
    BY <2>1, <2>2 DEF ReloadKvmAmd
  <2>5. ReloadKvm => OwnedInMemory' /\ Obeyed' /\ pc # "persist"
    BY <2>1, <2>2 DEF ReloadKvm
  <2> QED BY <1>10, <2>3, <2>4, <2>5 DEF PersistSessions
<1>11. CASE ClearJournal \/ DiscardJournal
  <2>1. journal' = NoRecord /\ pc' = "free" /\ pc # "persist"
    BY <1>2, <1>11, Returned DEF ClearJournal, DiscardJournal, Clear
  <2> QED BY <1>4, <2>1 DEF OwnedInMemory, Obeyed, PersistSessions
<1>12. CASE TakeSnapshot
  <2>1. ~(journal.exists /\ journal.owned) /\ UNCHANGED journal /\ pc # "persist"
    BY <1>12, Preflight DEF OwnedInMemory, durable
  <2>2. pc' # "persist" /\ (pc' # "free" => op' = op)
    BY <1>12, Returned DEF TakeSnapshot
  <2> QED BY <1>1, <2>1, <2>2 DEF OwnedInMemory, Obeyed, PersistSessions
<1> QED
  BY <1>5, <1>6, <1>7, <1>8, <1>9, <1>10, <1>11, <1>12 DEF Step

\* So do the operations up to their first step.
LEMMA ObeyedOperation ==
  ASSUME LeaseInv, OwnedInMemory, Operation
  PROVE  OwnedInMemory' /\ Obeyed'
<1>1. \A kind, ss : Begin(kind).live /\ BeginWith(kind, ss).live
  BY DEF Begin, BeginWith
<1>2. Free /\ UNCHANGED journal
  BY DEF Operation, TestModule, Shutdown, EndSession, StartSession, ObserveRunning, ObserveStop, Close, durable, Free
<1>3. CASE TestModule
  BY <1>1, <1>2, <1>3 DEF TestModule, Activate, memory, OwnedInMemory, Obeyed
<1>4. CASE Shutdown
  BY <1>1, <1>2, <1>4 DEF Shutdown, Exit, Restoring, OwnedInMemory, Obeyed
<1>5. ASSUME NEW id, NEW app, StartSession(app, id) PROVE OwnedInMemory' /\ Obeyed'
  BY <1>1, <1>2, <1>5, BeginFields DEF StartSession, JoinSession, BorrowEmulation, ActivateSession, Activate, memory, Free, OwnedInMemory, Obeyed
<1>6. ASSUME NEW kind \in {"end", "lifetime"}, NEW rest, NEW s, Close(kind, rest, s) PROVE OwnedInMemory' /\ Obeyed'
  BY <1>1, <1>2, <1>6, BeginFields DEF Close, Restoring, Free, OwnedInMemory, Obeyed
<1>7. ASSUME NEW app, NEW inst, ObserveRunning(app, inst) PROVE OwnedInMemory' /\ Obeyed'
  BY <1>1, <1>2, <1>7, BeginFields DEF ObserveRunning, Free, OwnedInMemory, Obeyed
<1> QED
  BY <1>3, <1>4, <1>5, <1>6, <1>7 DEF Operation, EndSession, ObserveStop

\* A backend that starts finds no ownership to take over.
LEMMA ObeyedReconcile ==
  ASSUME LeaseInv, OwnedInMemory, NEW running, Reconcile(running)
  PROVE  OwnedInMemory' /\ Obeyed' /\ sessions' = {}
<1>1. ~owned /\ sessions = {} /\ pc = "free" /\ ~(journal.exists /\ journal.owned)
  BY DEF Reconcile, LeaseInv, DeadIsBlank, OwnedInMemory
<1>2. \A kind : Begin(kind).live
  BY DEF Begin, BeginWith
<1>3. UNCHANGED journal
  BY DEF Reconcile, durable
<1> QED
  BY <1>1, <1>2, <1>3 DEF Reconcile, ReconcileNothing, ReconcileFinished, ReconcileAmbiguous, ReconcileOwned,
                          memory, OwnedInMemory, Obeyed

\* Sessions that stay or change their instance only, of wrappers that hold on to their
\* tickets, stay accounted for.
LEMMA AnswersKept ==
  ASSUME Accounted,
         \A t \in sessions' : /\ \E s \in sessions : s.id = t.id /\ s.app = t.app
                              /\ ticket'[t.app] = ticket[t.app]
                              /\ \/ stage'[t.app] = stage[t.app] /\ request'[t.app] = request[t.app]
                                 \/ stage'[t.app] \in {"playing", "ending"}
  PROVE  Accounted'
<1> SUFFICES ASSUME NEW t \in sessions' PROVE Answers(t)'
  BY DEF Accounted
<1>1. PICK s \in sessions : s.id = t.id /\ s.app = t.app
  OBVIOUS
<1> QED BY <1>1 DEF Accounted, Answers

\* Nothing that a wrapper does of itself leaves a session behind.
LEMMA AnsweredWrapper ==
  ASSUME LauncherTypeOK, LeaseInv, AllAnswered, NEW a \in Apps,
         Launch(a) \/ Unreachable(a) \/ GameExits(a) \/ GiveBack(a)
  PROVE  AllAnswered'
<1>1. /\ stage \in [Apps -> Stages] /\ ticket \in [Apps -> SessionIds \cup {NoId}] /\ request \in [Apps -> Requests]
      /\ \A s \in sessions : s.app \in Apps
  BY DEF LauncherTypeOK, TypeOK, Session
<1>2. /\ Waiting /\ Accounted /\ Distinct(sessions)
      /\ pc # "free" => Distinct(op.pending)
  BY DEF AllAnswered
<1>3. ASSUME UNCHANGED vars, Waiting', Accounted' PROVE AllAnswered'
  BY <1>2, <1>3 DEF vars, memory, AllAnswered, Distinct
<1>4. CASE Launch(a)
  <2>1. \A s \in sessions : s.app # a
    BY <1>2, <1>4 DEF Launch, Accounted, Answers
  <2>2. Accounted'
    BY <1>1, <1>2, <1>4, <2>1, AnswersKept DEF Launch, vars, memory
  <2>3. Waiting'
    BY <1>1, <1>2, <1>4 DEF Launch, Waiting
  <2> QED BY <1>3, <1>4, <2>2, <2>3 DEF Launch
<1>5. CASE Unreachable(a)
  <2>1. \A s \in sessions : s.app # a
    BY <1>2, <1>5 DEF Unreachable, Accounted, Answers
  <2>2. Accounted'
    BY <1>1, <1>2, <1>5, <2>1, AnswersKept DEF Unreachable, FailOpen, vars, memory
  <2>3. Waiting'
    BY <1>1, <1>2, <1>5 DEF Unreachable, FailOpen, Waiting
  <2> QED BY <1>3, <1>5, <2>2, <2>3 DEF Unreachable
<1>6. CASE GameExits(a)
  <2>1. stage[a] = "open" => \A s \in sessions : s.app # a
    BY <1>2 DEF Accounted, Answers
  <2>2. Accounted'
    BY <1>1, <1>2, <1>6, <2>1, AnswersKept DEF GameExits, WrapperExits, vars, memory
  <2>3. Waiting'
    BY <1>1, <1>2, <1>6 DEF GameExits, WrapperExits, Waiting
  <2> QED BY <1>3, <1>6, <2>2, <2>3 DEF GameExits
<1>7. CASE GiveBack(a)
  <2>1. /\ stage[a] = "ending" /\ request' = request
        /\ stage' = [stage EXCEPT ![a] = "none"] /\ ticket' = [ticket EXCEPT ![a] = NoId]
    BY <1>7 DEF GiveBack, WrapperExits
  <2>2. Waiting'
    BY <1>1, <1>2, <2>1 DEF Waiting
  <2>3. ASSUME sessions' \subseteq sessions, \A s \in sessions' : s.app # a PROVE Accounted'
    BY <1>1, <1>2, <2>1, <2>3, AnswersKept
  <2>4. CASE EndSession(ticket[a])
    <3>1. PICK t \in sessions : t.id = ticket[a] /\ sessions' = sessions \ {t}
      BY <2>4 DEF EndSession, Close
    <3>2. \A s \in sessions' : s.app # a
      BY <1>2, <3>1 DEF Accounted, Answers, Distinct
    <3>3. pc' = "free" \/ op'.pending = {}
      BY <2>4, NothingPending
    <3>4. Distinct(sessions') /\ (pc' # "free" => Distinct(op'.pending))
      BY <1>2, <3>1, <3>3 DEF Distinct
    <3> QED BY <2>2, <2>3, <3>1, <3>2, <3>4 DEF AllAnswered, Distinct
  <2>5. CASE UNCHANGED vars /\ (ticket[a] \notin Ids(sessions) \/ ~up)
    <3>1. \A s \in sessions : s.app # a
      BY <1>2, <2>5 DEF LeaseInv, DeadIsBlank, Accounted, Answers, Ids
    <3> QED BY <1>3, <2>2, <2>3, <2>5, <3>1 DEF vars, memory
  <2> QED BY <1>7, <2>4, <2>5 DEF GiveBack
<1> QED BY <1>4, <1>5, <1>6, <1>7

\* A session that is started is its wrapper's; a wrapper that is refused has none.
LEMMA AnsweredServer ==
  ASSUME LauncherTypeOK, LeaseInv, AllAnswered, NEW a \in Apps, ServerNext(a)
  PROVE  AllAnswered'
<1>1. /\ stage \in [Apps -> Stages] /\ ticket \in [Apps -> SessionIds \cup {NoId}] /\ request \in [Apps -> Requests]
      /\ \A s \in sessions : s.app \in Apps
  BY DEF LauncherTypeOK, TypeOK, Session
<1>2. /\ Waiting /\ Accounted /\ Distinct(sessions)
      /\ pc # "free" => Distinct(op.pending)
  BY DEF AllAnswered
<1>3. request[a] \in {"queued", "abandoned"} /\ stage[a] = "asking"
  BY <1>2 DEF ServerNext, Serve, Refuse, Waiting
<1>4. \A s \in sessions : s.app # a
  BY <1>2, <1>3 DEF Accounted, Answers
<1>5. CASE Serve(a)
  <2>1. PICK id \in SessionIds : /\ \A b \in Apps : ticket[b] # id
                                 /\ StartSession(a, id) /\ ticket' = [ticket EXCEPT ![a] = id]
    BY <1>3, <1>5 DEF Serve
  <2>2. PICK s : /\ s = [id |-> id, app |-> a, inst |-> Unattached] /\ pc = "free"
                 /\ JoinSession(s) \/ BorrowEmulation(s) \/ ActivateSession(s)
    BY <2>1 DEF StartSession, Free
  <2>3. s.id = id /\ s.app = a
    BY <2>2
  <2>4. /\ sessions' = sessions \cup {s} \/ (sessions' = sessions /\ pc' # "free")
        /\ pc' # "free" => op'.pending = {s}
    BY <2>2, BeginFields DEF JoinSession, BorrowEmulation, ActivateSession, Activates, Activate, memory
  <2>5. \A t \in sessions : t.id # id
    BY <1>1, <1>2, <2>1 DEF Accounted, Answers
  <2>6. Distinct(sessions') /\ (pc' # "free" => Distinct(op'.pending))
    BY <1>2, <2>3, <2>4, <2>5 DEF Distinct
  <2>7. \/ pc' # "free" /\ request'[a] = "served" /\ stage'[a] = "asking"
        \/ pc' = "free" /\ request'[a] = "none" /\ stage'[a] = "playing"
    BY <1>1, <1>3, <1>5 DEF Serve
  <2>8. \A b \in Apps \ {a} : stage'[b] = stage[b] /\ request'[b] = request[b] /\ ticket'[b] = ticket[b]
    BY <1>1, <1>5, <2>1 DEF Serve
  <2>9. Accounted'
    <3> SUFFICES ASSUME NEW t \in sessions' PROVE Answers(t)'
      BY DEF Accounted
    <3>1. CASE t \in sessions
      BY <1>1, <1>2, <1>4, <2>8, <3>1 DEF Accounted, Answers
    <3>2. CASE t = s
      <4>1. ticket'[a] = id
        BY <1>1, <2>1
      <4> QED BY <2>3, <2>7, <3>2, <4>1 DEF Answers
    <3> QED BY <2>4, <3>1, <3>2
  <2>10. Waiting'
    BY <1>2, <2>7, <2>8 DEF Waiting
  <2> QED BY <2>6, <2>9, <2>10 DEF AllAnswered, Distinct
<1>6. CASE Refuse(a)
  <2>1. UNCHANGED vars
    BY <1>6 DEF Refuse
  <2>2. /\ request' = [request EXCEPT ![a] = "none"] /\ stage' = [stage EXCEPT ![a] = "none"]
        /\ ticket' = [ticket EXCEPT ![a] = NoId]
    BY <1>3, <1>6 DEF Refuse, Answer, WrapperExits
  <2>3. Accounted'
    BY <1>1, <1>2, <1>4, <2>1, <2>2, AnswersKept DEF vars, memory
  <2>4. Waiting'
    BY <1>1, <1>2, <2>2 DEF Waiting
  <2> QED BY <1>2, <2>1, <2>3, <2>4 DEF AllAnswered, Distinct, vars, memory
<1> QED BY <1>5, <1>6 DEF ServerNext

\* Where an operation takes its sessions from: those there were, none, or those it starts.
LEMMA StepSources ==
  ASSUME LeaseInv, Step
  PROVE  \/ sessions' = {}
         \/ PersistSessions /\ pc' = "free"
         \/ LoadEmulation /\ op.kind = "start" /\ sessions' = op.pending /\ pc' # "free"
<1>1. CASE LoadEmulation
  <2>1. sessions = {}
    BY <1>1, StepInside DEF LoadEmulation, PersistSessions
  <2> QED BY <1>1, <2>1 DEF LoadEmulation, Rollback, Restoring, memory
<1>2. CASE ~LoadEmulation /\ ~PersistSessions
  BY <1>2, StepSessions, StepInside
<1>3. CASE PersistSessions
  BY <1>3, PersistStep
<1> QED BY <1>1, <1>2, <1>3

\* The operation under way hands its session over to the wrapper that waits for it.
LEMMA AnsweredWork ==
  ASSUME ~Unreliable, LauncherTypeOK, LeaseInv, PendingInv, OwnedInMemory, Obeyed, AllAnswered, Work
  PROVE  AllAnswered'
<1>1. /\ stage \in [Apps -> Stages] /\ ticket \in [Apps -> SessionIds \cup {NoId}] /\ request \in [Apps -> Requests]
      /\ \A s \in sessions \cup op.pending : s.app \in Apps
  BY DEF LauncherTypeOK, TypeOK, Op, Session
<1>2. Waiting /\ Accounted /\ Distinct(sessions) /\ Distinct(op.pending) /\ Step
  BY StepInside DEF AllAnswered, Work
<1>3. \A s \in op.pending : op.kind = "start" /\ Answers(s) /\ stage[s.app] = "asking"
  BY <1>1, <1>2, StepInside DEF PendingInv, Waiting, Answers
<1>4. Distinct(sessions') /\ (pc' # "free" => Distinct(op'.pending))
  <2>1. pc' # "free" => op'.pending = op.pending
    BY <1>2, StepPending DEF LeaseInv
  <2>2. sessions' \in {sessions, {}, op.pending}
    BY <1>2, StepSources, PersistStep
  <2> QED BY <1>2, <2>1, <2>2 DEF Distinct
<1>5. CASE UNCHANGED launcherVars /\ ~(PersistSessions /\ op.pending # {})
  <2>1. Accounted'
    <3>1. sessions' \in {{}, op.pending} \/ sessions' = sessions
      BY <1>2, StepSources, PersistStep
    <3> QED BY <1>2, <1>3, <1>5, <3>1 DEF launcherVars, Accounted, Answers
  <2>2. Waiting'
    BY <1>2, <1>5 DEF launcherVars, Waiting
  <2> QED BY <1>4, <2>1, <2>2 DEF AllAnswered, Distinct
<1>6. ASSUME NEW s \in op.pending, pc' = "free", Answer(s.app, s.id \in Ids(sessions') /\ state' # "recovery-required")
      PROVE  AllAnswered'
  <2>1. Waiting'
    BY <1>1, <1>2, <1>6 DEF Answer, WrapperExits, Waiting
  <2>2. CASE PersistSessions
    <3>1. UNCHANGED <<state, sessions>> /\ s \in sessions /\ state # "recovery-required"
      BY <1>2, <1>3, <2>2, StepInside, ObeyedStep DEF PendingInv, Obeyed, PersistSessions
    <3>2. s.id \in Ids(sessions') /\ state' # "recovery-required"
      BY <3>1 DEF Ids
    <3>3. /\ stage' = [stage EXCEPT ![s.app] = "playing"] /\ ticket' = ticket
          /\ request' = [request EXCEPT ![s.app] = "none"]
      BY <1>3, <1>6, <3>2 DEF Answer
    <3>4. Accounted'
      BY <1>1, <1>2, <3>1, <3>3, AnswersKept
    <3> QED BY <1>4, <2>1, <3>4 DEF AllAnswered, Distinct
  <2>3. CASE ~PersistSessions
    <3>1. sessions' = {}
      BY <1>2, <1>6, <2>3, StepSources
    <3> QED BY <1>4, <2>1, <3>1 DEF AllAnswered, Accounted, Distinct
  <2> QED BY <2>2, <2>3
<1>7. PersistSessions => pc' = "free"
  BY PersistStep
<1> QED BY <1>5, <1>6, <1>7 DEF Work

\* A notice changes the instance of a session or ends sessions.
LEMMA AnsweredDeliver ==
  ASSUME LauncherTypeOK, LeaseInv, AllAnswered, NEW n \in notices, Deliver(n)
  PROVE  AllAnswered'
<1>1. Waiting /\ Accounted /\ Distinct(sessions) /\ UNCHANGED <<stage, ticket, request>>
  BY DEF AllAnswered, Deliver
<1>2. pc' = "free" \/ op'.pending = {}
  <2>1. (\E c, inst : ObserveRunning(c, inst) \/ ObserveStop(c, inst)) \/ (Free /\ UNCHANGED vars)
    BY DEF Deliver
  <2> QED BY <2>1, NothingPending
<1>3. ASSUME \A t \in sessions' : \E s \in sessions : s.id = t.id /\ s.app = t.app, Distinct(sessions')
      PROVE  AllAnswered'
  BY <1>1, <1>2, <1>3, AnswersKept DEF AllAnswered, Waiting, Distinct
<1>4. CASE sessions' \subseteq sessions
  BY <1>1, <1>3, <1>4 DEF Distinct
<1>5. ASSUME NEW c, NEW inst, ObserveRunning(c, inst) PROVE AllAnswered'
  <2>1. PICK s \in sessions : sessions' = (sessions \ {s}) \cup {[s EXCEPT !.inst = inst]}
    BY <1>5 DEF ObserveRunning
  <2>2. PICK t : t = [s EXCEPT !.inst = inst]
    OBVIOUS
  <2>3. t.id = s.id /\ t.app = s.app /\ sessions' = (sessions \ {s}) \cup {t}
    BY <2>1, <2>2 DEF LauncherTypeOK, TypeOK, Session
  <2>4. Distinct(sessions')
    BY <1>1, <2>3 DEF Distinct
  <2> QED BY <1>3, <2>3, <2>4
<1>6. ASSUME NEW c, NEW inst, ObserveStop(c, inst) PROVE sessions' \subseteq sessions
  BY <1>6 DEF ObserveStop, Close
<1> QED
  BY <1>4, <1>5, <1>6 DEF Deliver, vars, memory

\* EndsInv is preserved: an undisturbed step is none of those that end something by force.
LEMMA EndsStep ==
  ASSUME ~Unreliable, LauncherTypeOK, LeaseInv, PendingInv, EndsInv, [LauncherNext]_allVars
  PROVE  EndsInv'
<1> SUFFICES ASSUME Undisturbed' PROVE (OwnedInMemory /\ Obeyed /\ AllAnswered)'
  BY DEF EndsInv
<1>1. interrupts \in Nat /\ crashes \in Nat
  BY BoundsAssumption, LaunchAssumption DEF LauncherTypeOK, TypeOK
<1>2. ~Interrupt /\ ~Kill /\ ~Reboot
  BY <1>1 DEF Undisturbed, Interrupt, Kill, Reboot
<1>3. \/ UNCHANGED allVars
      \/ \E a \in Apps : Launch(a) \/ Unreachable(a) \/ GameExits(a) \/ GiveBack(a) \/ ServerNext(a)
      \/ Work \/ (\E n \in notices : Deliver(n)) \/ Restart \/ StopPlugin
  BY <1>2 DEF LauncherNext, WrapperNext, Timeout, KillWrapper, KillBackend, RebootHost
<1>4. UNCHANGED <<interrupts, crashes>>
  <2>1. CASE UNCHANGED allVars
    BY <2>1 DEF allVars, vars, process, launcherVars, counts, settled
  <2>2. CASE \E a \in Apps : Launch(a) \/ Unreachable(a) \/ GameExits(a)
    BY <2>2 DEF Launch, Unreachable, GameExits, counts, settled, vars, process
  <2>3. CASE \E a \in Apps : GiveBack(a) \/ ServerNext(a)
    BY <2>3 DEF GiveBack, EndSession, Close, ServerNext, Serve, StartSession, Refuse, Answer, counts, settled, vars, process
  <2>4. CASE Work
    <3>1. UNCHANGED interrupts
      BY <2>4 DEF Work, Answer, launcherVars, counts, settled
    <3>2. UNCHANGED crashes
      BY <2>4 DEF Work, Step, TakeSnapshot, JournalActivation, RemoveKvmAmd, RemoveKvm, RemoveStep, LoadEmulation, PersistSessions,
                  JournalRestore, UnloadEmulation, ReloadKvmAmd, ReloadKvm, RestoreStep, ClearJournal, DiscardJournal
    <3> QED BY <3>1, <3>2
  <2>5. CASE \E n \in notices : Deliver(n)
    BY <2>5 DEF Deliver, ObserveRunning, ObserveStop, Close, counts, settled, vars, process
  <2>6. CASE Restart \/ StopPlugin
    BY <2>6 DEF Restart, Reconcile, StopPlugin, Shutdown, AllGamesEnd, launcherVars, counts, settled
  <2> QED BY <1>3, <2>1, <2>2, <2>3, <2>4, <2>5, <2>6
<1>5. OwnedInMemory /\ Obeyed /\ AllAnswered
  BY <1>4 DEF EndsInv, Undisturbed
<1>6. ASSUME UNCHANGED vars PROVE OwnedInMemory' /\ Obeyed'
  BY <1>5, <1>6 DEF vars, durable, memory, OwnedInMemory, Obeyed
<1>7. CASE UNCHANGED allVars
  BY <1>5, <1>7 DEF allVars, vars, durable, memory, launcherVars, OwnedInMemory, Obeyed, AllAnswered, Waiting,
                    Accounted, Answers, Distinct
<1>8. ASSUME NEW a \in Apps, Launch(a) \/ Unreachable(a) \/ GameExits(a) \/ GiveBack(a) \/ ServerNext(a)
      PROVE  (OwnedInMemory /\ Obeyed /\ AllAnswered)'
  <2>1. UNCHANGED vars \/ Operation
    <3>1. CASE GiveBack(a)
      <4>1. ASSUME EndSession(ticket[a]) PROVE ticket[a] \in SessionIds
        BY <4>1 DEF EndSession, LauncherTypeOK, TypeOK, Session
      <4> QED BY <3>1, <4>1 DEF GiveBack, Operation
    <3> QED BY <1>8, <3>1 DEF Launch, Unreachable, GameExits, ServerNext, Serve, Refuse, Operation
  <2> QED BY <1>5, <1>6, <1>8, <2>1, ObeyedOperation, AnsweredWrapper, AnsweredServer
<1>9. CASE Work
  BY <1>5, <1>9, ObeyedStep, AnsweredWork DEF Work
<1>10. ASSUME NEW n \in notices, Deliver(n) PROVE (OwnedInMemory /\ Obeyed /\ AllAnswered)'
  <2>1. UNCHANGED vars \/ Operation
    <3>1. Running \subseteq Apps /\ n.app \in Apps /\ n.inst \in Instances \cup {Unattached}
      BY DEF Running, LauncherTypeOK
    <3> QED BY <1>10, <3>1 DEF Deliver, Operation
  <2> QED BY <1>5, <1>6, <1>10, <2>1, ObeyedOperation, AnsweredDeliver
<1>11. CASE Restart
  <2>1. sessions' = {} /\ UNCHANGED launcherVars /\ OwnedInMemory' /\ Obeyed'
    BY <1>5, <1>11, ObeyedReconcile DEF Restart
  <2>2. pc' = "free" \/ op'.pending = {}
    BY <1>11, NothingPending DEF Restart
  <2> QED BY <1>5, <2>1, <2>2 DEF launcherVars, AllAnswered, Waiting, Accounted, Distinct
<1>12. CASE StopPlugin
  <2>1. OwnedInMemory' /\ Obeyed'
    BY <1>5, <1>12, ObeyedOperation DEF StopPlugin, Operation
  <2>2. sessions' = {} /\ \A a \in Apps : request'[a] = "none"
    BY <1>12 DEF StopPlugin, Shutdown, Exit, AllGamesEnd, Dropped
  <2>3. pc' = "free" \/ op'.pending = {}
    BY <1>12, NothingPending DEF StopPlugin
  <2> QED BY <2>1, <2>2, <2>3 DEF AllAnswered, Waiting, Accounted, Distinct
<1> QED
  BY <1>3, <1>7, <1>8, <1>9, <1>10, <1>11, <1>12

\* EndsInv holds initially: no record claims ownership, and nothing runs.
LEMMA EndsInit == LauncherInit => EndsInv
<1> SUFFICES ASSUME LauncherInit PROVE OwnedInMemory /\ Obeyed /\ AllAnswered
  BY DEF EndsInv
<1>1. ~(journal.exists /\ journal.owned) /\ pc = "free" /\ sessions = {}
  BY DEF LauncherInit, Init, NoRecord
<1>2. \A a \in Apps : request[a] = "none"
  BY DEF LauncherInit
<1> QED
  BY <1>1, <1>2 DEF OwnedInMemory, Obeyed, AllAnswered, Distinct, Waiting, Accounted

\* Once every game has ended, every request is answered and every notice delivered, the host has
\* its modules back, or the controller says that recovery is required: whatever order requests,
\* ends and notices came in, named or not, and however often the plugin was stopped and started,
\* as long as nothing was killed or timed out, and modprobe and the disk work.
THEOREM LastGameRestores == ASSUME ~Unreliable PROVE LauncherSpec => []RestoredAfterLastGame
<1>1. LeaseInv /\ EndsInv => RestoredAfterLastGame
  <2> SUFFICES ASSUME LeaseInv, EndsInv, Undisturbed, Quiet PROVE debt = {} \/ state = "recovery-required"
    BY DEF RestoredAfterLastGame, AllRestored, Undisturbed
  <2>1. Accounted /\ \A a \in Apps : stage[a] = "none"
    BY DEF EndsInv, AllAnswered, Quiet, Running
  <2>2. \A s \in sessions : s.app \in Apps
    BY DEF LeaseInv, TypeOK, Session
  <2>3. sessions = {}
    BY <2>1, <2>2 DEF Accounted, Answers
  <2> QED BY <2>3 DEF Quiet, Free, LeaseInv, DebtIsHeld, SessionsInside
<1>2. LauncherSpec => []LeaseInv
  BY ImplementsController, LeaseInvariant, PTL DEF ControllerSpec
<1>3. LauncherInit => PendingInv
  BY DEF LauncherInit, Init, PendingInv
<1>4. LauncherTypeOK /\ LeaseInv /\ PendingInv /\ [LauncherNext]_allVars => PendingInv'
  BY PendingStep
<1>5. LauncherTypeOK /\ LeaseInv /\ PendingInv /\ EndsInv /\ [LauncherNext]_allVars => EndsInv'
  BY EndsStep
<1> QED
  BY <1>1, <1>2, <1>3, <1>4, <1>5, EndsInit, LauncherTypeCorrect, PTL DEF LauncherSpec

=============================================================================
