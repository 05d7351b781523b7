------------------------------ MODULE Launcher ------------------------------
(***************************************************************************)
(* Managed launches around the controller: Steam runs the wrapper (the     *)
(* same binary, "run" mode, wrapper/run.go), the wrapper asks the backend  *)
(* for a session over HTTP (server/sessions_handler.go), runs the game as  *)
(* its child and gives the session back; Steam tells the frontend when the *)
(* application starts and stops, and the frontend posts that to the        *)
(* backend (steam.ts, observeSteamLifetime).                               *)
(*                                                                         *)
(* Requests wait for the controller's mutex, and notices are independent   *)
(* posts, so the backend takes both in any order.  Steam gives each launch *)
(* an instance ID, here the number of the launch; it may report a shortcut *)
(* under App ID 0, and then the backend looks for the one running game.    *)
(***************************************************************************)
EXTENDS Controller

CONSTANTS
  NoId,          \* the ticket of a wrapper without a session
  MaxLaunches,   \* bound: launches of games
  MaxInterrupts, \* bound: wrappers killed and requests timed out
  Unnamed,       \* may Steam report an application under App ID 0?
  Late           \* may a notice be under way when its game is launched again?

ASSUME LaunchAssumption ==
  /\ Cancelling
  /\ NoId \notin SessionIds
  /\ MaxLaunches \in Nat
  /\ Instances = 1..MaxLaunches
  /\ MaxInterrupts \in Nat
  /\ Unnamed \in BOOLEAN
  /\ Late \in BOOLEAN

VARIABLES
  stage,    \* of each app's wrapper
  ticket,   \* the session ID the wrapper was given, or its handler is starting
  request,  \* of each app's POST /sessions, at the server
  notices,  \* lifetime posts of the frontend under way
  instance, \* the instance ID of each app's last launch
  launches, \* launches so far
  interrupts,
  nameless, \* the applications whose notices name none, throughout
  late      \* may a notice be overtaken by the next launch, throughout?

settled == <<interrupts, nameless, late>>
counts == <<instance, launches, settled>>
launcherVars == <<stage, ticket, request, notices, counts>>
allVars == <<vars, launcherVars>>

\* "asking" for a session, "playing" with it, "ending" with the DELETE to send;
\* "open" is a game that runs although no session was answered.
Stages == {"none", "asking", "playing", "ending", "open"}
Requests == {"none", "queued", "abandoned", "served"}

\* The types of wrappers, requests and notices, and of the controller.  A notice
\* always names a managed application: the frontend's App ID 0 is resolved.
LauncherTypeOK ==
  /\ TypeOK
  /\ stage \in [Apps -> Stages]
  /\ ticket \in [Apps -> SessionIds \cup {NoId}]
  /\ request \in [Apps -> Requests]
  /\ notices \subseteq [app : Apps, inst : Instances \cup {Unattached}, running : BOOLEAN]
  /\ instance \in [Apps -> Instances \cup {Unattached}]
  /\ launches \in 0..MaxLaunches
  /\ interrupts \in 0..MaxInterrupts
  /\ nameless \subseteq Apps
  /\ late \in BOOLEAN

LauncherInit ==
  /\ Init
  /\ stage = [a \in Apps |-> "none"]
  /\ ticket = [a \in Apps |-> NoId]
  /\ request = [a \in Apps |-> "none"]
  /\ notices = {}
  /\ instance = [a \in Apps |-> Unattached]
  /\ launches = 0 /\ interrupts = 0
  /\ nameless \in SUBSET Apps /\ (Unnamed \/ nameless = {})
  /\ late \in BOOLEAN /\ (Late \/ ~late)

\* Mutant: App ID 0 is passed on as it is.
PostUnresolved(a, inst, running) ==
  notices' = IF up THEN notices \cup {[app |-> NoId, inst |-> inst, running |-> running]} ELSE notices

\* The frontend's post; it fails when nothing listens.
Post(a, inst, running) ==
  notices' = IF up THEN notices \cup {[app |-> a, inst |-> inst, running |-> running]} ELSE notices

\* What /proc shows: a wrapper and its game have the app's ID in the environment.
Running == {a \in Apps : stage[a] # "none"}

\* The operation under way serves the request of a.
Serving(a) == pc # "free" /\ \E s \in op.pending : s.app = a

-----------------------------------------------------------------------------
(* Steam and the wrapper.                                                  *)

Launch(a) ==
  /\ stage[a] = "none" /\ request[a] = "none" /\ launches < MaxLaunches
  /\ late \/ \A n \in notices : n.app # a
  /\ launches' = launches + 1
  /\ instance' = [instance EXCEPT ![a] = launches']
  /\ Post(a, launches', TRUE)
  /\ stage' = [stage EXCEPT ![a] = "asking"]
  /\ request' = [request EXCEPT ![a] = IF up THEN "queued" ELSE "none"]
  /\ UNCHANGED <<vars, ticket, settled>>

\* The wrapper exits; Steam says that the application stopped.
WrapperExits(a) ==
  /\ stage' = [stage EXCEPT ![a] = "none"]
  /\ Post(a, instance[a], FALSE)
  /\ ticket' = [ticket EXCEPT ![a] = NoId]
  /\ UNCHANGED <<instance, launches>>

\* Mutant: the handler stops where it is when its client goes away.
AbandonServed(a) ==
  /\ request' = [request EXCEPT ![a] = IF @ = "queued" THEN "abandoned" ELSE @]
  /\ IF Serving(a) THEN pc' = "free" /\ op' = NoOp ELSE UNCHANGED <<pc, op>>
  /\ UNCHANGED <<host, durable, process, memory>>

\* The wrapper hears nothing more of its request; the handler goes on with a
\* cancelled context.
Abandon(a) ==
  /\ request' = [request EXCEPT ![a] = IF @ = "queued" THEN "abandoned" ELSE @]
  /\ op' = IF Serving(a) /\ op.live THEN [op EXCEPT !.live = FALSE] ELSE op
  /\ UNCHANGED <<host, durable, process, pc, memory>>

\* Run: an error that is not the API's own runs the child without a session.
FailOpen(a) ==
  /\ stage' = [stage EXCEPT ![a] = "open"]
  /\ ticket' = [ticket EXCEPT ![a] = NoId]
  /\ UNCHANGED <<notices, instance, launches>>

Interrupt == interrupts < MaxInterrupts /\ interrupts' = interrupts + 1 /\ UNCHANGED <<nameless, late>>

\* Nothing listened, or the backend died with the request.
Unreachable(a) ==
  /\ stage[a] = "asking" /\ request[a] = "none"
  /\ FailOpen(a)
  /\ UNCHANGED <<vars, request, settled>>

\* The client's 30 s pass.
Timeout(a) ==
  /\ Interrupt /\ stage[a] = "asking" /\ request[a] # "none"
  /\ FailOpen(a)
  /\ Abandon(a)

\* Steam's forced stop, or a crash, ends the wrapper and its game.
KillWrapper(a) ==
  /\ Interrupt /\ stage[a] # "none"
  /\ WrapperExits(a)
  /\ Abandon(a)

GameExits(a) ==
  /\ \/ /\ stage[a] = "playing"
        /\ stage' = [stage EXCEPT ![a] = "ending"]
        /\ UNCHANGED <<notices, ticket, counts>>
     \/ stage[a] = "open" /\ WrapperExits(a) /\ UNCHANGED settled
  /\ UNCHANGED <<vars, request>>

\* Mutant: a game that fails is not followed by the DELETE.
ExitWithGame(a) ==
  /\ stage[a] = "ending"
  /\ UNCHANGED vars
  /\ WrapperExits(a)
  /\ UNCHANGED <<request, settled>>

\* DELETE /sessions/{id}.  The wrapper exits whatever comes of it.
GiveBack(a) ==
  /\ stage[a] = "ending"
  /\ \/ EndSession(ticket[a])
     \/ Free /\ ticket[a] \notin Ids(sessions) /\ UNCHANGED vars
     \/ ~up /\ UNCHANGED vars
  /\ WrapperExits(a)
  /\ UNCHANGED <<request, settled>>

-----------------------------------------------------------------------------
(* The server.                                                             *)

\* What the wrapper does with the answer: play, or exit on an API error.
Answer(a, granted) ==
  /\ request' = [request EXCEPT ![a] = "none"]
  /\ \/ stage[a] # "asking" /\ UNCHANGED <<stage, ticket, notices, counts>>
     \/ /\ stage[a] = "asking" /\ granted
        /\ stage' = [stage EXCEPT ![a] = "playing"]
        /\ UNCHANGED <<ticket, notices, counts>>
     \/ stage[a] = "asking" /\ ~granted /\ WrapperExits(a) /\ UNCHANGED settled

\* The handler gets the mutex and starts the session, but activates nothing for
\* a client that is gone: the modinfo it begins with does not start.  A session
\* that needs no step of its own is answered at once.
Serve(a) ==
  /\ request[a] \in {"queued", "abandoned"}
  /\ request[a] = "abandoned" => ~Activates
  /\ \E id \in SessionIds :
       /\ \A b \in Apps : ticket[b] # id
       /\ StartSession(a, id)
       /\ ticket' = IF stage[a] = "asking" THEN [ticket EXCEPT ![a] = id] ELSE ticket
  /\ \/ /\ pc' # "free"
        /\ request' = [request EXCEPT ![a] = "served"]
        /\ UNCHANGED stage
     \/ /\ pc' = "free"
        /\ request' = [request EXCEPT ![a] = "none"]
        /\ stage' = [stage EXCEPT ![a] = IF @ = "asking" THEN "playing" ELSE @]
  /\ UNCHANGED <<notices, counts>>

\* The handler or StartSession refuses at once: too many requests, the game is not
\* enabled, there is no execution path, recovery is required, or the client is gone.
\* (What the preflight refuses is answered by Work.)
Refuse(a) ==
  /\ request[a] \in {"queued", "abandoned"}
  /\ up
  /\ Answer(a, FALSE)
  /\ UNCHANGED vars

\* The operation under way goes on, and answers the request it served.
Work ==
  /\ Step
  /\ \/ /\ \A s \in op.pending : pc' # "free"
        /\ UNCHANGED launcherVars
     \/ /\ pc' = "free"
        /\ \E s \in op.pending :
             Answer(s.app, s.id \in Ids(sessions') /\ state' # "recovery-required")

\* The lifetime handler: a post under App ID 0 is taken for the one managed
\* game that runs; when there is not one, the frontend tries three times more.
Deliver(n) ==
  /\ Free /\ n \in notices
  /\ notices' = notices \ {n}
  /\ LET named == IF n.app \notin nameless THEN {n.app}
                 ELSE IF Cardinality(Running) = 1 THEN Running ELSE {}
     IN  \/ named = {} /\ UNCHANGED vars
         \/ \E a \in named :
              \/ n.running /\ ObserveRunning(a, n.inst)
              \/ /\ n.running /\ UNCHANGED vars
                 /\ ~ \E s \in sessions : s.app = a /\ s.inst = Unattached
              \/ ~n.running /\ ObserveStop(a, n.inst)
  /\ UNCHANGED <<stage, ticket, request, counts>>

-----------------------------------------------------------------------------
(* The plugin and the host.                                                *)

\* serveBackend: Reconcile before it listens.
Restart ==
  /\ Reconcile(Running)
  /\ UNCHANGED launcherVars

Dropped == [a \in Apps |-> "none"]

\* Requests and posts under way are lost with the process.
KillBackend ==
  /\ Kill
  /\ request' = Dropped /\ notices' = {}
  /\ UNCHANGED <<stage, ticket, counts>>

AllGamesEnd ==
  /\ stage' = Dropped /\ request' = Dropped /\ notices' = {}
  /\ ticket' = [a \in Apps |-> NoId]
  /\ UNCHANGED <<counts>>

\* _stop_stale_backends signals every process of the binary: the wrappers pass
\* the SIGTERM on to their games, which end.
StopPlugin == Shutdown /\ AllGamesEnd

RebootHost == Reboot /\ AllGamesEnd

WrapperNext(a) ==
  Launch(a) \/ Unreachable(a) \/ Timeout(a) \/ KillWrapper(a) \/ GameExits(a) \/ GiveBack(a)

ServerNext(a) == Serve(a) \/ Refuse(a)

LauncherNext ==
  \/ \E a \in Apps : WrapperNext(a) \/ ServerNext(a)
  \/ Work
  \/ \E n \in notices : Deliver(n)
  \/ Restart \/ KillBackend \/ StopPlugin \/ RebootHost

LauncherSpec == LauncherInit /\ [][LauncherNext]_allVars

\* Whatever Steam, wrappers and frontend do, the controller sees an order of
\* operations it allows, so that what holds of Controller holds here.
ControllerSpec == Spec

-----------------------------------------------------------------------------
(* Properties.                                                             *)

\* No launch, no request and no notice left, and the backend at rest.
Quiet ==
  /\ Free /\ notices = {} /\ Running = {}
  /\ \A a \in Apps : request[a] = "none"

\* A game that was told it has emulation has it for as long as it plays.
EmulationWhilePlaying ==
  \A a \in Apps : stage[a] = "playing" => EMU \in loaded

\* The same where notices name their application and come before it is launched
\* again, whatever is killed.
GamesHaveEmulation == nameless = {} /\ ~late => EmulationWhilePlaying

\* "restores KVM after the last managed game closes": once all is quiet nothing
\* stays switched, unless the controller says that recovery is required.
AllRestored ==
  Quiet => debt = {} \/ state = "recovery-required"

\* The same where wrappers run to their end and no request times out, in whatever
\* order notices come and whether they name an application or not, as long as the
\* backend lives.
RestoredAfterLastGame == interrupts = 0 /\ crashes = 0 => AllRestored

\* "Fail open only when the lifecycle service cannot be reached."
OpenOnlyWhenUnreached ==
  \A a \in Apps : stage[a] = "open" => \A s \in sessions : s.app # a

=============================================================================
