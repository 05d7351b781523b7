------------------------------- MODULE Server -------------------------------
(***************************************************************************)
(* What the backend's server (backend/internal/server) keeps beside the    *)
(* controller and the setup jobs: the management of shortcuts, the         *)
(* capabilities and the limit on transitions.  They meet in the process,   *)
(* which may die at any point and is started again with the plugin.        *)
(***************************************************************************)
EXTENDS Shortcuts, Capability, RateLimiter

serverVars == <<shortcutVars, capabilityVars, limiterVars>>

ServerInit == ShortcutsInit /\ CapabilityInit /\ LimiterInit

\* Users, pages and the handlers of shortcuts.
Manage == ShortcutStep /\ UNCHANGED <<capabilityVars, limiterVars>>

\* The handlers of setup requests.
Authorize == up /\ HandleCapability /\ UNCHANGED <<shortcutVars, limiterVars>>

\* A request to start a session.
Limited == up /\ Allow(clock) /\ UNCHANGED <<shortcutVars, capabilityVars>>

\* The plugin outlives a backend that crashed, and time passes.
IssueCapability == (\E b \in Bindings : Issue(b)) /\ UNCHANGED <<shortcutVars, limiterVars>>

Wait == Tick /\ UNCHANGED <<shortcutVars, limiterVars>>

KillServer == KillStore /\ StopVerifier /\ UNCHANGED limiterVars

StartServer == StartStore /\ StartVerifier /\ StartLimiter(clock)

ServerNext ==
  Manage \/ Authorize \/ Limited \/ IssueCapability \/ Wait \/ KillServer \/ StartServer

ServerSpec == ServerInit /\ [][ServerNext]_serverVars

=============================================================================
