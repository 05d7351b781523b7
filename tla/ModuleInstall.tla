---------------------------- MODULE ModuleInstall ----------------------------
(***************************************************************************)
(* The installer of the CPUID module (backend/internal/cpuidmodule/        *)
(* install.go): Install stages and checks the selected archive, installs   *)
(* what the build needs if that was reviewed, has DKMS add, build and      *)
(* install the module, looks at the result with modinfo and asks the       *)
(* hypervisor controller to try it.  Of a failure it removes the           *)
(* registration it made.                                                   *)
(*                                                                         *)
(* Install runs in a setup job and is broken here at each command.  There  *)
(* is one package and version; its registration is a directory under       *)
(* /var/lib/dkms.  mpc is "idle" when Install does not run.                *)
(***************************************************************************)
EXTENDS Naturals

CONSTANTS
  MaxInstalls,   \* bound: how often Install is called
  MaxAdmin,      \* bound: how often the administrator changes the module
  FailingBuild   \* may commands fail?

VARIABLES
  tools,         \* are DKMS, compiler, headers and modinfo there?
  registry,      \* the registration: nobody's, another's or made by Install
  module,        \* what modinfo finds for the running kernel
  verification,  \* the stored outcome of the last test, if no inspection reset it
  accepted,      \* history: has the kernel ever loaded the module in a test?
  mpc, plan, outcome, \* of Install: its step, was a plan reviewed, how it ended
  installs, adminChanges

moduleHost == <<tools, registry, module>>
stored == <<verification, accepted>>
installVars == <<mpc, plan, outcome, installs>>
moduleVars == <<moduleHost, stored, installVars, adminChanges>>

ASSUME ModuleBounds == MaxInstalls \in Nat /\ MaxAdmin \in Nat /\ FailingBuild \in BOOLEAN

Registrations == {"none", "others", "ours"}
ModuleStates == {"missing", "incompatible", "compatible"}
Verdicts == {"pending", "verified", "failed"}
InstallSteps == {"stage", "look", "dependencies", "add", "build", "install", "verify",
                 "test", "clean_up"}
InstallOutcomes == {"none", "refused", "no-op", "conflict", "failed", "cleanup-failed", "installed"}

\* The host, the stored outcome and the local variables of Install.
ModuleTypeOK ==
  /\ tools \in BOOLEAN /\ registry \in Registrations /\ module \in ModuleStates
  /\ verification \in Verdicts /\ accepted \in BOOLEAN
  /\ mpc \in {"idle"} \cup InstallSteps /\ plan \in BOOLEAN /\ outcome \in InstallOutcomes
  /\ installs \in 0..MaxInstalls /\ adminChanges \in 0..MaxAdmin

ModuleInit ==
  /\ tools \in BOOLEAN /\ registry = "none" /\ module = "missing"
  /\ verification = "pending" /\ accepted = FALSE
  /\ mpc = "idle" /\ plan = FALSE /\ outcome = "none"
  /\ installs = 0 /\ adminChanges = 0

-----------------------------------------------------------------------------
(* Install.                                                                *)

MGoto(step) == mpc' = step /\ UNCHANGED <<plan, outcome>>
MEnd(how) == mpc' = "idle" /\ plan' = FALSE /\ outcome' = how

\* installModule: the preflight found the tools, or a package manager that has
\* them, and the plan the user reviewed comes with the job.
BeginInstall ==
  /\ mpc = "idle" /\ installs < MaxInstalls
  /\ installs' = installs + 1
  /\ plan' = ~tools
  /\ mpc' = "stage" /\ outcome' = "none"
  /\ UNCHANGED <<moduleHost, stored, adminChanges>>

\* The archive is copied, checked and is the right package, or is refused.
Stage ==
  /\ mpc = "stage"
  /\ MGoto("look") \/ (FailingBuild /\ MEnd("refused"))
  /\ UNCHANGED <<moduleHost, stored, installs, adminChanges>>

\* verifyModule sees a compatible module, unless modinfo is missing or fails.
Seen(seen) == IF seen THEN module = "compatible" ELSE module # "compatible" \/ ~tools \/ FailingBuild

\* A compatible module is left alone, and so is a registration of the version.
Look ==
  /\ mpc = "look"
  /\ \/ Seen(TRUE) /\ MEnd("no-op")
     \/ Seen(FALSE) /\ registry # "none" /\ MEnd("conflict")
     \/ Seen(FALSE) /\ registry = "none" /\ MGoto(IF plan THEN "dependencies" ELSE "add")
  /\ UNCHANGED <<moduleHost, stored, installs, adminChanges>>

\* A failed transaction may have installed what it should.
InstallDependencies ==
  /\ mpc = "dependencies"
  /\ \/ tools' = TRUE /\ MGoto("add")
     \/ FailingBuild /\ tools' \in {tools, TRUE} /\ MEnd("failed")
  /\ UNCHANGED <<registry, module, stored, installs, adminChanges>>

\* Mutant: the registration is cleaned up even if it was not made.
AddOrCleanUp ==
  /\ mpc = "add"
  /\ \/ registry = "none" /\ registry' = "ours" /\ MGoto("build")
     \/ (registry # "none" \/ FailingBuild) /\ UNCHANGED registry /\ MGoto("clean_up")
  /\ UNCHANGED <<tools, module, stored, installs, adminChanges>>

\* dkms add refuses a version that somebody has added meanwhile, and then there
\* is nothing to clean up.
Add ==
  /\ mpc = "add"
  /\ \/ tools /\ registry = "none" /\ registry' = "ours" /\ MGoto("build")
     \/ (~tools \/ registry # "none" \/ FailingBuild) /\ UNCHANGED registry /\ MEnd("failed")
  /\ UNCHANGED <<tools, module, stored, installs, adminChanges>>

Build ==
  /\ mpc = "build"
  /\ MGoto("install") \/ (FailingBuild /\ MGoto("clean_up"))
  /\ UNCHANGED <<moduleHost, stored, installs, adminChanges>>

\* dkms install --force replaces a module that is there; its success is no proof that
\* the module fits.
InstallModule ==
  /\ mpc = "install"
  /\ \/ module' = "compatible" /\ MGoto("verify")
     \/ FailingBuild /\ module' \in {module, "incompatible"} /\ (MGoto("verify") \/ MGoto("clean_up"))
  /\ UNCHANGED <<tools, registry, stored, installs, adminChanges>>

\* Mutant: a module that modinfo does not find is only an error.
VerifyOnly ==
  /\ mpc = "verify"
  /\ \/ Seen(TRUE) /\ MGoto("test")
     \/ Seen(FALSE) /\ MEnd("failed")
  /\ UNCHANGED <<moduleHost, stored, installs, adminChanges>>

\* Mutant: what DKMS reports is believed.
VerifyNothing ==
  /\ mpc = "verify"
  /\ MGoto("test")
  /\ UNCHANGED <<moduleHost, stored, installs, adminChanges>>

Verify ==
  /\ mpc = "verify"
  /\ \/ Seen(TRUE) /\ MGoto("test")
     \/ Seen(FALSE) /\ MGoto("clean_up")
  /\ UNCHANGED <<moduleHost, stored, installs, adminChanges>>

\* TestModule of the controller, which refuses while a game has the modules or a
\* virtual machine runs, and otherwise stores what the kernel says, if it can.  It
\* refuses without modinfo and without a compatible module.
Try ==
  \/ UNCHANGED stored
  \/ /\ tools /\ module = "compatible"
     /\ \E v \in {"verified", "failed"} :
          /\ verification' = v \/ (FailingBuild /\ UNCHANGED verification)
          /\ accepted' = (accepted \/ v = "verified")

\* Whatever comes of the test, the module is installed.
Test ==
  /\ mpc = "test"
  /\ Try /\ MEnd("installed")
  /\ UNCHANGED <<moduleHost, installs, adminChanges>>

\* dkms remove --all; an archived module may come back.
CleanUp ==
  /\ mpc = "clean_up"
  /\ \/ registry' = "none" /\ module' \in {"missing", "incompatible"} /\ MEnd("failed")
     \/ /\ FailingBuild
        /\ registry' \in {registry, "none"} /\ module' \in {module, "missing"}
        /\ MEnd("cleanup-failed")
  /\ UNCHANGED <<tools, stored, installs, adminChanges>>

InstallStep ==
  \/ Stage \/ Look \/ InstallDependencies \/ Add \/ Build \/ InstallModule
  \/ Verify \/ Test \/ CleanUp

\* POST /module/test, with no job.
TestByRequest == mpc = "idle" /\ Try /\ UNCHANGED <<moduleHost, installVars, adminChanges>>

-----------------------------------------------------------------------------
(* The environment.                                                        *)

\* The backend dies; a command it had started goes on to its end.
KillInstall ==
  /\ MEnd("none")
  /\ \/ mpc = "dependencies" /\ tools' = TRUE /\ UNCHANGED <<registry, module>>
     \/ mpc = "add" /\ registry = "none" /\ registry' = "ours" /\ UNCHANGED <<tools, module>>
     \/ mpc = "install" /\ module' = "compatible" /\ UNCHANGED <<tools, registry>>
     \/ mpc = "clean_up" /\ registry' = "none" /\ module' = "missing" /\ UNCHANGED tools
     \/ UNCHANGED moduleHost
  /\ UNCHANGED <<stored, installs, adminChanges>>

\* The host comes up with the same kernel, or with one for which DKMS has built
\* the module or has not.
RebootModule ==
  /\ MEnd("none")
  /\ module' \in IF registry = "none" THEN {module, "missing"} ELSE ModuleStates
  /\ UNCHANGED <<tools, registry, stored, installs, adminChanges>>

\* The administrator adds the same version, or removes what is there.
Administer ==
  /\ adminChanges < MaxAdmin
  /\ adminChanges' = adminChanges + 1
  /\ \/ registry = "none" /\ registry' = "others" /\ module' \in {module, "compatible"}
     \/ mpc = "idle" /\ registry # "none" /\ registry' = "none" /\ module' = "missing"
  /\ outcome' = "none"
  /\ UNCHANGED <<tools, stored, mpc, plan, installs>>

ModuleNext ==
  \/ BeginInstall \/ InstallStep \/ TestByRequest
  \/ KillInstall \/ RebootModule \/ Administer

ModuleSpec == ModuleInit /\ [][ModuleNext]_moduleVars

-----------------------------------------------------------------------------
(* Properties.                                                             *)

\* TestInstallerRemovesOnlyOwnedRegistrationAfterFailure, for every history: no
\* step of Install removes or takes over a registration it did not make, also if
\* it appears after Install has looked.
OthersRegistrationStays ==
  [][InstallStep /\ registry = "others" => registry' = "others"]_moduleVars

\* A failure leaves no registration of its own behind, which would make every
\* later attempt a conflict, unless it says so (ErrModuleCleanup).
FailuresCleanUp == outcome = "failed" => registry # "ours"

\* What Install reports as installed is there for the running kernel, until
\* somebody changes it.
InstalledIsThere == outcome \in {"installed", "no-op"} => module = "compatible"

=============================================================================
