-------------------------------- MODULE Setup --------------------------------
(***************************************************************************)
(* The setup of a host: the three installers, of which the coordinator     *)
(* lets one run at a time (SetupJobs), one backend whose end is the end of *)
(* whichever runs, and the inspection of the system, which answers status  *)
(* requests beside them and reads what they change, piece by piece.        *)
(***************************************************************************)
EXTENDS Umip, ModuleInstall, ProtonInstall, Readiness

CONSTANTS
  Hosts,       \* a processor, kernel and LinUwUx runtime each
  MaxJobs,     \* bound: setup jobs, of all kinds
  MaxMeddling  \* bound: changes by people, of all kinds

VARIABLES
  host,        \* the one that is set up
  ipc, loaded, found, \* of Inspect: its step, the stored verification, the module
  steady,      \* history: has nothing that it reads changed since it began?
  report       \* history: its last answer, until something changes that it reads

inspectVars == <<ipc, loaded, found>>
setupVars == <<umipVars, moduleVars, protonVars, host, inspectVars, steady, report>>

ASSUME HostsAssumption ==
  Hosts \subseteq [machine : Machine, wrapper : RuntimeFiles, library : RuntimeFiles]
ASSUME SetupBounds == MaxJobs \in Nat /\ MaxMeddling \in Nat

HostTypeOK ==
  /\ UmipTypeOK /\ ModuleTypeOK /\ ProtonTypeOK
  /\ host \in Hosts
  /\ ipc \in {"idle", "modinfo", "conclude"}
  /\ loaded \in BOOLEAN /\ found \in ModuleStates
  /\ report \in {"none"} \cup Statuses
  /\ steady \in BOOLEAN

SetupInit ==
  /\ UmipInit /\ ModuleInit /\ ProtonInit
  /\ host \in Hosts
  /\ ipc = "idle" /\ loaded = FALSE /\ found = "missing" /\ report = "none"
  /\ steady = TRUE

-----------------------------------------------------------------------------
(* The jobs.                                                               *)

NoJob == pc = "idle" /\ mpc = "idle" /\ ppc = "idle"
Admitted == NoJob /\ applies + installs + selections < MaxJobs

\* What an inspection reads; it is not steady once that changes under it.
Read == <<booted, tools, module, verification, tool>>
Noticed ==
  /\ steady' = (ipc = "idle" \/ (Read' = Read /\ steady))
  /\ report' = IF Read' = Read THEN report ELSE "none"

\* What a job returned is forgotten when the next is admitted.
UmipJob ==
  /\ \/ Admitted /\ (RefuseApply \/ Review) /\ outcome' = "none" /\ installed' = "none"
     \/ UmipStep /\ UNCHANGED <<outcome, installed>>
  /\ UNCHANGED <<moduleHost, stored, mpc, plan, installs, adminChanges,
                 tool, ppc, archive, staged, selections, othersChanges, host, inspectVars>>
  /\ Noticed

ModuleJob ==
  /\ \/ Admitted /\ BeginInstall /\ Forget /\ installed' = "none"
     \/ InstallStep /\ UNCHANGED <<pc, result, original, menu, installed>>
  /\ UNCHANGED <<bootloader, bootFiles, booted, applies, edits, intended,
                 tool, ppc, archive, staged, selections, othersChanges, host, inspectVars>>
  /\ Noticed

ProtonJob ==
  /\ \/ Admitted /\ BeginProton /\ Forget /\ outcome' = "none"
     \/ ProtonStep /\ UNCHANGED <<pc, result, original, menu, outcome>>
  /\ UNCHANGED <<bootloader, bootFiles, booted, applies, edits, intended,
                 moduleHost, stored, mpc, plan, installs, adminChanges, host, inspectVars>>
  /\ Noticed

\* The request to test the module is no job and waits for none.
TestRequest ==
  /\ TestByRequest
  /\ UNCHANGED <<umipVars, protonVars, host, inspectVars>> /\ Noticed

-----------------------------------------------------------------------------
(* Inspect, of one request at a time.                                      *)

\* Mutant: UMIP is taken to be off once the boot menu says so.
ConfiguredUMIP == host.machine.umip /\ "clear" \notin KernelArguments(bootloader, generated)

\* Is UMIP among the flags of the running kernel?
LiveUMIP == host.machine.umip /\ "clear" \notin KernelArguments(bootloader, booted)

BeginInspect ==
  /\ ipc = "idle"
  /\ ipc' = "modinfo" /\ loaded' = (verification = "verified")
  /\ report' = "none" /\ steady' = TRUE
  /\ UNCHANGED <<found, umipVars, moduleVars, protonVars, host>>

EndInspect == ipc' = "idle" /\ loaded' = FALSE /\ found' = "missing" /\ steady' = TRUE

\* Mutant: a failure that says nothing gives a report, too.
LookForModuleAnyway ==
  /\ ipc = "modinfo"
  /\ \/ found' = IF tools THEN module ELSE "missing"
     \/ FailingBuild /\ found' = "unknown"
  /\ ipc' = "conclude"
  /\ UNCHANGED <<loaded, steady, report, umipVars, moduleVars, protonVars, host>>

\* Without modinfo the module counts as missing; if modinfo fails in a way that
\* says nothing, there is no report.
LookForModule ==
  /\ ipc = "modinfo"
  /\ \/ found' = (IF tools THEN module ELSE "missing") /\ ipc' = "conclude"
        /\ UNCHANGED <<loaded, steady>>
     \/ FailingBuild /\ EndInspect
  /\ UNCHANGED <<report, umipVars, moduleVars, protonVars, host>>

\* A module that is not compatible has not been verified, and the store is told
\* so, whatever was stored meanwhile.  The controller's state is Controller's.
Conclude ==
  /\ ipc = "conclude"
  /\ \E recovery \in BOOLEAN :
       LET status == Status(host.machine, recovery,
                       FailedChecks(host.machine, LiveUMIP, found, loaded /\ found = "compatible",
                                    tool = "whole" \/ RuntimeState(host) = "available"))
       IN  report' = IF steady THEN status ELSE "none"
  /\ verification' \in IF found = "compatible" THEN {verification}
                       ELSE {"pending"} \cup (IF FailingBuild THEN {verification} ELSE {})
  /\ EndInspect
  /\ UNCHANGED <<umipVars, moduleHost, accepted, installVars,
                 adminChanges, protonVars, host>>

Inspect == BeginInspect \/ LookForModule \/ Conclude

-----------------------------------------------------------------------------
(* The environment.                                                        *)

\* The backend dies: the job and the inspection with it.
KillSetup ==
  /\ KillUmip /\ KillInstall /\ KillProton
  /\ EndInspect /\ report' = "none"
  /\ UNCHANGED host

RebootHost ==
  /\ RebootUmip /\ RebootModule /\ KillProton
  /\ EndInspect /\ report' = "none"
  /\ UNCHANGED host

\* People change the boot configuration, the module, the tool.
Meddle ==
  /\ edits + adminChanges + othersChanges < MaxMeddling
  /\ \/ Edit /\ UNCHANGED <<moduleVars, protonVars>>
     \/ Administer /\ UNCHANGED <<umipVars, protonVars>>
     \/ Others /\ UNCHANGED <<umipVars, moduleVars>>
  /\ UNCHANGED <<host, inspectVars>> /\ Noticed

SetupNext ==
  \/ UmipJob \/ ModuleJob \/ ProtonJob \/ TestRequest
  \/ Inspect \/ KillSetup \/ RebootHost \/ Meddle

SetupSpec == SetupInit /\ [][SetupNext]_setupVars

-----------------------------------------------------------------------------
(* Properties.                                                             *)

\* "Ready" is never said of a host that is not: of an inspection during which
\* nothing changed, it means that the running kernel leaves UMIP off where it must be,
\* that a Proton or the runtime is whole, and, where games need the emulation, that
\* the module fits the kernel, which has once accepted it.
ReadyIsTrue ==
  report \in {"native-ready", "hypervisor-ready"} =>
    /\ SupportedCPU(host.machine)
    /\ host.machine.umip /\ "clear" \notin KernelArguments(bootloader, booted) => ~UMIPRequiredOff(host.machine)
    /\ tool = "whole" \/ (host.wrapper = "usable" /\ host.library = "usable")
    /\ report = "native-ready" => host.machine.fault
    /\ report = "hypervisor-ready" => module = "compatible" /\ accepted

=============================================================================
