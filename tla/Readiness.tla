------------------------------ MODULE Readiness ------------------------------
(***************************************************************************)
(* What HV Launcher concludes of a system                                  *)
(* (backend/internal/system/inspect.go): whether the processor and the     *)
(* kernel can do it, by which path CPUID is intercepted, which checks fail *)
(* and what that makes of the whole.                                       *)
(*                                                                         *)
(* A machine is what /proc/cpuinfo, DMI and the kernel release say:        *)
(* vendor, family, model, the marks of a Steam Deck, the flags umip (as    *)
(* the processor has it) and cpuid_fault, and the kernel's version.        *)
(***************************************************************************)
EXTENDS Naturals

Vendors == {"GenuineIntel", "AuthenticAMD", "other"}

Machine == [vendor : Vendors, family : Nat, model : Nat, deck : BOOLEAN,
            umip : BOOLEAN, fault : BOOLEAN, kernel : Nat \X Nat]

\* The models of each generation, in family 6.
IntelModels ==
  {<<2, {42, 45}>>, <<3, {58, 62}>>, <<4, {60, 63, 69, 70}>>, <<5, {61, 71, 79, 86}>>,
   <<6, {78, 94}>>, <<7, {142}>>, <<8, {102}>>, <<9, {158}>>, <<10, {125, 126, 165, 166}>>,
   <<11, {140, 141}>>, <<12, {151, 154}>>, <<13, {183, 186}>>, <<14, {170, 172}>>,
   <<15, {197, 198}>>}

\* intelGeneration, amdZenGeneration; 0 is unknown.
IntelGeneration(m) ==
  IF m.family = 6 /\ \E g \in IntelModels : m.model \in g[2]
  THEN (CHOOSE g \in IntelModels : m.model \in g[2])[1] ELSE 0

ZenGeneration(m) ==
  CASE m.family = 23 -> IF m.model >= 48 THEN 2 ELSE 1
    [] m.family = 25 -> IF m.model >= 96 THEN 4 ELSE 3
    [] m.family = 26 -> 5
    [] OTHER -> 0

\* steamDeckEvidence
SteamDeck(m) == m.vendor = "AuthenticAMD" /\ m.family = 23 /\ m.deck

\* classifyCPU
SupportedCPU(m) ==
  \/ m.vendor = "GenuineIntel" /\ IntelGeneration(m) >= 4
  \/ m.vendor = "AuthenticAMD" /\ (ZenGeneration(m) >= 1 \/ SteamDeck(m))

UMIPRequiredOff(m) ==
  \/ m.vendor = "GenuineIntel" /\ IntelGeneration(m) >= 9
  \/ m.vendor = "AuthenticAMD" /\ (ZenGeneration(m) >= 2 \/ SteamDeck(m))

\* kernelAtLeast; classifyKernel requires 6.0.
KernelAtLeast(m, major, minor) ==
  m.kernel[1] > major \/ (m.kernel[1] = major /\ m.kernel[2] >= minor)

SupportedKernel(m) == KernelAtLeast(m, 6, 0)

\* selectPath
PathOf(m) ==
  IF ~SupportedCPU(m) \/ ~SupportedKernel(m) THEN "none"
  ELSE IF m.vendor = "GenuineIntel" THEN "native"
  ELSE IF ~SteamDeck(m) /\ ZenGeneration(m) >= 4 /\ KernelAtLeast(m, 6, 18) /\ m.fault THEN "native"
  ELSE "hypervisor"

Checks == {"cpu", "kernel", "umip", "cpuid-fault", "emulation-module", "linuwux"}

\* deriveStatusWithRuntime: live is the umip flag of the running kernel, found is
\* what modinfo says of the module, integration a tool or a runtime that is there.
FailedChecks(m, live, found, verified, integration) ==
  {c \in Checks :
     \/ c = "cpu" /\ ~SupportedCPU(m)
     \/ c = "kernel" /\ ~SupportedKernel(m)
     \/ c = "umip" /\ UMIPRequiredOff(m) /\ live
     \/ c = "cpuid-fault" /\ PathOf(m) = "native" /\ ~m.fault
     \/ c = "emulation-module" /\ PathOf(m) = "hypervisor" /\ (found # "compatible" \/ ~verified)
     \/ c = "linuwux" /\ ~integration}

Status(m, recovery, failed) ==
  IF recovery THEN "recovery-required"
  ELSE IF PathOf(m) = "none" THEN "unsupported"
  ELSE IF failed # {} THEN "setup-required"
  ELSE IF PathOf(m) = "native" THEN "native-ready" ELSE "hypervisor-ready"

Statuses == {"recovery-required", "unsupported", "setup-required", "native-ready", "hypervisor-ready"}

\* The LinUwUx runtime (backend/internal/linuwux/runtime/manager.go), from its
\* wrapper and its library.
RuntimeFiles == {"absent", "unusable", "usable"}

RuntimeState(files) ==
  IF files.wrapper = "absent" /\ files.library = "absent" THEN "absent"
  ELSE IF files.wrapper = "usable" /\ files.library = "usable" THEN "available" ELSE "invalid"

=============================================================================
