\* modprobe and the disk work; no symmetry, for a liveness property.
SPECIFICATION FairSpec
CONSTANTS
  Apps = {a, b}
  SessionIds = {s1, s2}
  Instances = {1}
  BootModules = {"kvm", "kvm_amd"}
  Unreliable = FALSE
  Cancelling = FALSE
  Meddling = FALSE
  MaxCrashes = 2
PROPERTY RecoversAfterKill
