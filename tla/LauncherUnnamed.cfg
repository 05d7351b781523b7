\* Notices name no application.
SPECIFICATION LauncherSpec
CONSTANTS
  Apps = {a, b}
  SessionIds = {s1, s2, s3}
  NoId = NoId
  Instances = {1, 2}
  MaxLaunches = 2
  MaxInterrupts = 0
  Unnamed = TRUE
  Late = FALSE
  BootModules = {"kvm", "kvm_amd"}
  Unreliable = FALSE
  Cancelling = TRUE
  Meddling = FALSE
  MaxCrashes = 0
SYMMETRY Symmetry
INVARIANT EmulationWhilePlaying
