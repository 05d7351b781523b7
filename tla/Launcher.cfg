\* Either a wrapper is killed or a request times out, the backend or the host dies,
\* or notices are late or name no application.
SPECIFICATION LauncherSpec
CONSTANTS
  Apps = {a, b}
  SessionIds = {s1, s2, s3}
  NoId = NoId
  Instances = {1, 2, 3}
  MaxLaunches = 3
  MaxInterrupts = 1
  Unnamed = TRUE
  Late = TRUE
  BootModules = {"kvm", "kvm_amd"}
  Unreliable = FALSE
  Cancelling = TRUE
  Meddling = FALSE
  MaxCrashes = 1
SYMMETRY Symmetry
ACTION_CONSTRAINT Apart
INVARIANT LauncherTypeOK
 
INVARIANT RestoredAfterLastGame
PROPERTY ControllerSpec
