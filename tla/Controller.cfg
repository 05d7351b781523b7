\* modprobe, the journal and the clients fail, and others load and remove modules,
\* at any point.
SPECIFICATION Spec
CONSTANTS
  Apps = {a, b}
  SessionIds = {s1, s2}
  Instances = {1}
  BootModules = {"kvm", "kvm_amd"}
  Unreliable = TRUE
  Cancelling = TRUE
  Meddling = TRUE
  MaxCrashes = 2
SYMMETRY Symmetry
INVARIANT TypeOK
INVARIANT LeaseInv
INVARIANT ChangesAreOnRecord
INVARIANT IdleOwesNothing
INVARIANT SessionsAreOnRecord
INVARIANT AmbiguityIsLeftAlone
INVARIANT GamesKeepEmulation
PROPERTY ForeignEmulationStays
PROPERTY LeaseSpec
