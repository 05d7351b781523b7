\* Saves and Steam fail and the backend dies, at any point.
SPECIFICATION ServerSpec
CONSTANTS
  Games = {g}
  Toggles = {t1, t2}
  Methods <- MCMethods
  Plain <- MCPlain
  MaxToggles = 3
  MaxWrites = 1
  MaxMoves = 1
  MaxKills = 1
  FailingSaves = TRUE
  FailingSteam = TRUE
  Bindings = {b1, b2}
  Nonces = {n1, n2}
  Handlers = {r1, r2}
  Age = 2
  Capacity = 1
  MaxClock = 3
  Limit = 2
  Window = 2
  MaxAllowed = 5
SYMMETRY Symmetry
ACTION_CONSTRAINT Apart
CHECK_DEADLOCK FALSE
INVARIANT ShortcutTypeOK
INVARIANT OptionsFollowRecord
INVARIANT WrappedIsRecorded
INVARIANT ServedIsSaved
INVARIANT LaunchKept
INVARIANT CapabilityTypeOK
INVARIANT AcceptedOnce
INVARIANT BurstsAreBounded
PROPERTY GoodIsAccepted
