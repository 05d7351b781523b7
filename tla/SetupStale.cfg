\* No event is lost and nothing is restarted.
SPECIFICATION SetupSpec
CONSTANTS
  JobIds = {j1}
  Kinds = {k1}
  Nothing = Nothing
  MaxRetained = 2
  ChannelCap = 3
  MaxUpdates = 1
  MaxRestarts = 0
  Reconciles = {r1, r2}
SYMMETRY Symmetry
INVARIANT ShownRunningRuns
