\* Two jobs of which one is retained, a channel that overflows, a restart of the
\* backend, and a call of reconcile beside the stream.  A liveness property, so no
\* symmetry.
SPECIFICATION FairSetupSpec
CONSTANTS
  JobIds = {j1, j2}
  Kinds = {k1}
  Nothing = Nothing
  MaxRetained = 1
  ChannelCap = 1
  MaxUpdates = 1
  MaxRestarts = 1
  Reconciles = {r1}
INVARIANT SetupTypeOK
INVARIANT ActiveRuns
INVARIANT EndsAnnouncedOnce
PROPERTY JobsEnd
