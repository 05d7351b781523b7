\* Nothing fails and nothing is killed; the user edits once.
SPECIFICATION ShortcutsSpec
CONSTANTS
  Games = {g}
  Toggles = {t1}
  Methods <- MCMethods
  Plain <- FewPlain
  MaxToggles = 2
  MaxWrites = 1
  MaxMoves = 0
  MaxKills = 0
  FailingSaves = FALSE
  FailingSteam = FALSE
CHECK_DEADLOCK FALSE
INVARIANT EditsAreKept
