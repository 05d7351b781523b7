\* Nothing fails and nothing is killed; a game is uninstalled, turned off and installed again.
SPECIFICATION ShortcutsSpec
CONSTANTS
  Games = {g}
  Toggles = {t1}
  Methods <- MCMethods
  Plain <- FewPlain
  MaxToggles = 3
  MaxWrites = 0
  MaxMoves = 2
  MaxKills = 0
  FailingSaves = FALSE
  FailingSteam = FALSE
CHECK_DEADLOCK FALSE
INVARIANT NeverNested
