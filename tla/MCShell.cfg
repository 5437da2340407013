SPECIFICATION MCSpec
CONSTANTS
  None = None
  Sessions = {1, 2, 3, 4}
  Created = {1, 2, 3}
  MaxFavorites = 1
  PageSize = 1
  MaxCommands = 3
  MaxFaults = 1
  Projects = {1, 2, 3}
  Known = {1, 2}
  Origin <- MCOrigin
  Kept = {1, 2, 3}
  Blank = ""
  Urls = {"u"}
  Documents <- MCDocuments
  Logged <- MCLogged
  Texts = {"a", "b"}
  Chats = {1, 2}
  MaxModels = 3
INVARIANTS ShellInv SettingsInv NoNewDuplicates
PROPERTIES ChoiceWins ShellLoadsEnd
CHECK_DEADLOCK FALSE
