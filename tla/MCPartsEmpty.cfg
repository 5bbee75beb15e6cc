\* Fetching, editing and saving, by itself.
SPECIFICATION Spec
CONSTANTS
  Body = 3
  MaxAsks = 3
  MaxBytes = 4
  MaxRepls = 3
  ReplTabs = {1, 2}
  MaxLines = 4
  Parts = {"sf"}
  c1 = c1
  c2 = c2
  Consoles = {c1, c2}
  Plugins = Plugins
  MaxEntries = 2
  MaxChatter = 1
  Paths <- SamePaths
  BaseName <- SameName
  MaxEdits = 2
  MaxQueued = 2
  MaxFailures = 1
  Numbers <- ColorNumbers
  MaxNumbers = 5
  MaxSequences = 1
  Height = 4
  MaxCells = 5
  MaxMove = 2
  MaxRequests = 3
  Widths <- LineWidths
  Letters = {"a", "b"}
  MaxLetters = 3
  MaxNames = 3
  MaxStray = 1
INVARIANT NothingIsEmptied
CHECK_DEADLOCK FALSE
