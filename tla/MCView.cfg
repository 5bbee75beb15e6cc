SPECIFICATION Spec
CONSTANTS
  MaxOut = 2
  MaxTyped = 2
  MaxKeys = 2
  Texts <- SomeTexts
  Empty = ""
  Strip <- Stripped
  StartsWith <- Prefixes
  MaxPushes = 4
  replA = replA
  replB = replB
  cmdA = cmdA
  cmdB = cmdB
  Repls = {replA, replB}
  Commands = {cmdA, cmdB}
  MaxClock = 4
  MaxFaults = 2
  Nobody = Nobody
  NoCommand = NoCommand
INVARIANTS TypesOK RegionIsExact SentOnce HistoryIsSound FileIsSound AloneNothingLost
PROPERTIES OutputKept KeepsBeginning
CHECK_DEADLOCK FALSE
