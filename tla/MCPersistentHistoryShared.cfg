\* Two REPLs of one external_id; no crash and no failing write.
SPECIFICATION PhSpec
CONSTANTS
  replA = replA
  replB = replB
  cmdA = cmdA
  cmdB = cmdB
  Repls = {replA, replB}
  Commands = {cmdA, cmdB}
  MaxClock = 2
  MaxFaults = 0
  Nobody = Nobody
  NoCommand = NoCommand
INVARIANTS HistoryIsShared
CHECK_DEADLOCK FALSE
