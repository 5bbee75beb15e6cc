SPECIFICATION FairSpec
CONSTANTS
  Tries = 5
  MaxUnits = 4
  MaxIntercepts = 2
INVARIANTS TypeOK NoStuckReader AtMostOneLeftBehind UnitsGoOneWay AnswerInOrder
PROPERTIES StreamSpec PutGoesThrough InterceptEnds NothingStays
CHECK_DEADLOCK FALSE
