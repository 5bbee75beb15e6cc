\* A subprocess with a blocking pipe (Windows); the user sends no signals.
SPECIFICATION FairSpec
CONSTANTS
  Kinds = {"subprocess"}
  MaxOut = 2
  MaxSignals = 0
PROPERTIES ClosesOnceDead
CHECK_DEADLOCK FALSE
