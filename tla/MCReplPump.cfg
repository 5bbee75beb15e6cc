SPECIFICATION FairSpec
CONSTANTS
  Kinds <- AllKinds
  MaxOut = 3
  MaxSignals = 2
INVARIANTS TypeOK OutputInOrder NothingSkipped BannerAtTheEnd ForgottenIsOver
PROPERTIES StreamSpec ReaderStops OutputReachesView EndReachesView
CHECK_DEADLOCK FALSE
