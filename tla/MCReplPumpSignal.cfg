\* A paramiko connection and one signal.
SPECIFICATION FairSpec
CONSTANTS
  Kinds = {"ssh_paramiko"}
  MaxOut = 2
  MaxSignals = 1
PROPERTIES ClosesOnceDisconnected
CHECK_DEADLOCK FALSE
