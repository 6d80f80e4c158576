SPECIFICATION FairSpec
CONSTANTS
  Sessions = {1}
  Dialogs = {}
  Nil = Nil
  Window = 2
  MaxConns = 1
  MaxEvents = 1
  MaxLine = 3
  MaxFaults = 0
PROPERTIES LostIsDetached
CHECK_DEADLOCK FALSE
