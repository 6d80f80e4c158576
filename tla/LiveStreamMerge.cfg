SPECIFICATION Spec
CONSTANTS
  Sessions = {1, 2}
  Dialogs = {}
  Nil = Nil
  Window = 2
  MaxConns = 1
  MaxEvents = 1
  MaxLine = 3
  MaxFaults = 1
INVARIANTS NeverMerged
CHECK_DEADLOCK FALSE
