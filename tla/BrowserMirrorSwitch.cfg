SPECIFICATION Spec
CONSTANTS
  Sessions = {1, 2}
  Nil = Nil
  MaxEvents = 2
  MaxChanges = 1
  MaxRestarts = 1
  MaxFaults = 0
  MaxFrames = 2
INVARIANT NeverMerged
CHECK_DEADLOCK FALSE
