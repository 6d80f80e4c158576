SPECIFICATION FairSpec
CONSTANTS
  Sessions = {1}
  Nil = Nil
  MaxEvents = 3
  MaxChanges = 2
  MaxRestarts = 1
  MaxFaults = 1
  MaxFrames = 3
INVARIANTS TypeOK GraceIsForGone
PROPERTIES MirrorsOneSession GapHeals
CHECK_DEADLOCK FALSE
