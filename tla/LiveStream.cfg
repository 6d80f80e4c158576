\* A line may be refused, but not unheard: LiveStreamMerge.cfg has that.
SPECIFICATION FairSpec
CONSTANTS
  Sessions = {1, 2}
  Dialogs = {d}
  Nil = Nil
  Window = 2
  MaxConns = 2
  MaxEvents = 2
  MaxLine = 2
  MaxFaults = 1
INVARIANTS TypeOK UpToDate GraceIsForClosed DialogsOfSession
PROPERTIES MirrorsOneSession Heals
CHECK_DEADLOCK FALSE
