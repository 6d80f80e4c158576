SPECIFICATION FairSpec
CONSTANTS
  Sessions = {s1}
  Clients = {a}
  Operations = {o1}
  MaxCommands = 3
  MaxConnects = 2
  MaxSwitches = 0
  Nil = Nil
PROPERTIES CommandsSettle ExclusiveStarts LeaseEnds
CHECK_DEADLOCK FALSE
