SPECIFICATION Spec
CONSTANTS
  Sessions = {s1, s2}
  Clients = {a, b}
  Operations = {o1}
  MaxCommands = 4
  MaxConnects = 2
  MaxSwitches = 1
  Nil = Nil
SYMMETRY Symmetry
VIEW View
INVARIANTS TypeOK ExclusiveFence ClaimHasOwner DetachedIsClean
           InOrder RemoteInputFenced
PROPERTY ClaimNotDisplaced
CHECK_DEADLOCK FALSE
