SPECIFICATION Spec
CONSTANTS
  Processes = {p, q}
  Inputs = {i1, i2, i3}
  MaxIds = 2
  Nobody = Nobody
  Missing = Missing
SYMMETRY Symmetry
INVARIANTS TypeOK AcceptedIsDurable NeverFoundChanged
PROPERTY ReservesOnce
CHECK_DEADLOCK FALSE
