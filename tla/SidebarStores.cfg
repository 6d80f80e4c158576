SPECIFICATION Spec
CONSTANTS
  Kinds = {"order", "groups", "meta"}
  Sessions = {s, t}
  Groups = {g, h}
  MaxOrder = 2
  MaxCalls = 3
  MaxFaults = 2
  Nil = Nil
SYMMETRY Symmetry
INVARIANTS AnswersAreTrue ShownIsSaved
CHECK_DEADLOCK FALSE
