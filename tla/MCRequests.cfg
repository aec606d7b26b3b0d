CONSTANTS
  Callers = {c1, c2}
  Rivals = {c2}
  MaxNode = 1
  MaxUser = 2
  Nil = Nil
SPECIFICATION Spec
INVARIANT VisibleIsBool
PROPERTY ImplementsDirectory
CHECK_DEADLOCK FALSE
