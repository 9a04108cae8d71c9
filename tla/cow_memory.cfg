CONSTANTS
  Task = {t1, t2, t3}
  First = t1
  Page <- Pages2
  Frame <- Frames3
  ReadOnly = {2}
  Value = {v1, v2}
  None = none
  Cached = {}
  TablesMayRunOut = TRUE
  MaxRefs = 3
SPECIFICATION Spec
SYMMETRY SymmetricTasksAndValues
INVARIANTS CountsCover SharedReadOnly
PROPERTIES ImplementsPrivateMemory
CHECK_DEADLOCK FALSE
