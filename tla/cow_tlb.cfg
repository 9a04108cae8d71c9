CONSTANTS
  Task = {t1, t2}
  First = t1
  Page <- Pages1
  Frame <- Frames2
  ReadOnly = {}
  Value = {v1, v2}
  None = none
  Cached <- Pages1
  TablesMayRunOut = FALSE
  MaxRefs = 3
SPECIFICATION Spec
PROPERTIES OthersUntouched
CHECK_DEADLOCK FALSE
