CONSTANTS
  Task = {t1, t2}
  First = t1
  Kernel = kernel
  SIZEOF_PAGE = 2
  ADDRESSES = 30
  start_kernel = 18
  StackBase = 14
  MALLOC_START_ADDR = 1
  Layouts <- SomeLayouts
  Programs <- SomePrograms
  ArgSizes <- SomeArgs
  Limits = {3}
  Hints = {9, 27}
  Lengths = {0, 3}
  Flags <- SomeFlags
  MaxChanges = 4
SPECIFICATION Spec
INVARIANTS AreasInOrder StackBounded GrownCovers
CHECK_DEADLOCK FALSE
