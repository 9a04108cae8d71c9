CONSTANTS
  Task = {t1, t2}
  First = t1
  Archive <- SomeArchive
  BLOCK = 2
  SIZEOF_PAGE = 2
  OPEN_FILES_LIMIT = 3
  TERMINALS = 1
  Paths <- SomePaths
  Programs <- SomePrograms
  Counts = {3}
  Seeks <- SomeSeeks
  Limits = {2, 3}
  Magic = 127
  MaxOffset = 1
  MaxLeft = 3
SPECIFICATION Spec
INVARIANTS  ReadsExact ListsChildren LoadedExact
CHECK_DEADLOCK FALSE
