CONSTANTS
  SIZEOF_PAGE = 2
  Maps <- SomeMaps
  Kernels <- SomeKernels
  Requests = {1, 2, 3}
  KmallocMayFail = TRUE
  MaxRefs = 2
SPECIFICATION Spec
INVARIANTS FreeExact CountsExact RunsCoalesced
CHECK_DEADLOCK FALSE
