CONSTANTS
  FL_SIZE = 2
  KM_STATIC_SIZE = 12
  KM_PAGES_ADD = 6
  Bytes = {1, 2, 5}
  Gaps = {0, 1}
  MaxGrowth = 1
SPECIFICATION Spec
INVARIANTS BlocksApart NothingLost Coalesced
CHECK_DEADLOCK FALSE
