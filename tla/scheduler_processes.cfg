CONSTANTS
  Daemon = daemon
  Shell = shell
  Others = {a, b}
  Task = {daemon, shell, a, b}
  NULL = null
  ULIMIT = 5
  TERMINAL_TYPE = 10
  NPROC_MAX = 4
  MAX_WAIT_PROC = 4
  WORD = 4
  MaxSleep = 0
  Awaited = {1, 3, 4}
  Limits = {}
  MemoryMayRunOut = TRUE
VIEW ProcessView
SYMMETRY PcbSymmetry
SPECIFICATION Spec
INVARIANTS QueuesPartition IdleTaskRunnable ReapedAtOnce ParentsAlive PidsOwned DescriptorsAgree
PROPERTIES ExitNotifies
