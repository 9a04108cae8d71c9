CONSTANTS
  Daemon = daemon
  Shell = shell
  Others = {a}
  Task = {daemon, shell, a}
  NULL = null
  ULIMIT = 4
  TERMINAL_TYPE = 10
  NPROC_MAX = 3
  MAX_WAIT_PROC = 3
  WORD = 4
  MaxSleep = 2
  Awaited = {3, 10}
  Limits = {2, 3, 4}
  MemoryMayRunOut = TRUE
SPECIFICATION FairSpec
INVARIANTS TypeOK NoprocExact CountdownPositive
PROPERTIES RunningUndisturbed SleepersWake RoundRobin
