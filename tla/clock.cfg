CONSTANTS
  Task = {t1, t2}
  QUANTUM = 2
  PIT_CLOCK_HZ = 4
  SIXTY = 2
  WORD = 3
  MaxFrames = 2
SPECIFICATION FairSpec
INVARIANTS SliceExact DisplayAgrees
PROPERTY Preempts
