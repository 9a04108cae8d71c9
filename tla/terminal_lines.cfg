CONSTANTS
  Reader = {r1, r2}
  Key = {14, 28, 42, 44}
  BUFFER_SIZE = 3
  WORD = 16
SPECIFICATION Spec
INVARIANTS BufferHoldsLine MarkedKeysHeld
PROPERTIES LossNeedsRace
SYMMETRY ReaderSymmetry
