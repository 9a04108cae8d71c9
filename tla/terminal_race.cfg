CONSTANTS
  Reader = {r1}
  Key = {28, 44}
  BUFFER_SIZE = 4
  WORD = 16
SPECIFICATION Spec
PROPERTIES ReadsWhole
