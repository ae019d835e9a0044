SPECIFICATION FairSpec
CONSTANTS
  W = 5
  MAX_OUT_L = 3
  RESULT_RAM_DEPTH = 4
  MaxPlates = 3
INVARIANTS
  PlatesReadable
