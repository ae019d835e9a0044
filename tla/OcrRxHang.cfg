SPECIFICATION FairSpec
CONSTANTS
  W = 4
  MAX_OUT_L = 3
  RESULT_RAM_DEPTH = 4
  MaxPlates = 3
PROPERTIES
  Flushed
