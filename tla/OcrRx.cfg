SPECIFICATION FairSpec
CONSTANTS
  W = 5
  MAX_OUT_L = 4
  RESULT_RAM_DEPTH = 4
  MaxPlates = 4
INVARIANTS
  TypeOK
  WordsExact
  ResultsExact
PROPERTIES
  Finishes
