SPECIFICATION Spec
CONSTANTS
  N = 3
  k = 4
  T_RAM = 1
  T_find_winner = 2
  Windows <- MCWindows
  MAX_out_L = 1
  DetectRange = 2
INVARIANTS
  TypeOK
  ConvAligned
  ColumnsConsecutive
  FcAligned
  ScoreAligned
  WindowKept
PROPERTIES
  Answers
