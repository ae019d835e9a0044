SPECIFICATION Spec
CONSTANTS
  IMAGE_RAM_DEPTH = 4
  MIN_STRIP_SIZE = 2
  T_RAM_STORE = 3
  BP_RAM_SIZE = 4
  OCR_WD_UNIT = 2
  MaxLines = 2
  InitPayloads <- MCInitPayloads
  UploadPayloads <- MCUploadPayloads
  DigitCounts <- MCDigitCounts
INVARIANTS
  SkippedPlateNotTaken
