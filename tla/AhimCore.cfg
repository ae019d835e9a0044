SPECIFICATION FairSpec
CONSTANTS
  IMAGE_RAM_DEPTH = 4
  MIN_STRIP_SIZE = 2
  T_RAM_STORE = 2
  BP_RAM_SIZE = 4
  OCR_WD_UNIT = 2
  MaxLines = 1
  InitPayloads <- MCInitPayloads
  UploadPayloads <- MCUploadPayloads
  DigitCounts <- MCDigitCounts
INVARIANTS
  TypeOK
  BatchCounters
  ImageWindow
  OcrInStep
  WatchdogFull
  HeadcountCurrent
PROPERTIES
  HaltedUntilReset
  ImplementsProtocol
  BatchTerminates
