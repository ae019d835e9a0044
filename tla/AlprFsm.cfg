SPECIFICATION FairSpec
CONSTANTS
  IMAGE_RAM_DEPTH = 2
  MaxWidth = 3
  CountRange = 4
  max_fpga_persists_states = 2
  max_persists_empty_frames = 2
  demo_mode = TRUE
  ocr_break = TRUE
  MaxPlates = 4
  MaxClips = 2
INVARIANTS
  TypeOK
  NoPlateTwice
  JobTracked
  ProtocolRespected
PROPERTIES
  ResetBeforeError
  ReturnsToFrames
  ResultsFetched
CHECK_DEADLOCK FALSE
