SPECIFICATION Spec
CONSTANTS
  watchdog_rx_conf = 2
  watchdog_tx_conf = 6
  BP_PER_WORD = 2
  IMAGE_RAM_DEPTH = 3
  MaxWords = 2
  BUS_GAP = 2
  MaxKills = 1
  Uploads <- MCUploads
INVARIANTS
  TypeOK
  UploadStored
  DoneOnlyEnabled
  NoBeatHeld
  ResultsRead
PROPERTIES
  ResultsComplete
  StripTaken
  ResultsTaken
