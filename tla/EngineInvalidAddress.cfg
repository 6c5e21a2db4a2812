\* The comments on the checks of SELTRACK and SELSECT against the engine.
SPECIFICATION Spec
CONSTANTS
  noFile = noFile
  NoFile = noFile
  BootImage = noFile
  NumFiles = 2
  Image <- MCImage
  Capacity = 8
  SegLen = 2
  MediaFaults = FALSE
  SectLen = 4
  MaxTrack = 2
  MaxSect = 1
  maxDiskNum = 0
  CountBound = 4
  GuestOpcode <- MCOpcode
  GuestByte = {0, 1}
  Payload = {77}
  InitSize <- MCSize
  InitData <- MCData
  InitBuffer <- MCBuffer
  InitDiskSet = 0
PROPERTY InvalidAddressMovesNothing
