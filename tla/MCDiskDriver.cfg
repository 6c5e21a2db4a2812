\* A documented disk driver, restarts and media faults included.
SPECIFICATION DriverSpec
CONSTANTS
  noFile = noFile
  noReq = noReq
  noReply = noReply
  failure = failure
  unknown = unknown
  NoFile = noFile
  NoReq = noReq
  NoReply = noReply
  Failure = failure
  Unknown = unknown
  BootImage <- MCBoot
  NumFiles = 2
  Image <- MCImage
  Capacity = 8
  SegLen = 2
  MediaFaults = TRUE
  SectLen = 4
  MaxTrack = 2
  MaxSect = 1
  maxDiskNum = 1
  CountBound = 4
  GuestOpcode = {}
  GuestByte = {}
  Payload = {}
  InitSize <- MCSize
  InitData <- MCData
  InitBuffer <- MCBuffer
  InitDiskSet = 0
  Block <- MCBlock
  Writable <- MCWritable
  BlockValue <- MCValue
CONSTRAINT MCFollowed
INVARIANTS
  NoFaultNoFailure
  CountsAgree
PROPERTIES
  DriverGetsABlockDevice
