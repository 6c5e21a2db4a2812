\* A program that writes the EEPROM as the comments say.
SPECIFICATION Spec
CONSTANTS
  absent = absent
  noDat = noDat
  Absent = absent
  NoDat = noDat
  maxDiskSet = 2
  CutAt = {0, 14, 256}
  MediaFaults = TRUE
  Half = 4
  Content <- MCContent
  StrAddr <- MCStrAddr
  Length <- MCLength
  SegLen = 2
  Key = {13, 27, 48, 51, 56, 57}
  GuestOpcode = {100}
  GuestBank = {}
  GuestByte = {1, 16}
  GuestAddr = {0}
  GuestContent <- MCGuestContent
  Moment = {0, 1}
  foundRTC = TRUE
  InitStored <- MCStored
PROPERTY EepromWrittenAsDocumented
