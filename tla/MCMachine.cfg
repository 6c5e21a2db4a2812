\* Boots, programs and power failures, with a card that may fail.
SPECIFICATION Spec
CONSTANTS
  absent = absent
  noDat = noDat
  Absent = absent
  NoDat = noDat
  maxDiskSet = 2
  CutAt = {0, 14, 256}
  MediaFaults = TRUE
  Half = 4
  Content <- MCContent
  StrAddr <- MCStrAddr
  Length <- MCLength
  SegLen = 2
  Key = {13, 27, 48, 51, 56, 57}
  GuestOpcode = {2, 13, 100, 132}
  GuestBank = {0, 1, 2, 3}
  GuestByte = {16}
  GuestAddr = {0}
  GuestContent <- MCGuestContent
  Moment = {0, 1}
  foundRTC = TRUE
  InitStored <- MCStored
INVARIANTS
  MachineTypeOK
  SettingsInForce
  StartsWhatWasChosen
PROPERTIES
  SettingsAreKept
  BanksAreSeparate
  DateTimeIsOneMoment
  StartsUnattended
