SPECIFICATION Spec
CONSTANTS
  Blank = 118
  MaxPrefixes = 2
  Starts <- MCStarts
  Typed = {272}
  InByte = {0, 255}
  MaxKeys = 1
INVARIANTS TypeOK ListingIsWhatRuns IndexedLeavesHL
PROPERTIES CallStepComesBack UntilRetStopsThere NoStopUnasked CallStepEnds
