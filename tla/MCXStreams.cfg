\* The two streams under every interleaving of the two cores.
SPECIFICATION FairSpec
CONSTANTS
  a = a
  b = b
  noChar = noChar
  NoChar = noChar
  Char <- MCChar
  MaxSent = 3
INVARIANTS
  GuardedCallsDoNotWait
PROPERTIES
  ChannelsKept
  ChannelsServed
  PutchReturns
