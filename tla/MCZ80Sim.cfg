SPECIFICATION FairSpec
CONSTANTS
  Word = 4
  Main = 4
  Programs <- MCPrograms
INVARIANTS
  NoNesting
  BlocksAreWhole
PROPERTIES
  FlipFlopsImplemented
  RequestIsMet
