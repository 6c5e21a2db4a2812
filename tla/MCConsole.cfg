\* Three keys, the second of them a NUL, past every layer of the console.
\* The model ends stopped when the debugger waits for a key and none is left to type.
SPECIFICATION FairSpec
CHECK_DEADLOCK FALSE
CONSTANTS
  MaxTyped = 3
  Nul = {2}
  Reload = 3
  PollGap = 3
INVARIANTS
  TypeOK
  KeysAreReadInOrder
PROPERTIES
  PromisesOutliveEverythingButTheDebugger
  EveryKeyIsReadOrOvertaken
  KeptCharactersInterrupt
