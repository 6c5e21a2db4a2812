\* Two keys typed ahead of the program, none of them a NUL.
SPECIFICATION Spec
CONSTANTS
  MaxTyped = 2
  Nul = {}
  Reload = 2
  PollGap = 2
INVARIANT NothingIsOvertaken
