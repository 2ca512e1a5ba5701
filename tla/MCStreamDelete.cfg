SPECIFICATION FairSpec
CONSTANTS
  Frames = 3
  Size = 2
  Targets = {0}
  Stops = 0
PROPERTIES JoinReturns
