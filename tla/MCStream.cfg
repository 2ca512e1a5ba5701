SPECIFICATION FairSpec
CONSTANTS
  Frames = 3
  Size = 2
  Targets = {0, 1}
  Stops = 1
INVARIANTS FillAlone PlaysWhereItSays
PROPERTIES Fed
