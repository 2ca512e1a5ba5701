SPECIFICATION Spec
CONSTANTS
  Frames = 3
  Size = 2
  Targets = {0, 1, 3}
  Stops = 0
INVARIANTS AcceptsOnlyCurrent
