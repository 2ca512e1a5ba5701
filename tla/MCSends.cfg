SPECIFICATION Spec
CONSTANTS
  Channels = {c, r1, r2}
  Returns = {r1, r2}
  Slots = {1}
  MaxCalls = 3
  Prompt = FALSE
  None = None
  c = c  r1 = r1  r2 = r2
INVARIANTS
  NoDanglingSend
  RegistryAgrees
  NodesAlive
  Layered
  GraphCurrent
  AudioFollowsHost
SYMMETRY Symmetry
