SPECIFICATION Spec
CONSTANTS
  Channels = {c, r1}
  Returns = {r1}
  Slots = {1}
  MaxCalls = 1
  Prompt = TRUE
  None = None
  c = c  r1 = r1  r2 = r2
INVARIANTS
  NoDanglingSend
