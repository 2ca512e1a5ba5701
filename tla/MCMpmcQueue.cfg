SPECIFICATION Spec
CONSTANTS
  None = None
  Threads = {t1, t2, t3}
  Values = {a, b}
  Cells = 2
  MaxPos = 4
INVARIANTS CellsOwnedOnce
PROPERTIES ImplementsFifo
