SPECIFICATION Spec
CONSTANTS
  Objects = {o1, o2}
  Graphs = {g1, g2, g3}
  Handles = {h1}
  Users = {u1}
  PlanCap = 1
  None = None
SYMMETRY AnyAddress
INVARIANTS NoUseAfterFree IdsAreUnique NoIdLost
