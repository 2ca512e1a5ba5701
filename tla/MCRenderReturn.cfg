SPECIFICATION FairSpec
CONSTANTS
  NumWorkers = 1
  Tasks <- ReturnTasks
  Root = "master"
  LeafOrder <- ReturnLeaves
  Dependencies <- ReturnDependencies
  Arrivals <- ReturnArrivals
  Costs = {1, 3}
  WakeExact = TRUE
  GenLimit = 2
  None = None
INVARIANTS TypeOK NoWorkerInside BlockInv
PROPERTIES BlockEnds ShutdownEnds ImplementsBlock
