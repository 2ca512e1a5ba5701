SPECIFICATION SteadySpec
CONSTANTS
  NumWorkers = 2
  Tasks <- TwoTasks
  Root = "master"
  LeafOrder <- TwoLeaves
  Dependencies <- TwoDependencies
  Arrivals <- TwoArrivals
  Costs = {1}
  WakeExact = FALSE
  GenLimit = 2
  None = None
INVARIANTS RunsOnce NoLostWake
