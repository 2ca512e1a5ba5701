SPECIFICATION Spec
CONSTANTS
  audio = audio  host = host  None = None
  NumWorkers = 1
  Callers = {host}
  Jobs = {"even", "odd"}
  Calls <- ReclaimCalls
  Looks <- ReclaimLooks
  Sibling <- ReclaimSibling
  Capacity = 4
  MaxWaiting = 2
INVARIANTS DownMeansIdle
