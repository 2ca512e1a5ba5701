SPECIFICATION FairSpec
CONSTANTS
  audio = audio  host = host  None = None
  NumWorkers = 1
  Callers = {audio, host}
  Jobs = {"load", "setup", "refill"}
  Calls <- MixedCalls
  Looks <- MixedLooks
  Sibling <- MixedSibling
  Capacity = 2
  MaxWaiting = 2
INVARIANTS TypeOK JoinMeansDone QueuedCoversRing
PROPERTIES Served ShutdownEnds
