SPECIFICATION Spec
CONSTANTS
  Slots = {1}
  Threads = {audio, control}
  Audio = audio
  MaxRequests = 3
  MaxDowns = 0
INVARIANTS
  FailsOnlyWhenRejected
