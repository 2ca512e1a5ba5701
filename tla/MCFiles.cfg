SPECIFICATION Live
CONSTANTS
  Slots = {1}
  Threads = {audio, control}
  Audio = audio
  MaxRequests = 3
  MaxDowns = 1
INVARIANTS
  SlotHeldByOne
  ResultIsTrue
PROPERTIES
  AnsweredOnce
  EveryRequestAnswered
