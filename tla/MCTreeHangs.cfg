SPECIFICATION Live
CONSTANTS
  Channels = {c1, c2}
  Sounds = {}
  Master = Master
  Nobody = Nobody
  MaxMoves = 2
  Patient = FALSE
PROPERTIES TornDown
