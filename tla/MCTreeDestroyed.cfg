SPECIFICATION TreeSpec
CONSTANTS
  Channels = {c1, c2}
  Sounds = {s1}
  Master = Master
  Nobody = Nobody
  MaxMoves = 2
  Patient = FALSE
INVARIANTS PointersLive
