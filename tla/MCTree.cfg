SPECIFICATION TreeSpec
CONSTANTS
  Channels = {c1, c2, c3}
  Sounds = {s1}
  Master = Master
  Nobody = Nobody
  MaxMoves = 2
  Patient = TRUE
SYMMETRY AnyOrder
INVARIANTS PointersLive ListsAgree TreeFollowsHost
