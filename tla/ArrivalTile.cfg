SPECIFICATION ArrivalSpec
CONSTANTS
  Workers = {w1, w2}
  Slots = {s1}
  Batches = {b1}
  Tile = b1
  Waves = 3
  JobCounts = {2, 6}
  Chunks = 2
  Quantum = 1
  MaxStreak = 1
  MayFail = TRUE
  MayClose = FALSE
INVARIANTS
  ExpertsArriveOnce
PROPERTIES
  TileEnds
