SPECIFICATION ArenaSpec
CONSTANTS
  Workers = {w1, w2}
  Slots = {s1, s2}
  Batches = {b1, b2}
  Speculative = {}
  JobCounts = {2}
  Chunks = 1
  Quantum = 1
  MaxStreak = 1
  MayFail = FALSE
  MayClose = FALSE
SYMMETRY Interchangeable
INVARIANTS
  NoRecycledWrite
  SlotsAreKept
