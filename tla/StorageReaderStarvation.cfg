SPECIFICATION StreamSpec
CONSTANTS
  Workers = {w1}
  Slots = {s1, s2, s3}
  Batches = {b1, b2, b3}
  Speculative = {b1}
  JobCounts = {1}
  Chunks = 1
  Quantum = 1
  MaxStreak = 1
  MayFail = FALSE
  MayClose = FALSE
PROPERTY WaitReturns
