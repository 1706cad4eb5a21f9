SPECIFICATION FairSpec
CONSTANTS
  Workers = {w1, w2}
  Slots = {s1}
  Batches = {b1}
  Speculative = {}
  JobCounts = {0, 3}
  Chunks = 3
  Quantum = 2
  MaxStreak = 1
  MayFail = TRUE
  MayClose = TRUE
CHECK_DEADLOCK FALSE
INVARIANTS
  TypeOK
  CompletionIsExact
  ReadySourceHonest
PROPERTIES
  TicketsEnd
  ShutdownJoins
