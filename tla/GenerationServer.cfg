SPECIFICATION FairSpec
CONSTANTS
  Clients = {c1, c2, c3}
  Streaming = {c1}
  Keys = {1, 2, 3}
  Size <- MCSize
  QueueSlots = 2
  MaxEntries = 2
  MaxBytes = 2
INVARIANTS
  GateIsFair
  AnswersAreCertified
PROPERTIES
  EveryoneLeaves
