SPECIFICATION Spec
CONSTANTS
  Tokens = {0, 1}
  Eos = 0
  Prompts <- MCPrompts
  ChunkSize = 2
  Width = 2
  MaxNew = 2
  MaxContext = 5
  MinReuse = 2
  MaxRequests = 1
CHECK_DEADLOCK FALSE
INVARIANTS
  OnlyFaultsPoison
