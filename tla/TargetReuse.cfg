SPECIFICATION Spec
CONSTANTS
  Tokens = {0, 1}
  Eos = 0
  Prompts <- MCPrompts
  ChunkSize = 2
  Width = 2
  MaxNew = 3
  MaxContext = 5
  MinReuse = 2
  MaxRequests = 3
CHECK_DEADLOCK FALSE
INVARIANTS
  ContextIsOwn
PROPERTIES
  SettlementsAreHonest
