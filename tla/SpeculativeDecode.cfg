SPECIFICATION MCSpec
CONSTANTS
  Tokens = {0, 1, 2}
  Eos = 0
  Prompt <- MCPrompt
  MaxContext = 5
  MaxNew = 6
  MaxDrafts = 2
CHECK_DEADLOCK FALSE
PROPERTIES
  SpeculationIsExact
