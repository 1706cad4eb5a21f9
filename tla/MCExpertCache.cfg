SPECIFICATION MCSpec
CONSTANTS
  NLayers = 3
  Experts <- MCExperts
  NSlots = 1
  TierCapacity = 1
  MinHits = 1
  MaxHits = 1
  ProtectHits = 2
  Configs <- MCConfigs
  MaxReads = 4
  MaxPasses = 2
  MaxReadFaults <- MCFaults
INVARIANTS
  ServedBytesAreRight
  SlotsAreOwnedOnce
