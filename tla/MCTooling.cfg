SPECIFICATION MCSpec
CONSTANTS
  NoOutput = NoOutput
  NRows = 3
  MaxVersions = 3
  MaxKills = 3
  Runs = {"p1", "p2"}
  NSlots = 2
  FlushEvery = 1
  MaxObserved = 1
  MaxHeatFaults = 1
  Capacity = 11
  MetaBytes = 1
  DSparkBytes = 2
  QwenBytes = 1
  ResidentBytes1 = 1
  ExpertBytes1 = 2
  SpineBytes = 1
  TempBytes = 2
  Headroom = 1
  MaxForeign = 1
  MaxStops = 2
  MaxRevision = 3
  DataTree <- DataTree3
  Obstacles = {"script_shim", "foreign_owner", "no_checkout", "hip_kernels", "project_files",
               "ambient_cargo_config", "cargo_home", "other_workspace", "git_hooks",
               "ssh_remote", "target_symlink", "artifact_outside_target", "other_toplevel",
               "detached", "no_upstream", "local_remote"}
  MaxEdits = 1
  MaxUpgradeStops = 1
  Installers = {"p1", "p2"}
  NFiles = 2
  Chunks = 2
  MaxFaults = 2
  MaxCrashes = 2
CHECK_DEADLOCK FALSE
INVARIANTS
  PublishedIsAuthentic
  FetchedWeightsAreRight
  SpineReceiptsAreTruthful
  ActivatedCorpusIsOneSnapshot
  HeatCountsOnce
  SetupFitsOrStops
  UpgradedBinaryIsHead
  GreenBuildIsNative
  UsableToolchainIsExact
  CampaignIsHonest
PROPERTIES
  FailedLaunchIsRepeatable
  OwnersWorkIsPreserved
  PacksHoldTheirSource
  ConversionLosesNothing
