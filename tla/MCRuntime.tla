------------------------------ MODULE MCRuntime ------------------------------
(* One model-checking instance for the engine's parts that are modelled on   *)
(* their own: start-up, memory admission, a target pass, provider handles,   *)
(* retained experts, the two drafters, and below the expert cache the read   *)
(* plans, the runs that serve them and the search of the tiers.  A behaviour *)
(* runs one of them, named by mode; they share the variables v1, ..., v11,   *)
(* and every module is checked with the bounds its INSTANCE gives it.        *)
(* The five about which there are theorems are extended instead: they keep   *)
(* their own variables, and the .cfg gives their bounds.                     *)
EXTENDS TargetPass, RetainStore, ProviderHandles, QwenDraft, DSparkDraft

VARIABLES
  mode,    \* which of the machines below runs
  v1, v2, v3, v4, v5, v6, v7, v8, v9, v10, v11    \* its variables, in the order of its module

v == <<v1, v2, v3, v4, v5, v6, v7, v8, v9, v10, v11>>

\* MemoryBudget: launches on a unified, a host-only and a discrete machine.
FixedCost == [host |-> 1, provider |-> 1]
QwenSizes == [probe |-> 1, wide |-> 3]
Mac ==
  [os |-> "macos", limit |-> -1, readable |-> TRUE, kind |-> "unified", deviceUsed |-> 0,
   deviceKnown |-> TRUE, costs |-> <<2, 3, 1>>, layers |-> 99, spread |-> FALSE, trace |-> TRUE,
   loadReserve |-> -1, growReserve |-> 1, deviceReserve |-> -1, verifyAlways |-> FALSE,
   qwen |-> {"probe", "wide"}, qwenAuto |-> TRUE, nocache |-> "auto", cacheBytes |-> -1,
   union |-> "scale4"]
Linux == [Mac EXCEPT !.os = "linux", !.kind = "host", !.limit = 26, !.union = "raw"]
Cuda ==
  [Linux EXCEPT !.kind = "discrete", !.limit = -1, !.union = "off", !.deviceUsed = 4, !.qwenAuto = FALSE]
Launches11 ==
  {Mac, [Mac EXCEPT !.spread = TRUE, !.growReserve = -1],
   [Mac EXCEPT !.costs = <<4, 1, 2>>, !.nocache = "on", !.cacheBytes = 4],
   [Mac EXCEPT !.costs = <<1, 0, 1>>, !.nocache = "off", !.qwen = {}],
   [Mac EXCEPT !.layers = 1, !.loadReserve = 1, !.verifyAlways = TRUE],
   Linux, [Linux EXCEPT !.readable = FALSE], [Linux EXCEPT !.limit = -1, !.qwenAuto = FALSE],
   Cuda, [Cuda EXCEPT !.deviceKnown = FALSE],
   [Cuda EXCEPT !.deviceUsed = 0, !.costs = <<4, 1, 2>>, !.deviceReserve = 1]}

\* EngineBootstrap: what may be asked for, of which machine, on which files.
StartRequests ==
  [spine : {"int8", "bf16"}, authority : {"int8", "bf16"}, device : {"auto", "mps", "cuda"},
   backend : {"auto", "metal", "cuda"}, fdcache : {"auto", "on"}, scale4 : {"off", "auto", "require"},
   dspark : {"auto", "on"}, qwen : {"auto", "on"}, chat : {TRUE}, workers : {0}]
Machines ==
  {[mps |-> TRUE, cuda |-> 0, bf16 |-> FALSE, moe |-> FALSE, m1 |-> TRUE, cpus |-> 10, macos |-> TRUE],
   [mps |-> FALSE, cuda |-> 1, bf16 |-> FALSE, moe |-> TRUE, m1 |-> FALSE, cpus |-> 16, macos |-> FALSE],
   [mps |-> FALSE, cuda |-> 1, bf16 |-> TRUE, moe |-> FALSE, m1 |-> FALSE, cpus |-> 4, macos |-> FALSE]}
Installed ==
  [int8 |-> TRUE, packs |-> FALSE, missing |-> 0, scale4 |-> TRUE, dspark |-> "good",
   qwen |-> {"probe", "wide"}, homes |-> "none"]
Installations ==
  {Installed,
   [Installed EXCEPT !.missing = 1, !.scale4 = FALSE, !.dspark = "broken", !.qwen = {"wide"}],
   [Installed EXCEPT !.packs = TRUE, !.dspark = "absent", !.homes = "broken"],
   [Installed EXCEPT !.int8 = FALSE, !.homes = "broken"]}

\* ReadPlanCompile: one or two extents of three bytes, under six admissions.
Part(a, n) == [at |-> a, len |-> n]
Rd(p, f, a, n, d) == [op |-> "read", path |-> p, from |-> f, parts |-> <<Part(a, n)>>, digest |-> d]
PlanExtents ==
  {Rd("a", f, a, n, d) : f \in {0, 1}, a \in {0, 1, 2}, n \in {0, 1, 2}, d \in {FALSE, TRUE}}
  \cup {Rd("b", 0, a, n, FALSE) : a \in {0, 2}, n \in {1, 2}}
  \cup {[op |-> "zero", path |-> "none", from |-> 0, parts |-> <<Part(a, 1)>>, digest |-> FALSE] : a \in {1, 2}}
  \cup {[op |-> "vectored", path |-> "a", from |-> 1, parts |-> ps, digest |-> d] :
          ps \in {<<Part(2, 1), Part(0, 1)>>, <<Part(0, 2), Part(2, 1)>>, <<Part(1, 0), Part(0, 1)>>,
                 <<Part(0, 1), Part(0, 1)>>}, d \in {FALSE, TRUE}}
Contract(p, n, rs) == [path |-> p, length |-> n, ranges |-> rs]
PlanContracts ==
  {<<>>, <<Contract("a", 3, {Part(0, 1), Part(1, 2)})>>, <<Contract("a", 3, {Part(0, 3)}), Contract("b", 2, {Part(0, 2)})>>,
   <<Contract("a", 3, {Part(0, 2)}), Contract("a", 3, {Part(1, 2)})>>, <<Contract("a", 2, {Part(0, 2)})>>}
PlanRequests ==
  {[adm |-> m, extents |-> xs, contracts |-> IF m \in {"ranges", "authenticated"} THEN cs ELSE <<>>,
    files |-> [p \in {"a"} |-> 3], declared |-> n, chunk |-> c, room |-> 1] :
     m \in {"persistent", "exact", "manifest", "manifest_persistent", "ranges", "authenticated"},
     xs \in {<<x>> : x \in PlanExtents} \cup {<<x, y>> : x, y \in PlanExtents}, cs \in PlanContracts,
     n \in {3}, c \in {0, 1}}
  \cup {[adm |-> "manifest", extents |-> <<Rd("a", 0, 0, 4, d)>>, contracts |-> <<>>,
         files |-> [p \in {"a"} |-> 4], declared |-> 4, chunk |-> 1, room |-> 1] : d \in BOOLEAN}

\* PlanReads: plans of each kind.
PlansOf == [gather |-> 1, pack |-> 1, persistent |-> 2, scale4 |-> 2]

\* CatalogReads: files 1 and 2 on three tiers.
TierCosts == [hot |-> 2, c |-> 3, b |-> 3, primary |-> 1]
Two(hot, b, p) == [hot |-> hot, c |-> "absent", b |-> b, primary |-> p]
TierLayouts ==
  {<<Two("good", "absent", "good"), Two("absent", "good", "absent")>>,
   <<Two("absent", "absent", "good"), Two("wrong", "good", "absent")>>}

\* The extended modules have variables of their own: in their modes the eleven
\* stay as they are, and in the other modes theirs do.
Unused == v1 = 0 /\ v2 = 0 /\ v3 = 0 /\ v4 = 0 /\ v5 = 0 /\ v6 = 0
       /\ v7 = 0 /\ v8 = 0 /\ v9 = 0 /\ v10 = 0 /\ v11 = 0
PassInit == mode = "pass" /\ TInit /\ Unused
PassStep == mode = "pass" /\ TNext /\ UNCHANGED <<mode, v>>
NoPass == TInit /\ pass.backend = "host"

\* Two layers, three tensors at a time, two refused or rejected calls.
HandlesInit == mode = "handles" /\ PInit /\ Unused
HandlesStep == mode = "handles" /\ PNext /\ UNCHANGED <<mode, v>>
NoHandles == PInit /\ todo = KdaCanary

\* Three tiles over two layers and nine allocations; tiles of TopK experts.
RetainInit == mode = "retain" /\ RInit /\ Unused
RetainStep == mode = "retain" /\ RNext /\ UNCHANGED <<mode, v>>
NoRetain == RInit /\ ~rst.metal

\* Two requests in a context of three rows that the target may pass.
DsparkInit == mode = "dspark" /\ DInit /\ Unused
DsparkStep == mode = "dspark" /\ DNext /\ UNCHANGED <<mode, v>>
NoDspark == DInit /\ dmode = "off"

\* Five verified steps of any acceptance.
QwenInit == mode = "qwen" /\ QInit /\ Unused
QwenStep == mode = "qwen" /\ QNext /\ UNCHANGED <<mode, v>>
NoQwen == QInit /\ qwen.source = "none" /\ qenv = [adaptive |-> FALSE, overrideOff |-> FALSE]

\* Thirty units of memory, of which other processes take up to fourteen.
M == INSTANCE MemoryBudget WITH
  Physical <- 30, DeviceTotal <- 30, HostFloor <- 3, HostPermille <- 180,
  DeviceFloor <- 2, DevicePermille <- 100, DiscretePermille <- 850,
  CacheReserve <- 2, ExpertSpan <- 1, CudaExpertMax <- 2,
  FixedBase <- FixedCost, QwenBytes <- QwenSizes, InitialTokens <- 2,
  AdmittedTokens <- 7, StartupTokens <- 3, LayerTokenBytes <- 1,
  MlaLayers <- 2, KdaBytes <- 1, Experts <- {1, 2, 3}, TopK <- 2,
  BaseUnion <- 2, UnionMax <- 3, TileRows <- 2, FullCommitMax <- 4,
  MaxRows <- 3, Retries <- 2, ForeignSteps <- {0, 6, 14},
  Launches <- Launches11, box <- v1, mem <- v2, bplan <- v3, ctx <- v4,
  wait <- v5, tiles <- v6, grant <- v7
MemoryInit == mode = "memory" /\ M!MInit /\ v8 = 0 /\ v9 = 0 /\ v10 = 0 /\ v11 = 0
MemoryStep == mode = "memory" /\ M!MNext /\ UNCHANGED <<mode, v8, v9, v10, v11>>

\* Every request on three machines and four installations, one fault.
B == INSTANCE EngineBootstrap WITH
  Requests <- StartRequests, Hosts <- Machines, Installs <- Installations,
  SpineFiles <- 2, MaxBootFaults <- 1, req <- v1, machine <- v2, root <- v3,
  fds <- v4, boot <- v5, at <- v6, why <- v7, bfaults <- v8
BootInit == mode = "boot" /\ B!BInit /\ v9 = 0 /\ v10 = 0 /\ v11 = 0
BootStep == mode = "boot" /\ B!BNext /\ UNCHANGED <<mode, v9, v10, v11>>

\* Plans for three bytes.
C == INSTANCE ReadPlanCompile WITH
  Requests <- PlanRequests, ExactLength <- 3, MaxSources <- 1,
  MaxContracts <- 2, MaxVerified <- 3, MaxJobs <- 3, req <- v1, made <- v2
PlanInit == mode = "plan" /\ C!CInit /\ v3 = 0 /\ v4 = 0 /\ v5 = 0 /\ v6 = 0 /\ v7 = 0 /\ v8 = 0 /\ v9 = 0 /\ v10 = 0
         /\ v11 = 0
PlanStep == mode = "plan" /\ C!CNext /\ UNCHANGED <<mode, v3, v4, v5, v6, v7, v8, v9, v10, v11>>

\* Two runs by two workers of a file that is changed once.
P == INSTANCE PlanReads WITH
  Records <- {1, 2}, Unions <- {{1}, {1, 2}}, Workers <- {1, 2},
  MaxPlans <- PlansOf, MaxRuns <- 2, Capacity <- 1, MaxChanges <- 1,
  kind <- v1, disk <- v2, plans <- v3, runs <- v4, work <- v5, session <- v6,
  budget <- v7
RunInit == mode = "run" /\ P!RInit /\ v8 = 0 /\ v9 = 0 /\ v10 = 0 /\ v11 = 0
RunStep == mode = "run" /\ P!RNext /\ UNCHANGED <<mode, v8, v9, v10, v11>>

\* Two files, one of them moved, one failing read.
K == INSTANCE CatalogReads WITH
  Routes <- {"legacy", "mirror", "eta", "home"}, Sources <- {1, 2},
  Chunks <- 2, HotChunks <- 1, Configured <- {"hot", "b", "primary"},
  Cost <- TierCosts, Layouts <- TierLayouts, Workers <- {1, 2}, MaxMoves <- 1,
  MaxIoErrors <- 1, route <- v1, copies <- v2, slots <- v3, outstanding <- v4,
  work <- v5, charged <- v6, jobs <- v7, done <- v8, kept <- v9, moves <- v10,
  errors <- v11
CatalogInit == mode = "catalog" /\ K!KInit
CatalogStep == mode = "catalog" /\ K!KNext /\ UNCHANGED <<mode>>

-----------------------------------------------------------------------------
OtherInit == MemoryInit \/ BootInit \/ PlanInit \/ RunInit \/ CatalogInit
OtherStep == MemoryStep \/ BootStep \/ PlanStep \/ RunStep \/ CatalogStep

MCInit ==
  \/ PassInit /\ NoRetain /\ NoHandles /\ NoQwen /\ NoDspark
  \/ RetainInit /\ NoPass /\ NoHandles /\ NoQwen /\ NoDspark
  \/ HandlesInit /\ NoPass /\ NoRetain /\ NoQwen /\ NoDspark
  \/ QwenInit /\ NoPass /\ NoRetain /\ NoHandles /\ NoDspark
  \/ DsparkInit /\ NoPass /\ NoRetain /\ NoHandles /\ NoQwen
  \/ OtherInit /\ NoPass /\ NoRetain /\ NoHandles /\ NoQwen /\ NoDspark
MCNext ==
  \/ PassStep /\ UNCHANGED <<rvars, pvars, qvars, dvars>>
  \/ RetainStep /\ UNCHANGED <<tvars, pvars, qvars, dvars>>
  \/ HandlesStep /\ UNCHANGED <<tvars, rvars, qvars, dvars>>
  \/ QwenStep /\ UNCHANGED <<tvars, rvars, pvars, dvars>>
  \/ DsparkStep /\ UNCHANGED <<tvars, rvars, pvars, qvars>>
  \/ OtherStep /\ UNCHANGED <<tvars, rvars, pvars, qvars, dvars>>

MCSpec == MCInit /\ [][MCNext]_<<mode, v, tvars, rvars, pvars, qvars, dvars>>

-----------------------------------------------------------------------------
(* Properties: those of the modules, each in its own mode.                  *)

\* Resident layers, the largest streamed layer and every fixed cost fit together
\* beside the reserve; the context capacity the engine books is the one the
\* provider reaches row by row; credit reduces an admission to a watermark.
LoadLeavesTheReserve ==
  mode = "memory" => M!LoadLeavesTheReserve /\ M!GrowthMirrorsTheProvider /\ M!CreditIsAWatermark

\* What was asked for by name is what a ready engine runs; descriptors, scale4
\* storage or a drafter that was only automatic never ends the start; and what
\* holds provider memory was charged before the resident layers were chosen.
RequestsAreHonoured == mode = "boot" => B!RequestsAreHonoured /\ B!NothingRunsUncharged

\* A read plan's jobs fill its buffer exactly once from where it was asked; the
\* bytes of a pack, a gather or a Scale4 sidecar that a run hands out are vouched
\* for, from one file, within the descriptor budget; and an expert is found on any tier it stays on, its chunks are of one
\* file, and tiers are charged with what is in flight.
ReadsAreFaithful ==
  CASE mode = "plan" -> C!AdmittedPlansAreExact
    [] mode = "run" -> P!ServedBytesAreVouchedFor /\ P!OneFilePerRun /\ P!KeptFilesAreReserved
    [] mode = "catalog" -> K!FoundWhereverItIs /\ K!ChunksAreOneFile /\ K!ChargesAreReads
    [] OTHER -> TRUE
=============================================================================
