------------------------------ MODULE MCTooling ------------------------------
(* One model-checking instance for the machines that work on files outside a *)
(* generation: installers, converters, the builder and the measuring tools.  *)
(* They share no state, so a behaviour runs one of them, named by mode, and  *)
(* they share the variables v1, ..., v9; every module is checked with the    *)
(* bounds its INSTANCE gives it.  SpineConvert, ExpertHeat, OneShotSetup,    *)
(* Upgrade and PinnedInstall, about which there are theorems, are extended:  *)
(* their variables are their own and their bounds those of the configuration.*)
EXTENDS Integers, SpineConvert, ExpertHeat, OneShotSetup, Upgrade, PinnedInstall

VARIABLES
  mode,    \* which of the machines below runs
  v1, v2, v3, v4, v5, v6, v7, v8, v9    \* its variables, in the order of its module

v == <<v1, v2, v3, v4, v5, v6, v7, v8, v9>>
Idle == v1 = 0 /\ v2 = 0 /\ v3 = 0 /\ v4 = 0 /\ v5 = 0 /\ v6 = 0 /\ v7 = 0 /\ v8 = 0 /\ v9 = 0

\* Upgrade: the second revision adds a model to the tree, the third removes it.
DataTree3 == <<{}, {"model"}, {}>>

CONSTANT NoOutput    \* BenchmarkCampaign: a model value for output that was not given

\* NativeBuild: link graphs of a test binary, with cycles, a missing library
\* and Python reached directly, transitively or by an allowed system name.
Edge(to) == [to |-> to, py |-> FALSE, sys |-> FALSE]
Graphs3 ==
  {[f \in {"exe", "a", "b", "p"} |-> CASE f = "exe" -> x [] f = "a" -> y [] f = "b" -> z [] f = "p" -> {}] :
     x \in {{Edge("a")}, {Edge("missing")}},
     y \in {{}, {Edge("b")}, {Edge("p")}},
     z \in {{}, {Edge("a")}, {Edge("p")}, {[Edge("p") EXCEPT !.sys = TRUE]}}}
TestSpecs2 ==
  <<[name |-> "cpu", platform |-> "any", flavor |-> "none", cases |-> <<"any", "macos", "any">>],
    [name |-> "abi", platform |-> "linux", flavor |-> "production", cases |-> <<"linux">>]>>
Toolkits3 ==
  {<<"A", "cuda13", 0, TRUE, TRUE>>, <<"B", "cuda12", 6, TRUE, TRUE>>, <<"C", "cuda13", 1, TRUE, FALSE>>}

\* PackFile: three tensors of two codecs.
Tensor(n, c, s, g, o) ==
  [name |-> n, codec |-> c, shape |-> s, group |-> g, order |-> o, good |-> TRUE]
Tensors3 ==
  <<Tensor(3, "q8", <<1, 3>>, 1, 0), Tensor(1, "raw", <<1, 1>>, 0, 0), Tensor(2, "q8", <<2, 1>>, 0, 1)>>

\* Beside a packer that builds, one that builds or verifies, for the same model
\* or another.
Command(i, only) == [identity |-> i, only |-> only]
PackCommands ==
  {[p \in {"p1", "p2"} |-> IF p = "p1" THEN Command(0, FALSE) ELSE c] :
     c \in {Command(i, only) : i \in {0, 1}, only \in BOOLEAN}}

\* ToolchainInstall: a good wheel and wheels with one thing wrong each.
Entry(p, n, y, r) ==
  [path |-> p, kind |-> "file", native |-> n, python |-> y, required |-> r, size |-> 1]
Library == Entry("lib", TRUE, FALSE, TRUE)
GoodWheel ==
  {Library, Entry("header", TRUE, FALSE, TRUE), Entry("pylib", TRUE, TRUE, FALSE),
   Entry("py", FALSE, FALSE, FALSE), [Entry("d", FALSE, FALSE, FALSE) EXCEPT !.kind = "dir"]}
Wheels6 ==
  {GoodWheel, GoodWheel \ {Library},
   GoodWheel \cup {[Entry("link", TRUE, FALSE, FALSE) EXCEPT !.kind = "link"]},
   GoodWheel \cup {Entry("unsafe", TRUE, FALSE, FALSE)},
   GoodWheel \cup {[Entry("big", TRUE, FALSE, FALSE) EXCEPT !.size = 9]},
   GoodWheel \cup {Entry("a", TRUE, FALSE, FALSE), Entry("b", FALSE, FALSE, FALSE)}}

\* BenchmarkCampaign: campaigns, what their runners write, and checkouts.
Arm(n, w, k, d) == [name |-> n, words |-> w, kda |-> k, drafter |-> d]
Plain == Arm("base", {"plain"}, "off", "none")
Campaign(arms, reps, ids, kg) ==
  [arms |-> arms, repetitions |-> reps, maxNew |-> 3, warmup |-> 1, ids |-> ids, text |-> NoOutput,
   keepGoing |-> kg, root |-> "directory", output |-> "fresh"]
Campaigns ==
  {Campaign(<<Plain, Arm("other", {"plain"}, "mps_fifo", "dspark")>>, 2, NoOutput, TRUE),
   Campaign(<<Plain, Arm("other", {"plain"}, "mps_fifo", "dspark")>>, 1, <<1, 2, 3>>, TRUE),
   [Campaign(<<Plain>>, 1, NoOutput, FALSE) EXCEPT !.output = "exists"]}
  \cup {Campaign(arms, 1, NoOutput, FALSE) :
          arms \in {<<Plain>>, <<Plain, Plain>>, <<Arm("x", {"secret"}, "off", "none")>>,
                    <<Arm("x", {"metal_source"}, "arena", "none")>>, <<Arm("x", {"plain"}, "arena", "qwen")>>}}
KdaReport ==
  {"requested", "eligible", "installed", "enabled_at_end", "called", "whole_bundle", "stage",
   "nothing_retained", "bound", "no_copy", "no_failure", "probed", "lease_reused", "no_events"}
RunStart ==
  [event |-> "run_start", time |-> 0, maxNew |-> 3, eos |-> 9, input |-> <<7>>, loaded |-> "dspark"]
Prefill(ids) == [event |-> "prefill_done", time |-> 1, ids |-> ids, duration |-> 1]
StepOf(k, ids, p, a) ==
  [event |-> "decode_step", time |-> 2 + k, step |-> k, ids |-> ids, proposed |-> p, accepted |-> a,
   duration |-> k + 1]
RunEnd(status, stop, emitted, completion) ==
  [event |-> "run_end", time |-> 9, status |-> status, stop |-> stop, emitted |-> emitted,
   completion |-> completion, prompt |-> <<7>>, text |-> completion, kda |-> KdaReport,
   proposals |-> 1, failures |-> 0, duration |-> 9]
Stream(ids, steps, end) == <<RunStart, Prefill(ids)>> \o steps \o <<end>>
Streams ==
  LET full == RunEnd("ok", "max_new", <<1, 2, 3>>, <<1, 2, 3>>)
  IN [good |-> Stream(<<1>>, <<StepOf(0, <<2, 3>>, 2, 1)>>, full),
      slow |-> Stream(<<1>>, <<StepOf(0, <<2>>, 2, 0), StepOf(1, <<3>>, 0, 0)>>, full),
      eos |-> Stream(<<1>>, <<StepOf(0, <<9>>, 2, 0)>>, RunEnd("ok", "eos", <<1, 9>>, <<1>>)),
      miscounted |-> Stream(<<1>>, <<StepOf(0, <<2, 3>>, 2, 0)>>, full),
      stopped |-> Stream(<<>>, <<>>, RunEnd("interrupted", "interrupted", <<>>, <<>>)),
      swapped |-> Stream(<<1>>, <<StepOf(1, <<2>>, 2, 0), StepOf(0, <<3>>, 0, 0)>>, full)]
Ran(e, n, f, s) == [exit |-> e, noisy |-> n, file |-> f, stream |-> s]
RunnerPlans ==
  {Ran("ok", FALSE, "good", Streams[s]) : s \in {"good", "eos", "miscounted", "stopped", "swapped"}}
  \cup {Ran("fail", FALSE, "good", Streams.slow), Ran("hang", FALSE, "good", Streams.slow),
        Ran("ok", TRUE, "good", Streams.slow), Ran("ok", FALSE, "oversize", Streams.slow),
        Ran("ok", FALSE, "torn", Streams.slow), Ran("spawn_error", FALSE, "missing", <<>>)}
Checkouts ==
  {[dotGit |-> "none", symlink |-> FALSE, private |-> {}, shared |-> {}],
   [dotGit |-> "worktree", symlink |-> FALSE, private |-> {},
    shared |-> {[kind |-> "loose", commit |-> 5], [kind |-> "packed", commit |-> 4]}]}

\* CacheWarm: archives in either order, damaged or with an unsafe header, and
\* the routes two traces recorded.
Matrix == <<<<1, 2, 3>>, <<4, 5, 6>>>>
Archive(o, f) ==
  [there |-> TRUE, matrix |-> Matrix, order |-> o, flaw |-> f,
   header |-> <<"descr", "shape", "fortran_order">>, ino |-> 1]
NoFile == [there |-> FALSE, matrix |-> <<>>, order |-> "C", flaw |-> "none", header |-> <<>>, ino |-> 0]
Archives5 ==
  {NoFile, Archive("C", "none"), Archive("F", "none"), Archive("F", "checksum"),
   [Archive("F", "none") EXCEPT !.header = <<"descr", "shape", "shape">>]}
Route(l, ids) == [layer |-> l, ids |-> ids]
RouteTraces == <<<<Route(1, <<12, 12>>)>>, <<Route(2, <<21>>), Route(2, <<21>>), Route(2, <<21>>)>>>>

\* HttpsTransfer: libraries old, without TLS and fit; redirects to everywhere.
Url(scheme, safe, host) == [scheme |-> scheme, safe |-> safe, host |-> host]
Curls ==
  {[version |-> 728, ssl |-> TRUE, https |-> TRUE], [version |-> 727, ssl |-> TRUE, https |-> TRUE],
   [version |-> 800, ssl |-> FALSE, https |-> TRUE], [version |-> 800, ssl |-> TRUE, https |-> FALSE]}
Redirects ==
  {[form |-> f, to |-> Url("https", TRUE, 1)] : f \in {"none", "empty", "control", "relative", "backslash"}}
  \cup {[form |-> f, to |-> u] : f \in {"absolute", "scheme_relative"},
         u \in {Url("https", TRUE, 2), Url("http", TRUE, 2), Url("https", FALSE, 2), Url("https", TRUE, 0)}}

\* NativeBuild: what may be wrong with a build.
BuildFlaws ==
  {"torch_layout", "tool_script", "deny_selftest", "compiler_unknown", "empty_object",
   "output_escape", "abi_both", "link_missing", "hip_roots"}

\* One resident file and three experts, two of them adjacent, by two workers.
W == INSTANCE WeightFetch WITH
  Residents <- {9}, ResidentBytes <- 3, ExpertAt <- <<0, 2, 6>>,
  ExpertBytes <- 2, Chunk <- 2, Workers <- {"w1", "w2"}, PerRun <- 2,
  DiskBytes <- 19, MaxFetchFaults <- 1, MaxFetchCrashes <- 1, demand <- v1,
  files <- v2, parts <- v3, orphans <- v4, fetch <- v5, worker <- v6,
  budget <- v7
FetchInit == mode = "fetch" /\ W!WInit /\ v8 = 0 /\ v9 = 0
FetchStep == mode = "fetch" /\ W!WNext /\ UNCHANGED <<mode, v8, v9>>

\* The extended machines rest in one state each while another one runs.
NoSpine == SInit
NoHeat == HInit
NoSetup ==
  /\ options = [mode |-> "auto", qwen |-> FALSE]
  /\ volume = [free |-> Capacity, meta |-> "absent", dspark |-> "absent", qwen |-> "absent",
               resident |-> 0, experts |-> 0, temp |-> 0, spine |-> 0]
  /\ OInit
NoInstall == kind = "k3" /\ dir = Empty /\ PInit
NoUpgrade == wrong = "nothing" /\ profile = (CHOOSE p \in Profiles : TRUE) /\ UInit

\* Three rows, a source that changes twice, three kills.
SpineInit == mode = "spine" /\ SInit /\ NoHeat /\ NoSetup /\ NoUpgrade /\ NoInstall /\ Idle
SpineStep == mode = "spine" /\ SNext /\ UNCHANGED <<mode, v, hvars, ovars, uvars, pvars>>

\* Two processes merging into one heat file.
HeatInit == mode = "heat" /\ HInit /\ NoSpine /\ NoSetup /\ NoUpgrade /\ NoInstall /\ Idle
HeatStep == mode = "heat" /\ HNext /\ UNCHANGED <<mode, v, svars, ovars, uvars, pvars>>

\* Any root, on a volume of which any part is free, up to just enough for the
\* whole plan.
SetupInit == mode = "setup" /\ NoSpine /\ NoHeat /\ NoUpgrade /\ NoInstall /\ Idle /\ OInit
SetupStep == mode = "setup" /\ ONext /\ UNCHANGED <<mode, v, svars, hvars, uvars, pvars>>

\* Three upstream revisions, one of which holds a file at a data path.
UpgradeInit == mode = "upgrade" /\ UInit /\ NoSpine /\ NoHeat /\ NoSetup /\ NoInstall /\ Idle
UpgradeStep == mode = "upgrade" /\ UNext /\ UNCHANGED <<mode, v, svars, hvars, ovars, pvars>>

\* Two launches of one installer over a directory of two files.
PinnedInit == mode = "pinned" /\ PInit /\ NoSpine /\ NoHeat /\ NoSetup /\ NoUpgrade /\ Idle
PinnedStep == mode = "pinned" /\ PNext /\ UNCHANGED <<mode, v, svars, hvars, ovars, uvars>>

\* Two converters of one corpus, one of whose files may be replaced.
C == INSTANCE Scale4Convert WITH
  Converters <- {"c1", "c2"}, NLayers <- 2, NExperts <- 1, Threads <- 2,
  ScalePlanes <- {<<3, 18, 4>>, <<2, 18, 2>>, <<241, 242, 241>>},
  MaxReplaced <- 1, MaxConverterKills <- 1, raw <- v1, names <- v2,
  corpus <- v3, converter <- v4, kills4 <- v5
Scale4Init == mode = "scale4" /\ C!CInit /\ v6 = 0 /\ v7 = 0 /\ v8 = 0 /\ v9 = 0
Scale4Step == mode = "scale4" /\ C!CNext /\ UNCHANGED <<mode, v6, v7, v8, v9>>

\* Every small link graph, three toolkits, one call of Python.
N == INSTANCE NativeBuild WITH
  Toolkits <- Toolkits3, TestSpecs <- TestSpecs2, Flaws <- BuildFlaws,
  LinkGraphs <- Graphs3, PythonFiles <- {"p"}, DependencyLimit <- 2,
  OutputLimit <- 1, Timeout <- 1, MaxDenied <- 1, site <- v1, job <- v2,
  marker <- v3, child <- v4, audit <- v5, denied <- v6
BuildInit == mode = "build" /\ N!NInit /\ v7 = 0 /\ v8 = 0 /\ v9 = 0
BuildStep == mode = "build" /\ N!NNext /\ UNCHANGED <<mode, v7, v8, v9>>

\* Two packers of one layer, of one model or of two; two faults.
K == INSTANCE PackFile WITH
  Packers <- {"p1", "p2"}, Layers <- {1}, Identities <- {0, 1}, Commands <- PackCommands,
  Tensors <- Tensors3, Component <- 2, Payload <- 4, ChunkBytes <- 4,
  MaxPayload <- 40, MaxPackFaults <- 2,
  source <- v1, packs <- v2, staged <- v3, packer <- v4, told <- v5,
  pfaults <- v6
PackInit == mode = "pack" /\ K!KInit /\ v7 = 0 /\ v8 = 0 /\ v9 = 0
PackStep == mode = "pack" /\ K!KNext /\ UNCHANGED <<mode, v7, v8, v9>>

\* Two bootstraps of one destination.
T == INSTANCE ToolchainInstall WITH
  Installers <- {"i1", "i2"}, Wheels <- Wheels6, EntryLimit <- 6,
  ByteLimit <- 8, MaxToolFaults <- 1, MaxToolKills <- 1, MaxTouches <- 1,
  pin <- v1, manifestPin <- v2, dest <- v3, litter <- v4, inst <- v5,
  told <- v6, tfaults <- v7, tkills <- v8, touches <- v9
ToolchainInit == mode = "toolchain" /\ T!TInit
ToolchainStep == mode = "toolchain" /\ T!TNext /\ UNCHANGED <<mode>>

\* Campaigns of one or two arms whose runner may be replaced and restored.
B == INSTANCE BenchmarkCampaign WITH
  CampaignOptions <- Campaigns, Plans <- RunnerPlans,
  Repositories <- Checkouts, MaxSwaps <- 2, opt <- v1, repo <- v2,
  original <- v3, copy <- v4, bench <- v5, kid <- v6, records <- v7,
  swaps <- v8
BenchInit == mode = "bench" /\ B!BInit /\ v9 = 0
BenchStep == mode = "bench" /\ B!BNext /\ UNCHANGED <<mode, v9>>

\* Up to two redirects to any place, three header blocks and two chunks in all.
X == INSTANCE HttpsTransfer WITH
  Libraries <- Curls,
  Urls <- {Url("https", TRUE, 1), Url("http", TRUE, 1), Url("https", FALSE, 1)},
  Locations <- Redirects, Statuses <- {206, 302, 404},
  Damages <- {"none", "duplicate", "not_utf8"}, MaxRedirects <- 2,
  HeaderBudget <- 3, MaxBlocks <- 2, MaxBody <- 2, Maximum <- 2, lib <- v1,
  hop <- v2, head <- v3, target <- v4, total <- v5, asked <- v6, result <- v7
HttpsInit == mode = "https" /\ X!HInit /\ v8 = 0 /\ v9 = 0
HttpsStep == mode = "https" /\ X!HNext /\ UNCHANGED <<mode, v8, v9>>

\* Two commands over two experts.
A == INSTANCE CacheWarm WITH
  Commands <- {"c1", "c2"}, Experts <- {12, 21},
  Truth <- [e \in {12, 21} |-> Matrix], Archives <- Archives5,
  Traces <- RouteTraces, Foreign <- <<0>>, Limits <- {3}, Fetches <- {1},
  MaxTouches <- 1, MaxWarmKills <- 1, MaxWarmFaults <- 1, npz <- v1,
  bin <- v2, litter <- v3, cmd <- v4, touched <- v5, wkills <- v6,
  wfaults <- v7
WarmInit == mode = "warm" /\ A!WaInit /\ v8 = 0 /\ v9 = 0
WarmStep == mode = "warm" /\ A!WaNext /\ UNCHANGED <<mode, v8, v9>>

-----------------------------------------------------------------------------
MCInit ==
  \/ SpineInit \/ HeatInit \/ SetupInit \/ UpgradeInit \/ PinnedInit
  \/ /\ NoSpine /\ NoHeat /\ NoSetup /\ NoUpgrade /\ NoInstall
     /\ \/ FetchInit \/ Scale4Init \/ BuildInit \/ PackInit
        \/ ToolchainInit \/ BenchInit \/ HttpsInit \/ WarmInit
MCNext ==
  \/ SpineStep \/ HeatStep \/ SetupStep \/ UpgradeStep \/ PinnedStep
  \/ /\ UNCHANGED <<svars, hvars, ovars, uvars, pvars>>
     /\ \/ FetchStep \/ Scale4Step \/ BuildStep \/ PackStep
        \/ ToolchainStep \/ BenchStep \/ HttpsStep \/ WarmStep

MCSpec == MCInit /\ [][MCNext]_<<mode, v, svars, hvars, ovars, uvars, pvars>>

-----------------------------------------------------------------------------
(* Properties: those of the modules, each in its own mode; the properties of *)
(* the extended modules are theirs.                                          *)

\* Weights carry no digest (weight_fetch.rs): every published tensor and expert
\* holds exactly its range across failures, kills and foreign files, a fetch
\* never uses more room than it checked for, and nothing an earlier fetch left
\* behind makes a later one fail; the transport below writes the final answer
\* and nothing else (trusted_download.rs), within the caller's limit, from https
\* URLs only, with one header budget for all redirects.
FetchedWeightsAreRight ==
  /\ mode = "fetch" => W!PublishedBytesAreRight /\ W!WithinCheckedCapacity /\ W!FetchEndsWell
  /\ mode = "https" => X!OnlyTheAnswerIsWritten

\* An activated scale4 corpus encodes one instant of the raw files, whoever
\* converted, was killed, resumed or replaced a file meanwhile.
ActivatedCorpusIsOneSnapshot == mode = "scale4" => C!ActivatedCorpusIsOneSnapshot

\* A green native build called no Python after its guard was armed, every test
\* it reports maps none through any chain of libraries, and its kernels are of
\* the CUDA that LibTorch uses.
GreenBuildIsNative ==
  mode = "build" => N!AuditedTestsMapNoPython /\ N!GreenBuildCalledNoPython /\ N!KernelsMatchLibTorch

\* Each component of a published pack is, verbatim, of one version of the source
\* of the packer's model, none older than the one read before it and all of one
\* version when the source was left alone; a publication replaces nothing, and a
\* pack reported verified is intact and of the asked model (packfile.rs).
PacksHoldTheirSource ==
  [][mode = "pack" => K!PublishesItsSource /\ K!VerifiesIntactPacks]_<<mode, v>>

\* A toolchain reported as usable is the native part of the pinned wheel, whole
\* and alone, and what killed installers leave never blocks the next one.
UsableToolchainIsExact ==
  mode = "toolchain" => T!UsableToolchainIsExact /\ T!LitterNeverBlocks

\* A campaign that reports success ran every arm with the pinned bytes (or bytes
\* replaced by the pinned ones before the run was over) and one output; and no
\* run is recorded as valid that was not compared to the oracle.
CampaignIsHonest == mode = "bench" => B!SuccessIsReal /\ B!ValidRunsMatchTheOracle

\* An archive disappears only when the raw file holds its matrix, no raw file is
\* overwritten, and a warming command left alone fetched the hottest misses.
ConversionLosesNothing ==
  /\ [](mode = "warm" => A!HottestAreWarm)
  /\ [][mode = "warm" => A!LosesNothing]_<<mode, v>>
=============================================================================
