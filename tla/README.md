# A TLA+ model of Deltafin

Deltafin runs a large mixture-of-experts language model whose experts stay on
SSD. A Rust engine (`native/deltafin`) streams expert weights through a pool of
reader threads, hands them to a compiled provider (`native/provider_gate`: C++,
Metal, CUDA), decodes with draft tokens that the full model verifies, and serves
requests over an OpenAI-compatible HTTP listener. Around the engine are the
commands that install, download, convert, pack, warm, build, upgrade and
benchmark it. This directory models the stateful core of all of these. Source
paths below are relative to `native/deltafin/src/` unless they say otherwise.

## 1. Inventory

| component | state | what is hard | correct when |
|---|---|---|---|
| storage reader (`storage.rs`) | two-class queue, batch counters, arena slots, workers; read plans; descriptors; tier counters | lock-free counters with a condvar, reads that outlive their ticket, files that change while read | slots are never reused under a read, counters exact, every waiter wakes; the bytes served are the ones asked for |
| arrival-driven tiles (`engine.rs`, `experts.rs`) | dispatched set, wave, ticket | error and ready flags read apart while workers run | only landed experts are dispatched, one final group |
| expert cache (`engine.rs`) | pinned tier, Summer slots, pending reservations, prefetch tickets, retained tile | reservations whose ticket was dropped, eviction of what is in use | a kernel never computes from another expert's bytes |
| retained memory (`engine.rs`, `storage.rs`, `provider.rs`) | retained store, graveyard, donation pool, provider wrappers | memory changes owner three times while the GPU side names it | no wrapper outlives its memory |
| target pass (`engine.rs`, `spine_runtime.rs`, `spine_source_use.rs`) | pipeline, borrowed sources, provider sequence, lifecycle | each provider call may fail or misreport | failures leave nothing borrowed, or poison |
| target reuse and lifecycle (`engine.rs`, `provider.rs`, `provider_runtime.cpp`) | provider tape, generation, branch; retained boundary | interruption, disconnect after the answer | no foreign context; retained = delivered |
| speculative decoding (`engine.rs`, `decode.rs`) | history, tape, drafts | two commit protocols with interruptions | the output is greedy decoding's |
| drafters (`dspark_*.rs`, `qwen_*.rs`) | draft cache mirror, boundaries, policies | errors that took effect, economics | drafts come from the target's history; policies recover |
| provider handles (`provider.rs`) | tensors, caches, tickets, transactions, branches | reports that are refused although the call took effect | nothing alive is forgotten |
| start and memory (`engine.rs`, `residency.rs`, `platform.rs`) | budgets, probes, parts | circular sizing, fallbacks, other processes | reserves are kept, requests honoured |
| HTTP server (`openai/server.rs`, `openai/response_memo.rs`) | gate, queue, memo, unsettled response | permit against queue, client gone at any point | one generation at a time, in order, settled, answered |
| installers and downloads (`setup_*.rs`, `dspark_setup.rs`, `trusted_download.rs`, `weight_fetch.rs`, `one_shot_setup.rs`, `deltafin-bootstrap`) | partials, staging, locks, published trees | kill between two changes on disk, hostile answers, overlap | only verified bytes are published, launches can be repeated |
| conversions (`spine_int8.rs`, `expert_scale4*`, `packfile.rs`, `legacy_npz.rs`, `cache_warm.rs`, `expert_heat.rs`) | partial and published files, receipts, counts | sources that change, several processes, kills | what is published is one version of its source; nothing is lost or counted twice |
| upgrade, build, benchmark (`upgrade.rs`, `deltafin-native-build`, `benchmark.rs`) | checkout, child processes, records | owner edits, timeouts, replaced executables | success means what it says |
| text, CLI, kernels, bindings | none shared | numerical or pure conversion | not modelled |

Interactions: the decode thread owns the engine and calls the provider
synchronously. It submits unions of experts to the reader and consumes tickets
(`ArrivalTile` composes the two). The server has one thread per admitted
request; the gate lets one of them into the engine (`GenerationServer`), which
serves it from `begin` to settlement (`TargetReuse`); inside it decoding runs the
loop of `SpeculativeDecode`, whose drafts come from `DSparkDraft` or `QwenDraft`
and each of whose verifications is a `TargetPass`. Each layer of a pass asks
`ExpertCache` for experts, which reads through the tickets of `StorageReader`,
compiled by `ReadPlanCompile` and run by `PlanReads` or `CatalogReads`. Setup
(`OneShotSetup`) runs `PinnedInstall` and `WeightFetch`, both over
`HttpsTransfer`; `EngineBootstrap` and `MemoryBudget` come before the first pass.

`PROJECT.json` lists the hazards, each at its line, with the properties that
would catch it.

## 2. Modules

The engine and the server:

* **StorageReader.** One step is one atomic access or one critical section.
  `batch[b]` is `Batch` with its `BatchCompletion`, `worker[w]` the program
  counter of `worker_main` / `run_quantum`, `ticket[b]` that of the owner.
  Reference counts are not stored: the references of a batch are the queue
  entries, the workers at a `Holding` place and the owner, and the step that
  removes the last one releases the slot, as `Drop for BufferLeaseInner` does.
* **ArrivalTile** extends StorageReader with `finish_arrival`: each of
  `wait_ready_sources`, `check_error`, `is_ready` is a step, because workers run
  between them.
* **ReadPlanCompile** is `ReadPlan::open_with_admission`: six admissions, the
  validation of every extent and contract, and the cut into jobs.
* **PlanReads** runs the jobs of a plan (`Batch::run_job`, `wait`) and the
  session cache of validated Scale4 records (`experts.rs`); a file is a version
  and a stamp (inode, times), which an operator changes at any time.
* **CatalogReads** reads whole expert files through the tiered catalog; a file has
  a copy, good or wrong, on each of up to four tiers.
* **ExpertCache** follows a pass layer by layer: prefetch for the next layer, the
  tile's five sources, into-slot reads with reservation, eviction, publication,
  sweeping, losers, retention. `cfg` holds the switches of the process.
* **RetainStore** is the memory under retained experts: `Surface`, detaching,
  burial, flush, donation.
* **TargetPass** is `execute_target_sequence` with the spine pipeline: a program
  counter for the engine, the borrow state of each reader slot, the provider's
  sequence. **ProviderHandles** is the wrapper's side of every other handle.
  In both the provider refuses, succeeds, or takes effect and misreports.
* **TargetReuse** follows one request at a time through the engine. The provider's
  caches are represented by the tape they were computed from; the engine sees
  only its length and generation.
* **GreedyDecode** is the promise, **SpeculativeDecode** the loop. The target is an
  unknown function `k3` of the tape; drafts are any tokens within the budget.
  `EmitsGreedily` is the refinement `Greedy!Spec`.
* **DSparkDraft** keeps the provider's draft rows, the wrapper's mirror, the ledger
  and the published boundary; `stale` says that the mirror's generation is not
  the provider's. **QwenDraft** is the controller with the request policy.
* **EngineBootstrap** runs `bootstrap` step by step over a machine and an
  installation; **MemoryBudget** its arithmetic in units of memory, then the
  admission of context, wide verification and unions.
* **GenerationServer** has the gate, the queue with its timed waits, the probe that
  runs outside the lock, body reading, both kinds of generation, settlement and
  the memo.

The commands around the engine. Each action is one change on disk or one
decision; a kill may come between any two, and leaves what was written:

* **PinnedInstall** (three installers by `kind`), **HttpsTransfer** (one transfer,
  libcurl being the environment), **WeightFetch**, **OneShotSetup**,
  **ToolchainInstall**, **Upgrade**;
* **SpineConvert**, **Scale4Convert**, **PackFile**, **CacheWarm**, **ExpertHeat**:
  a byte, row or record is the version of the source it came from, a digest is
  the value it digests;
* **NativeBuild** (commands, guard, child processes, library graph) and
  **BenchmarkCampaign** (pinned runner, child, events, validity).

`MCRuntime` and `MCTooling` hold several of these machines in one run: a behaviour
picks a `mode` and runs that machine alone. Most are instantiated over the shared
variables v1, v2, ..., with bounds given at the INSTANCE; the ones with theorems,
TargetPass, RetainStore, ProviderHandles, QwenDraft and DSparkDraft in the one and
SpineConvert, ExpertHeat, OneShotSetup, Upgrade and PinnedInstall in the other, are
extended, so that TLC evaluates their assumptions and checks the very property that is
proved. A mutant of a module is a mutant of its mode only. `MCStorageReader`, `MCExpertCache`, `MCTargetReuse`,
`MCSpeculativeDecode` and `MCGenerationServer` are one component each.

The proofs are in `StorageReaderProofs` (with ArrivalTile), `ExpertCacheProofs`,
`TargetReuseProofs`, `SpeculativeDecodeProofs`, `GenerationServerProofs`,
`RuntimeProofs` (TargetPass, RetainStore, ProviderHandles, QwenDraft and DSparkDraft)
and `ToolingProofs` (SpineConvert, ExpertHeat, Upgrade, OneShotSetup and PinnedInstall);
`SequenceLemmas` has the facts about sequences and least numbers that several of
them cite.

Where Rust gives no order (several threads), the model has none; where the code
holds a lock over several accesses, they are one step.

## 3. Runs

| run | instance | shows |
|---|---|---|
| reader_ticket | 2 workers, 1 slot, 1 batch of 0 or 3 jobs, quantum 2, failures and shutdown | counters, source readiness, wakeups and the liveness of waits, dropped tickets and shutdown; 3 jobs over quantum 2 make a worker requeue while the other runs |
| reader_arena | 2 workers, 2 slots, 2 batches of 2 jobs and both priorities, quantum 1, symmetric (`ArenaSpec`) | slots: never recycled under a read, never leaked, one left for demand |
| reader_starvation | 1 worker, 3 slots, a prefetch batch against a demand stream | bounded demand streak |
| arrival | 2 workers, tiles of 1 and 3 experts with 2 chunks each, 3 waves, failing reads | tiles are dispatched once, in full, only when landed, and end |
| target_reuse | 10 prompts that extend, diverge from, truncate or repeat each other, fill or exceed the context; 3 requests, faults | no foreign context, retained state is live and delivered, a disconnect costs one request |
| server | 3 clients (1 streaming), 2 waiting slots, 3 requests of sizes 1, 1, 2, memo of 2 entries and 2 bytes | mutual exclusion, order, settlement, memo, everyone leaves |
| speculative | 3 tokens, context 5, up to 2 drafts, 2187 targets | refinement of greedy decoding, one-token lag |
| expert_cache | 3 layers, 2 experts, 1 slot, 2 passes, 4 reads alive, 6 combinations of switches | the bytes a kernel reads are its experts', and every slot has one owner |
| runtime | 10 modes, bounds at each INSTANCE and, for the extended modules, in the cfg; read plans for 3 bytes, 2 runs by 2 workers, 2 files on 3 tiers | failing passes, handles, retained memory, drafters, memory, start-up, and the bytes of a read from plan to tier |
| tooling | 13 modes, bounds at each INSTANCE and, for the extended modules, in the cfg | installers, downloads, conversions, packs, builds, upgrades, campaigns |
| target_context_claim, install_resume_claim | one request; two launches, two kills | violations, see section 6 |

The properties of each run and what each says are in `PROJECT.json` and above their
definitions. In `runtime`: `FailedPassesAreContained`, `NothingIsForgotten`,
`NoWrapperOutlivesItsMemory`, `DraftsSeeTheTarget`, `QwenComesBack`,
`LoadLeavesTheReserve`, `RequestsAreHonoured`, `ReadsAreFaithful`. In `tooling`:
`PublishedIsAuthentic`, `FailedLaunchIsRepeatable`, `FetchedWeightsAreRight`,
`SpineReceiptsAreTruthful`, `ActivatedCorpusIsOneSnapshot`, `HeatCountsOnce`,
`SetupFitsOrStops`, `UpgradedBinaryIsHead`, `OwnersWorkIsPreserved`,
`GreenBuildIsNative`, `PacksHoldTheirSource`, `UsableToolchainIsExact`,
`CampaignIsHonest`, `ConversionLosesNothing`.

Bounds. Two workers are enough for every race the reader has, which are between
one claim and one other step; a third repeats them. Three requests are what
reuse needs: one to leave state, one to branch from it, one to see what the
second left. Three clients with two waiting slots give a running, a first and
a second waiter; a client that was answered may come again while both still
wait, which meets the full queue. Targets range over functions of position and
last token; `OneTokenLag` is what makes that enough, since it says the provider's
tape is the history's prefix as a sequence. Layers of two experts with one slot
make every hit, miss, loser and eviction; there are three layers because a hint
made at the second reads for the third while the second layer's tile is served,
which is how finding 11 comes about. With reads straight into slots, the first
pass routes one expert and its reads succeed (`Quick` in MCExpertCache): the
second pass meets a warm pool. In RetainStore a tile is as wide as TOP_K, which is
what the property needs (finding 9). For commands, two
processes and one or two kills: a third process repeats the second's races, and
what a kill leaves is a state on disk, which the next launch meets whatever came
before. The largest link graphs of `NativeBuild` have a chain of three
libraries, enough for a library that only another one reaches. A native test has one
case or several. A setup begins on a root with any of its parts present, also with
all of them, and any room up to 11 units. The incoming revisions of an upgrade add a
model to the tree and remove it again, so that the net difference is not the union of
the revisions. Two packers pack one layer, of one model or of two, and a source is
replaced between any two of the component reads. The runner of a campaign is replaced
up to twice, and the second time may bring the pinned bytes back.

Deadlock is checked where every state should have a successor (reader_arena,
reader_starvation, arrival, server, expert_cache). Elsewhere machines really end: a
closed reader, the last request, a command that exits.

Fairness. A started thread keeps running: weak fairness on each worker's step,
on the owner's steps inside a call it has made, and on dropping a ticket once
that began. Nothing says that a caller ever makes a call: `WaitReturns` is about
a wait that has begun, `AbandonedSlotReturns` about a dropped ticket,
`ShutdownJoins` about a drop of the reader. A read ends, with success or an
error (the kernel's promise). For the server, weak fairness on each request's
own thread; a request body arrives or fails eventually, which the code relies on
without a timeout. The other modules state no fairness: what must come about
is stated as a bound (`QwenComesBack` counts verified steps) or as what a
machine that has ended did.

## 4. Proofs

The theorems hold for every value of the constants that the named assumptions
allow (`ReaderAssumption`, `CacheAssumption` and so on: sets of workers, slots or
clients that are finite and not empty, bounds that are natural numbers), so for
every number of workers, layers, experts, clients, requests, faults and kills.
Each rests on an inductive invariant; an invariant that a run checks is seldom
inductive as it stands, and below is what had to be added and why.

**Storage reader** (`StorageReaderProofs`).

* `TypeCorrect`: `TypeOK`. A worker's `left` is decremented, so `WorkerInv` says that a
  worker which runs or claims has quantum left, and that a holding worker holds a
  batch.
* `NoSlotIsRecycledUnderAWrite`: `NoRecycledWrite`. `SlotInv` says that a batch which
  is still referenced leases a slot marked in use (`LeaseInv`), that two such
  batches lease different slots (`DistinctInv`), and that a batch still acquiring
  its slot has no clone in the pool (`FreshInv`, without which reusing a batch name
  could inherit one).
* `CompletionCounts` (`CompletionIsExact`), `ReadinessIsHonest` (`ReadySourceHonest`),
  `NoSlotIsLost` (`SlotsAreKept`). `Sound(b)` is what is known of one batch: a name not
  in use is `Blank`; the countdown equals the jobs that no worker and no canceller
  has counted yet (`Exact`, `Cancelling`); what is claimed is at one worker (`Placed`);
  a job that landed without error has its bytes (`Landing`, `Served`); a sleeping
  owner has someone who will wake it (`Awaited`); what was published is complete and
  quiet (`Published`). `Accounted` gives every slot in use a lease, `Reserved` leaves
  demand one of several.
* `ArrivalUsesTheReader`: `ArrivalSpec => Spec`. Every step of `finish_arrival` is a
  step of the reader or leaves it alone, so all of the above holds of arrival-driven
  tiles too. `EveryExpertArrivesOnce` (`ExpertsArriveOnce`) needs in addition what the
  decode thread concluded from the flags it read apart (`Evidence`).

**Expert cache** (`ExpertCacheProofs`).

* `SlotsOwnedOnce` (`SlotsAreOwnedOnce`): each Summer slot is free, published or
  reserved, once. Part of `PInv`, inductive by itself.
* `ServedRight` (`ServedBytesAreRight`): the kernel reads the bytes of exactly the
  routed experts, while nothing strayed. Needed: every ticket is of a live read of
  the right expert and held in one place (`TicketsInv`), at each place of the engine
  which maps may be non-empty (`Control`), the route of a tile is covered by what
  was leased, due, read ahead or missed (`Coverage`), and, while nothing strayed,
  `SInv`: a read into a slot has that slot reserved and for itself, a reservation
  has its read, what is published or leased holds the right bytes.
* `ServedRightByDefault`, `FreeIsUnreferenced`, `PublishedIsValid`: the same without the
  proviso when `K3_SUMMER_READ_INTO_SLOT` is off (`PlainReads`), and the two comments of
  the source that the theorem rests on.

**Target reuse** (`TargetReuseProofs`): `OwnContextOnly` (`ContextIsOwn`) and
`HonestSettlements` (`SettlementsAreHonest`, an action property). The invariant goes by
phase: the retained boundary describes the provider (`BoundaryInv`, `CommittedInv`),
the tape of a running request is its prompt and answer less the last token
(`ComputeInv`), a branch belongs to the request that holds it or to the one pending
publication (`BranchInv`, `PendingInv`), and `SettleInv` says what is known when a
response settles.

**Speculative decoding** (`SpeculativeDecodeProofs`): `Exactness`, that is
`SpeculationIsExact`, which contains the refinement `Greedy!Spec`: every initial state
maps to one of GreedyDecode and every step to one of its steps or a stutter. A
step may emit several tokens; GreedyDecode emits them at once if each is its
choice, so `RowInv` says that row i predicts what follows the history and the
first i - 1 drafts, `TapeInv` what was committed before it is emitted, `RunInv` that
a request which goes on has not met a stop.

**Server** (`GenerationServerProofs`): `Fairness` (`GateIsFair`) and `Certification`
(`AnswersAreCertified`). `PermitInv` says that the permit is taken exactly when one
worker holds it, `QueueInv` that the queue lists the waiting workers once each,
`ReplyInv` that there is no answer before the target was left. The eviction of the
memo is a least number of oldest entries; that it exists and suffices is
`LeastNatural` of `SequenceLemmas`.

**Target pass** (`RuntimeProofs`): `FailuresAreContained` (`FailedPassesAreContained`).
`PassInv`: what the provider reads is the use in flight, or leaked with a session
that is never destroyed (`Borrowed`); the spine reads ahead are into slots of their
own, none of them in use, in hand or leaked (`Apart`); wrapper and provider agree
until a call fails (`Agree`).

**Retained memory** (`RuntimeProofs`): `RetainedMemoryIsHeld`
(`NoWrapperOutlivesItsMemory`) under `TileWidth <= TopK`, which is the code without
`K3_RETAIN_DRAFTED` and without which it is false (finding 9). `RetainInv`: an
allocation has one owner (`Owned`); spans lie in their allocations (`Sized`); a tile
routes an expert once, into slots of its own, and no more experts than a tile holds
(`Tile`); what the provider names is held by someone and what is buried has all its
spans on the list of those to drop (`Wrapped`). The step that needs the hypothesis:
every allocation that is detached from its slot gets an entry, because there are
fewer than TOP_K places before any place (`EveryPlaceCounts`, by an injection into
the routed experts).

**Provider handles** (`RuntimeProofs`): `HandlesAreNotForgotten` (`NothingIsForgotten`). In
`HandlesInv`, for each kind of handle, what is alive in the provider is what the
wrapper owns and what was left behind by a call that took effect unseen
(`Accounted`); a cache has at most one ticket, and a ticket of an attention cache a
tensor of its own, without which finishing one could not be told from a tensor lost.

**Qwen drafter** (`RuntimeProofs`): `DraftingResumes` (`QwenComesBack`). That a bounded
number of verified steps brings drafting back is not inductive: what is, `OffFor`, is
an account of the time drafting has been off, at most one rearm period for each
refusal met plus what has been used up of the current one, with the refusals below
the bound of the probe.

**DSpark drafter** (`RuntimeProofs`): `DraftsAreSound` (`DraftsSeeTheTarget`). The property
speaks of a request at its proposal and of a pair of boundaries that both exist;
`DraftInv` says why they agree. A request is aligned only where the provider's rows,
the ledger and the target's committed rows are one sequence and the mirror does not
lag (`StandsAt`), and every path that moves one of the three without the others
gives the alignment up; an open proposal was made from there, with the token the
target has pending (`Drafting`); a prompt boundary kept for a rewind holds the rows
of the tokens it is labelled with; and a boundary carries an identifier already
given out, so that a new one cannot be taken for the other half of an old pair
(`Published`).

**Spine conversion** (`ToolingProofs`): `SpineReceipts`
(`SpineReceiptsAreTruthful`). `ConvInv`: whatever is on disk after a kill can be resumed
from, because scales are published first, whole, and with data of their version at
hand (`Published`), a receipt is only ever beside the pair it names (`Vouched`), and
each phase has verified what it goes on from (`Phase`). A lemma on the way,
`RefuseUnpairedKeeps`, shows that the code's refusal of a file without its partner
never happens unless someone else interferes with the directory.

**Expert heat** (`ToolingProofs`): `HeatIsCounted` (`HeatCountsOnce`), for any finite set of
processes. The property balances the file against a sum over processes: what they
observed is what the file holds, what is still to be merged and what was lost, to
damage, to a crash before a sync, to an exit without a flush, or to a flush that could
not read the file it then replaced (finding 3). `HeatInv`
says that who loads, renames or syncs holds the lock, alone (`HeatLocked`), so that the
file a process renames is the present one with its own harvest (`Harvested`); and one
process's step changes the sum by what it changes in that process (`OneHolder`).
That, and that the community module's sum exists at all, are induction over the
subsets of a finite set, done without an induction theorem: among the sets for which
a claim fails there would be a smallest (`SmallestSubset`, from `LeastNatural`), and it
has none.

**Upgrade** (`ToolingProofs`): `SuccessIsHead` (`UpgradedBinaryIsHead`) and `WorkIsPreserved`
(`OwnersWorkIsPreserved`, an action property). `UpgradeInv`: obstacles looked for in
earlier phases are not there (`Cleared`, which is why KnownObstacles lists them all),
the net difference of the revisions to be merged was looked at (`Looked`; it is between
two trees, as the code's `git diff` is, so data added and removed again passes), and
while the owner keeps out of it each phase still has what it verified (`Verified`).

**One-shot setup** (`ToolingProofs`): `SetupFits` (`SetupFitsOrStops`), for all sizes of the
parts and any parts present at the start. `Room` says at each phase how much room is
left for the rest of the work, what was fetched and not yet unpacked counted once. The
plan does not count the int8 spine that the command converts at the end: it fits in the
headroom once a check has asked for room (`cleared`). A check of a root whose
downloads are all there asks for none, so from there the conversion may run out of
space (finding 12), and the theorem claims no more. `SetupAssumption` says that the
spine is no larger than the headroom, 53 GB (docs/STORAGE.md:35) against 100 GB
(one_shot_setup.rs:25); without it the theorem is false.

**Pinned installers** (`ToolingProofs`): `PublishedAuthentic` (`PublishedIsAuthentic`) and
`LaunchesRepeat` (`FailedLaunchIsRepeatable`, which contains an action property), for the
three installers and any number of launches, files, bad responses and kills.
`InstallInv`: whoever is past the lock holds it, alone, so only its steps matter
(`InstallerStep`); a final name is only ever given to verified bytes and the final
directory name to a whole directory (`Sound`); each phase knows which files are done and
that the partial at hand extends what the launch found (`Knows`). That a launch which
met only good responses does not fail needs two things more: unless a process was
killed, every partial belongs to the launch under way (`Residue`), so nothing exists
where the code insists on creating; and a wrong chunk that no rollback takes away stays
(`Tainted`), so a failure by digest can still be blamed on it later. With a kill
the first is false, which is finding `InterruptedInstallIsReusable` of section 6.

What the attempts changed in the models: guards of a CASE that overlapped were made
exclusive, since SANY's and the prover's readings of such a CASE need not agree, and
UNION before `\cup` got parentheses for the same reason; the cache got the bound of
896 expert numbers that the code has; `strayed` records an abort that takes another
ticket's reservation, which no instance of two layers could show (finding 11);
TargetPass takes any free slot instead of the first; `BorrowedBytesStayPut` covers
reads ahead and the read in hand; RetainStore returns before entering a tile over
the cap, as the code does, and counts without folds.

Only model-checked: liveness (`TicketsEnd`, `WaitReturns`, `ShutdownJoins`, `TileEnds`,
`EveryoneLeaves`), which the prover does not handle under fairness; the properties of
`runtime` and `tooling` other than the twelve above; and what the folds over sequences
compute, such as the byte counts of a compiled plan, for which the induction that
ExpertHeat's sum needed was not done. No module of the project declares a recursive
operator.

## 5. Not modelled

Whole components: wire schema and chat template, tokenizer and embeddings, command
line and audits, bindings, research notes: pure conversion or sequential I/O
without shared state (`PROJECT.json` gives the reason for each). Tensor arithmetic
and command encoding in `provider_gate` are numerical.

Within modelled components:

* StorageReader: relaxed memory orders are modelled as sequentially consistent;
  the only relaxed load that decides anything is `next_job` in `run_quantum`'s
  end test, where a stale value leads to one more claim attempt. Bypass and
  alignment of single reads and growth of slot capacities are left out.
* PlanReads leaves out cancellation (StorageReader has it) and the preparation of
  descriptor capacity. `verified_extents` is set once per plan, so later reads of
  one extent skip the digest: only packs read with persistent files use it. The
  identity and digest of a Scale4 corpus cover the sidecar; raw planes are read
  with exact length only. `open_deferred_authenticated` has no caller but tests.
* CatalogReads leaves out `K3_SPLIT_CAP`, `K3_TIER_BALANCE`, `K3_PLAN_BALANCE` and
  failures of `open_tiered` on directories.
* ExpertCache leaves out replay of an oracle file, the lease parked by
  `tail_async`, the deferred true-route hint, arrival order (ArrivalTile), the
  CUDA plan path (TargetPass), guard fingerprints and prefill admission. With
  `K3_SUMMER_READ_INTO_SLOT=1` its guarantees about bytes hold while no reservation
  outlived its ticket nor a ticket its reservation (`strayed`); findings 8 and 11
  say when one does. Without the switch `strayed` stays FALSE, which is proved.
* MemoryBudget: the spread mask keeps the count of resident layers, not their
  bytes (engine.rs:10838), so the reserve is stated for the leading selection. An
  admitted request may exceed what is available by its credit, a watermark; the
  comment at residency.rs:164-175 calls the credit sound only for context growth,
  and `admit_verify_width` (engine.rs:2896) uses it too.
* SpineStreaming leaves out the recommended working set of the device, which caps
  the automatic budget.
* EngineBootstrap evaluates DSpark eligibility twice, as the code does
  (engine.rs:1706 and 1966), against an installation that does not change.
* PackFile: the code opens each source again for each component, first all q8 data,
  then all q8 scales, then the raw tensors (packfile.rs:766-789). A source replaced
  meanwhile gives a pack of two versions, also the data of one with the scales of the
  next, that verifies. `PacksHoldTheirSource` says so: each component is of one version,
  not older than the start and, in the order of reading, never older than the one before.
* BenchmarkCampaign: a copy replaced and restored between two verifications
  (benchmark.rs:3095, 3143) is not seen, which `SuccessIsReal` allows for; a
  descendant that keeps the runner's pipes open blocks `join_capture`
  (benchmark.rs:1903).
* NativeBuild leaves out a missing `readelf` and failures to create a log file.
* CacheWarm: `assert_path_identity` (legacy_npz.rs:1055) compares inode and length
  only, so `SameSource` does too.
* Everywhere on disk: a kill loses nothing already written; power loss of unsynced
  data is out of scope. Two downloads of weights by two processes share
  deterministic partial names without a lock between processes; WeightFetch has
  one process, which is how the commands are documented to be used.

## 6. Findings

With a run that shows them:

1. `target_context_claim`. A prompt longer than the context (or an empty raw
   completion) is refused after the lifecycle began (decode.rs:85), which poisons
   the engine: the listener stays up and refuses everything.
2. `install_resume_claim`. A launch killed at the wrong moment is never resumed:
   DSpark between link and unlink or while writing its manifest, Qwen and K3 while
   writing a `.part` of metadata, inventory or manifest that `secure_create_new`
   then refuses. A full-length corrupt part is never discarded either.

Met while modelling; the property is in the module, and most need a switch that is
off by default:

3. `ExpertHeat!FlushesOnlyAdd` fails (TLC finds it as a PROPERTY of MCTooling.cfg): a
   flush that cannot open, stat or read the heat file, intact on disk, takes its history
   for empty and renames the rebuilt file over it (expert_heat.rs:229-233), so all
   earlier counts are lost, though the comment at 193-195 has any I/O failure restore
   the deltas for a later flush. `HeatCountsOnce` counts them as lost.
4. `CatalogReads!MirrorDepthIsInFlight` fails: with `K3_MIRROR_SCHED=2` a failed read, a
   refused descriptor or a file missing from every tier (storage.rs:6027, retired only
   at 4147) leaves the in-flight counter of its device raised for ever, contrary to
   storage.rs:5344-5345; with `K3_PLAN_BALANCE=1` declined, cancelled or failed plans
   are never retired either (2943). `CatalogReads!ChargesAreReads` is therefore exact
   for the route `eta` and only a lower bound for `mirror`.
5. `ArrivalTile!DispatchedExpertsLanded` fails: `finish_arrival` tests `check_error`
   and then `is_ready` (engine.rs:6524-6525). A read that fails between the two is
   taken for a complete union and its experts are dispatched with bytes that never
   arrived. Other exits are safe (`EarlyExpertsLanded`).
6. `TargetReuse!FailedCleanupPoisons` fails: `settle_target_publication` poisons the
   engine when neither discarding the branch nor resetting could be proved, and
   `finish_target_stream` then sets it `Ready` (engine.rs:4683). The next request
   resets the provider or fails, so `NoForeignContext` still holds.
7. `StorageReader!WokenWaiterSeesLeaseReleased` fails: with other clones queued or
   held, a woken waiter can see the slot still in use, contrary to the comment at
   storage.rs:5006. Nothing relies on it, since acquiring waits.
8. `ExpertCache!PublishedSlotsAreValid` fails with `K3_SUMMER_READ_INTO_SLOT=1`: a
   reservation left in `pending` by a failed or cancelled ticket (engine.rs:6418,
   9003) is published by a later plain ticket for the same expert, although its
   slot never received the bytes (comments at 7715-7728). Until a reservation
   strays it is a theorem (`PublishedIsValid`).
9. `RetainStore!NoWrapperOutlivesItsMemory` fails with `K3_EXPERT_RETAIN=1` and
   `K3_RETAIN_DRAFTED=1`, whose tiles are wider than TOP_K (seen by giving
   MCRuntime.cfg TileWidth = 3 in place of 2): allocations are detached (engine.rs:8498)
   before the ceiling of 8509 is applied, contrary to the comments at 8240-8245 and
   8503-8508. For tiles no wider than TOP_K it is a theorem (`RetainedMemoryIsHeld`).
10. `QwenDraft!DisabledOverrideStaysOff` fails: `begin_request` (engine.rs:639) sets
   `raw_override_allowed` again although 603-605 switch the override off for good.
11. `ExpertCache!FreeSlotsAreUnreferenced` fails with `K3_SUMMER_READ_INTO_SLOT=1`:
   `summer_abort_pending` removes the reservation of every loser by its key
   (engine.rs:8950), also when the loser's own ticket was a plain read and the tile
   has just reserved a slot for the same expert (8789-8812). The slot goes back to
   the free list while the tile's read fills it and its kernel reads it, contrary
   to the comment at 7715-7716, and the next layer's hint may read into it. TLC
   finds it in 25 steps as an INVARIANT of MCExpertCache.cfg; it was met in the
   proof of `ServedRight`. Until a reservation strays, and always without the
   switch, it is a theorem (`FreeIsUnreferenced`).
12. `OneShotSetup`: a setup of a root whose downloads are complete asks for no room
   (`required` is 0, one_shot_setup.rs:471), although the int8 spine may still be to be
   converted. On a full volume the command passes its check and ends `unconverted`;
   a later launch can finish it.

`docs/SERVER.md` (line 35) and `docs/OPTIMIZATIONS.md` (lines 197-198) differ on
what an aborted response retains; the model follows the code, which goes back to
the prompt parent. `docs/NATIVE-RUNTIME.md:45` says
that a legacy archive is removed only after its raw file was verified; the removal
itself compares the archive's inode and length only (section 5).

## 7. Plan

Modelled: every component listed as such in section 2. Proved: section 4. What is
left is proof of the machines that only TLC has checked, in this order:
`HttpsTransfer` for every number of blocks and redirects, `MemoryBudget` (the reserve, for every machine). After that, an abstract ticket (submitted, ready or
failed, released) that StorageReader implements and ExpertCache uses, as
ArrivalTile already uses the reader itself.
