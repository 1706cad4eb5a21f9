---------------------------- MODULE MemoryBudget ----------------------------
(***************************************************************************)
(* Who may allocate how much: the resident-layer selection of residency.rs *)
(* and the budgets of engine.rs built on it.                               *)
(*                                                                         *)
(* At start the engine probes the host and the device, charges every cost  *)
(* it will meet later (fixed costs, the CUDA expert cache, the Qwen        *)
(* drafters), and keeps as many leading layers resident as are left.       *)
(* Later a growing context, a wide verification or a wide union of experts *)
(* asks for more against a fresh probe, while other processes take and     *)
(* release memory.  Bytes are small naturals; -1 is an absent Option.      *)
(***************************************************************************)
EXTENDS Integers, Sequences, FiniteSets, FiniteSetsExt, SequencesExt

CONSTANTS
  Physical,        \* bytes of memory of the host
  DeviceTotal,     \* bytes of a discrete device
  HostFloor, HostPermille, DeviceFloor, DevicePermille, DiscretePermille,  \* ResidencyPolicy
  CacheReserve,    \* MACOS_FILE_CACHE_RESERVE_BYTES
  ExpertSpan,      \* bytes of one expert
  CudaExpertMax,   \* CUDA_EXPERT_CACHE_MAX_EXPERTS
  FixedBase,       \* [host, provider]: what every configuration pays
  QwenBytes,       \* [probe, wide]: reserve of each drafter
  InitialTokens, AdmittedTokens, StartupTokens,   \* the context growth budget
  LayerTokenBytes, MlaLayers,
  KdaBytes,        \* bytes_per_kda_generation
  Experts, TopK, BaseUnion, UnionMax, TileRows, FullCommitMax,
  MaxRows,         \* bound: rows of a mailbox
  Retries,         \* pressure_retries
  ForeignSteps,    \* set: what the rest of the host may hold
  Launches         \* set of [os, limit, readable, kind, deviceUsed, deviceKnown, costs,
                   \* layers, spread, trace, loadReserve, growReserve, deviceReserve,
                   \* verifyAlways, qwen, qwenAuto, nocache, cacheBytes, union]: hosts,
                   \* devices and settings

VARIABLES
  box,     \* the machine and the settings of this launch
  mem,     \* foreign: held by others; ours; filecache; cached: by the device allocator
  bplan,   \* what the start decided; slab: experts the widest buffer of the reader holds
  ctx,     \* committed tokens, MLA capacity, and the provider's own capacity and peak
  wait,    \* a growth waiting for pressure to pass
  tiles,   \* the mailbox being tiled: routes, next row, union of the last tile
  grant    \* the last admission: what was asked, and of how much (history)

mvars == <<box, mem, bplan, ctx, wait, tiles, grant>>

None == -1
Floor0(n) == IF n < 0 THEN 0 ELSE n
Smaller(a, b) == IF a < b THEN a ELSE b
Larger(a, b) == IF a > b THEN a ELSE b
Total(costs, n) == FoldSeq(+, 0, SubSeq(costs, 1, n))

----------------------------------------------------------------------------
(* Probes.                                                                 *)

Held == mem.foreign + mem.ours + mem.cached

\* probe_macos_memory: free pages, and the file cache beyond its reserve.
MacAvailable == Floor0(Physical - Held - mem.filecache) + Floor0(mem.filecache - CacheReserve)

\* probe_linux_memory: MemAvailable, and what the cgroup leaves; whether every
\* cgroup file could be read is a fact of the launch.
LinuxProbe ==
  [physical |-> Physical, available |-> Floor0(Physical - Held), limit |-> box.limit,
   left |-> IF box.limit = None THEN None ELSE Floor0(box.limit - mem.ours - mem.cached),
   readable |-> box.readable]

\* probe_host_memory
HostProbe ==
  IF box.os = "linux" THEN LinuxProbe
  ELSE [physical |-> Physical, available |-> Smaller(Physical, MacAvailable), limit |-> None,
        left |-> None, readable |-> TRUE]

\* account_trimmed_unified_memory: what a trim was seen to release is available.
Probe(reclaimed) == [HostProbe EXCEPT !.available = Smaller(Physical, @ + reclaimed)]

\* effective_total_bytes, effective_available_bytes
EffectiveTotal(h) ==
  IF ~h.readable THEN None
  ELSE IF h.limit = None THEN h.physical ELSE Smaller(h.physical, h.limit)

EffectiveAvailable(h) ==
  IF ~h.readable THEN None
  ELSE Smaller(EffectiveTotal(h), IF h.left = None THEN h.available ELSE Smaller(h.available, h.left))

\* provider_memory over memory_snapshot
DeviceFree == DeviceTotal - box.deviceUsed

----------------------------------------------------------------------------
(* Selection.                                                              *)

Reserve(total, floor, permille) == Smaller(total, Larger(floor, (total * permille) \div 1000))

\* host_reserve_policy_from_env: an override is a floor without a permille.
HostReserve(total, override) ==
  IF override = None THEN Reserve(total, HostFloor, HostPermille)
  ELSE Reserve(total, Smaller(Larger(override, 1), Larger(HostFloor, 1)), 0)

\* Mutant: the credit is added after the reserve is taken.
Bug_HostEnvelope(h, override, credited) ==
  LET total == EffectiveTotal(h)
      kept == HostReserve(total, override)
  IN  IF total = None THEN None
      ELSE Smaller(Floor0(total - kept), Floor0(EffectiveAvailable(h) - kept) + credited)

\* safe_host_envelope_with_committed
HostEnvelope(h, override, credited) ==
  LET total == EffectiveTotal(h)
      kept == HostReserve(total, override)
  IN  IF total = None THEN None
      ELSE Smaller(Floor0(total - kept), Floor0(EffectiveAvailable(h) + credited - kept))

\* safe_provider_envelope beside a reserve: the stock one, or that of
\* K3_DEVICE_RESERVE_GB where a setting of the host reserve is honoured.
EnvelopeBeside(kept) ==
  LET raw == Smaller(DeviceTotal - kept, Floor0(DeviceFree - kept))
  IN  IF box.kind # "discrete" \/ ~box.deviceKnown THEN None
      ELSE (raw * DiscretePermille) \div 1000
StockDeviceReserve == Reserve(DeviceTotal, DeviceFloor, DevicePermille)
ProviderEnvelope ==
  EnvelopeBeside(IF box.deviceReserve = None THEN StockDeviceReserve
                 ELSE Smaller(DeviceTotal, Larger(box.deviceReserve, 1)))

Empty(stop) == [layers |-> 0, bytes |-> 0, stop |-> stop]

\* fit_prefix: how many leading layers fit, and why the next does not.
FitPrefix(costs, fixed, hostLimit, deviceLimit, atMost) ==
  LET hostCost(n) == fixed.host + (IF box.kind = "discrete" THEN 0
                                   ELSE fixed.provider + Total(costs, n))
      fits(n) == /\ \A i \in 1..n : costs[i] # 0
                 /\ hostCost(n) <= hostLimit
                 /\ deviceLimit = None \/ fixed.provider + Total(costs, n) <= deviceLimit
      n == Max({k \in 0..Smaller(atMost, Len(costs)) : \A j \in 0..k : j = 0 \/ fits(j)})
  IN  [layers |-> n, bytes |-> Total(costs, n),
       stop |-> CASE n = Len(costs) -> "AllLayersFit"
                  [] n < Len(costs) /\ n = atMost -> "ExplicitLayerLimit"
                  [] n < Len(costs) /\ n # atMost /\ costs[n + 1] = 0 -> "LayerCostUnknown"
                  [] OTHER -> "NextLayerWouldExceedBudget"]

\* select_resident_prefix_with_envelope_credit
Select(h, costs, fixed, atMost, override, credited) ==
  LET hostLimit == HostEnvelope(h, override, credited)
      hostBase == fixed.host + (IF box.kind = "discrete" THEN 0 ELSE fixed.provider)
  IN  CASE hostLimit = None -> Empty("HostBudgetUnknown")
        [] hostLimit # None /\ box.kind = "discrete" /\ ProviderEnvelope = None ->
             Empty("DeviceBudgetUnknown")
        [] hostLimit # None /\ ~(box.kind = "discrete" /\ ProviderEnvelope = None)
           /\ (hostBase > hostLimit \/ (ProviderEnvelope # None /\ fixed.provider > ProviderEnvelope)) ->
             Empty("FixedCostsExceedBudget")
        [] OTHER -> FitPrefix(costs, fixed, hostLimit, ProviderEnvelope, atMost)

\* select_resident_prefix_crediting_request: the request is added to what is
\* available before it is charged.
SelectCrediting(h, need, override) ==
  Select(h, <<>>, [host |-> 0, provider |-> need], 0, override, need)

\* Mutant: the layer being streamed is not charged.
Bug_WithTransient(h, costs, fixed, atMost, override) ==
  LET s == Select(h, costs, fixed, atMost, override, 0)
  IN  [sel |-> s, transient |-> 0]

\* select_residency_with_transient: every prefix is tried with the largest
\* layer behind it charged as transient; the last consistent one wins.
WithTransient(h, costs, fixed, atMost, override) ==
  LET behind(c) == IF c = Len(costs) THEN 0 ELSE Max({costs[i] : i \in (c + 1)..Len(costs)})
      try(c) == Select(h, costs, [fixed EXCEPT !.provider = @ + behind(c)], atMost, override, 0)
      ok == {c \in 0..Len(costs) : try(c).layers >= c}
  IN  IF costs = <<>> THEN [sel |-> Select(h, costs, fixed, atMost, override, 0), transient |-> 0]
      ELSE [sel |-> try(Max(ok)), transient |-> behind(Max(ok))]

\* spine_residency_mask: a prefix, or the same number spread over the pass.
ResidencyMask(resident, total) ==
  LET streamed == total - resident
      place(i) == ((2 * i + 1) * total) \div (2 * streamed)
      placed == {place(i) + 1 : i \in 0..(streamed - 1)}
  IN  IF streamed > 0 /\ box.spread /\ resident > 0 /\ Cardinality(placed) = streamed
      THEN (1..total) \ placed
      ELSE 1..resident

----------------------------------------------------------------------------
(* The start of the engine.                                                *)

\* VerifySnapshotBudget.admission: a generation per position, and what that is
\* over the two generations an ordinary decode step already reserved.
SnapshotPeak(positions) == KdaBytes + KdaBytes * positions
SnapshotExtra(positions) == Floor0(SnapshotPeak(positions) - 2 * KdaBytes)

\* Mutant: the growth is rounded down.
Bug_GrownTokens(cap) ==
  Smaller(AdmittedTokens, IF cap = 0 THEN InitialTokens ELSE (3 * cap) \div 2)

\* One step of the provider's geometric growth, as the engine simulates it.
GrownTokens(cap) ==
  Smaller(AdmittedTokens, IF cap = 0 THEN InitialTokens ELSE (3 * cap + 1) \div 2)

\* ContextGrowthBudget.admission: the capacities passed through, the last of
\* them staged whole, those between only per layer.
Admission(cap, needed) ==
  LET steps[i \in Nat] == IF i = 0 THEN cap ELSE GrownTokens(steps[i - 1])
      last == Min({i \in 0..AdmittedTokens : steps[i] >= needed})
      between == FoldSet(LAMBDA i, sum : sum + steps[i], 0, 1..(last - 1))
  IN  [next |-> steps[last],
       staged |-> MlaLayers * LayerTokenBytes * steps[last],
       scratch |-> LayerTokenBytes * between]

\* startup_growth_reserve
StartupReserve ==
  LET goal == Larger(InitialTokens, Smaller(StartupTokens, AdmittedTokens))
      a == Admission(InitialTokens, goal)
  IN  IF goal <= InitialTokens THEN 0 ELSE a.staged + a.scratch

\* fixed_costs and the additions of bootstrap.
Fixed ==
  [host |-> FixedBase.host + (IF box.trace THEN 1 ELSE 0),
   provider |-> FixedBase.provider + SnapshotPeak(1) + KdaBytes
                + MlaLayers * LayerTokenBytes * InitialTokens + StartupReserve]

\* plan_cuda_expert_cache_budget: the cache takes what the fixed costs and the
\* largest layer leave of the envelope, in whole experts.
CudaCharge(fixed, costs) ==
  LET usable == Floor0(EnvelopeBeside(StockDeviceReserve) - fixed.provider - Max({costs[i] : i \in DOMAIN costs}))
  IN  IF box.kind # "discrete" \/ ~box.deviceKnown THEN 0
      ELSE ExpertSpan * Smaller(usable \div ExpertSpan, CudaExpertMax)

\* discover_qwen_plan and qwen_candidate_plan: the variants to reserve for.
QwenCandidate ==
  LET found == {v \in {"probe", "wide"} : v \in box.qwen}
  IN  IF box.qwenAuto /\ box.kind # "unified" THEN {} ELSE found

\* qwen_provider_reserve and qwen_fixed_costs
QwenFixed(fixed, variants) ==
  [fixed EXCEPT !.provider = @ + (IF "probe" \in variants THEN QwenBytes.probe ELSE 0)
                               + (IF "wide" \in variants THEN QwenBytes.wide ELSE 0)]

\* qwen_residency_admitted
Proven(sel) ==
  sel.stop \notin {"InvalidPolicy", "HostBudgetUnknown", "DeviceBudgetUnknown",
                   "FixedCostsExceedBudget", "ArithmeticOverflow"}

\* The candidates in the order bootstrap tries them: all that is installed,
\* the probe alone, none.
QwenChoice(h, fixed, costs) ==
  LET with(v) == WithTransient(h, costs, QwenFixed(fixed, v), box.layers, box.loadReserve)
      all == QwenCandidate
  IN  CASE all # {} /\ Proven(with(all).sel) -> all
        [] all = {"probe", "wide"} /\ ~Proven(with(all).sel) /\ Proven(with({"probe"}).sel) -> {"probe"}
        [] OTHER -> {}

\* configured_spine_cache_plan for the int8 spine: on a Mac all layers through the
\* page cache when they fit beside the reserve, else the automatic budget of them
\* or the configured one; told not to cache, the configured one or none.
SpineStreaming(costs) ==
  LET source == Total(costs, Len(costs))
      automatic == IF box.nocache = "on" THEN 0 ELSE (Physical * 20) \div 100
      budget == IF box.cacheBytes # None THEN box.cacheBytes ELSE automatic
      fill[i \in 0..Len(costs)] ==
        IF i = 0 THEN [used |-> 0, kept |-> {}]
        ELSE IF fill[i - 1].used + costs[i] <= budget /\ costs[i] > 0
             THEN [used |-> fill[i - 1].used + costs[i], kept |-> fill[i - 1].kept \cup {i}]
             ELSE fill[i - 1]
  IN  CASE box.nocache = "off" -> {}
        [] box.nocache = "auto" /\ box.kind # "unified" -> DOMAIN costs
        [] box.nocache = "auto" /\ box.kind = "unified"
           /\ source <= Physical - Larger(HostFloor, Physical \div 4) -> {}
        [] OTHER -> DOMAIN costs \ fill[Len(costs)].kept

NoPlan == [made |-> FALSE, slab |-> None]
NoWait == [needed |-> 0, attempts |-> 0]
NoGrant == [kind |-> "none"]
NoTiles == [routes |-> <<>>, row |-> 0, union |-> {}, limit |-> 0]

MInit ==
  /\ box \in Launches
  /\ \E f \in ForeignSteps : mem = [foreign |-> f, ours |-> 0, filecache |-> 3, cached |-> 0]
  /\ bplan = NoPlan /\ wait = NoWait /\ grant = NoGrant
  /\ ctx = [tokens |-> 0, cap |-> 0, real |-> 0, peak |-> 0, admitted |-> 0]
  /\ tiles = NoTiles

\* Where the engine starts: the CUDA cache is charged first, then Qwen, then the
\* layers, all against the one probe h.
Charged(h) ==
  LET base == [Fixed EXCEPT !.provider = @ + CudaCharge(Fixed, box.costs)]
  IN  \* the set of the one plan, so that its parts are computed once
      UNION {{[cuda |-> base.provider - Fixed.provider, qwen |-> q, fixed |-> QwenFixed(base, q), fit |-> w] :
                w \in {WithTransient(h, box.costs, QwenFixed(base, q), box.layers, box.loadReserve)}} :
             q \in {QwenChoice(h, base, box.costs)}}

\* A reservation of host memory beside the reserve: select_resident_prefix with
\* no layers and no device.
HostAdmits(bytes, override) ==
  LET limit == HostEnvelope(Probe(0), override, 0)
  IN  limit # None /\ bytes <= limit

\* reserve_complete_expert_union_at_startup: compact slabs are reserved for the
\* widest verification when they are admitted and can be allocated.
ReserveUnion ==
  /\ bplan.slab = None
  /\ \E allocated \in BOOLEAN :
       LET got == /\ allocated /\ box.union = "scale4" /\ box.kind # "discrete"
                  /\ HostAdmits(ExpertSpan * FullCommitMax, box.growReserve)
       IN  /\ bplan' = [bplan EXCEPT !.slab = IF got THEN FullCommitMax ELSE 0]
           /\ mem' = IF got THEN [mem EXCEPT !.ours = ExpertSpan * FullCommitMax] ELSE mem
  /\ UNCHANGED <<box, ctx, wait, tiles, grant>>

\* bootstrap: one probe, the plan, and the load of what it selects.
Plan ==
  /\ ~bplan.made /\ bplan.slab # None
  /\ \E p \in Charged(Probe(0)) :
       LET costs == box.costs
           mask == ResidencyMask(p.fit.sel.layers, Len(costs))
           streamed == DOMAIN costs \ mask
           need == FoldSet(LAMBDA i, sum : sum + costs[i], 0, mask)
                   + (IF streamed = {} THEN 0 ELSE Max({costs[i] : i \in streamed}))
       IN  /\ bplan' = [made |-> TRUE, slab |-> bplan.slab, reserved |-> bplan.slab,
                        stop |-> p.fit.sel.stop, layers |-> p.fit.sel.layers, mask |-> mask,
                        qwen |-> p.qwen, cuda |-> p.cuda, streaming |-> SpineStreaming(costs)]
           /\ grant' = [kind |-> "load", stop |-> p.fit.sel.stop,
                        host |-> p.fixed.host
                                 + (IF box.kind = "discrete" THEN 0 ELSE p.fixed.provider + need),
                        device |-> p.fixed.provider + need,
                        free |-> EffectiveAvailable(Probe(0)), total |-> EffectiveTotal(Probe(0))]
           /\ mem' = IF Proven(p.fit.sel)
                     THEN [mem EXCEPT !.ours = Smaller(Physical, @ + grant'.host), !.cached = 1]
                     ELSE [mem EXCEPT !.cached = 1]
  /\ UNCHANGED <<box, ctx, wait, tiles>>

----------------------------------------------------------------------------
(* The running engine.                                                     *)

Watermark(kind, need, h, admitted) ==
  [kind |-> kind, need |-> need, admitted |-> admitted,
   free |-> EffectiveAvailable(h), total |-> EffectiveTotal(h),
   reserve |-> HostReserve(EffectiveTotal(h), box.growReserve)]

Admitted(h, need) == SelectCrediting(h, need, box.growReserve).stop = "AllLayersFit"

\* grown_capacity of the provider, one appended row at a time (external).
RealGrowth(cap, from, needed) ==
  LET grow(c, n) == IF n <= c THEN c
                    ELSE IF c = 0 THEN Smaller(AdmittedTokens, Larger(InitialTokens, (5 * n + 3) \div 4))
                    ELSE Smaller(AdmittedTokens, Larger(n, (3 * c + 1) \div 2))
      at[n \in from..needed] == IF n = from THEN cap ELSE grow(at[n - 1], n)
      passed == {at[n] : n \in from..needed} \ {cap}
      final == at[needed]
  IN  [cap |-> final,
       peak |-> MlaLayers * LayerTokenBytes * final
                + LayerTokenBytes * FoldSet(+, 0, passed \ {final})]

\* The chunk runs: the provider grows and the new generation replaces the old.
Executed(needed, next, new) ==
  LET r == RealGrowth(ctx.real, ctx.tokens, needed)
  IN  ctx' = [tokens |-> needed, cap |-> next, real |-> r.cap,
              peak |-> IF r.cap = ctx.real THEN 0 ELSE r.peak, admitted |-> new]

\* admit_context_chunk: no growth, or a first attempt against a fresh probe; a
\* refusal starts the bounded wait.
Chunk ==
  /\ bplan.made /\ wait = NoWait /\ tiles = NoTiles
  /\ \E needed \in (ctx.tokens + 1)..AdmittedTokens :
       LET a == Admission(ctx.cap, needed)
           new == a.staged + a.scratch
           h == Probe(0)
       IN  \/ /\ needed <= ctx.cap
              /\ Executed(needed, ctx.cap, 0)
              /\ UNCHANGED <<wait, grant>>
           \/ /\ needed > ctx.cap
              /\ grant' = Watermark("grow", new, h, Admitted(h, new))
              /\ IF grant'.admitted
                 THEN Executed(needed, a.next, new) /\ UNCHANGED wait
                 ELSE wait' = [needed |-> needed, attempts |-> 0] /\ UNCHANGED ctx
  /\ UNCHANGED <<box, mem, bplan, tiles>>

\* One retry: the device's unused cache is released and counted as available.
Retry ==
  LET a == Admission(ctx.cap, wait.needed)
      new == a.staged + a.scratch
      trims == box.kind # "host"
      reclaimed == IF box.kind = "unified" THEN mem.cached ELSE 0
      settled == IF trims THEN [mem EXCEPT !.cached = 0] ELSE mem
      h == Probe(reclaimed)
  IN  /\ wait # NoWait /\ wait.attempts < Retries
      /\ mem' = settled
      /\ grant' = Watermark("grow", new, h, Admitted(h, new))
      /\ IF grant'.admitted
         THEN Executed(wait.needed, a.next, new) /\ wait' = NoWait
         ELSE wait' = [wait EXCEPT !.attempts = @ + 1] /\ UNCHANGED ctx
      /\ UNCHANGED <<box, bplan, tiles>>

\* Patience is over: the request fails and the committed state is untouched.
GiveUp ==
  /\ wait # NoWait /\ wait.attempts = Retries
  /\ wait' = NoWait
  /\ UNCHANGED <<box, mem, bplan, ctx, tiles, grant>>

\* admit_verify_width: a full-commit batch keeps no boundaries; what the start
\* reserved needs no probe, nor does anything under K3_VERIFY_ADMIT_ALWAYS.
VerifyWidth ==
  /\ bplan.made /\ wait = NoWait /\ tiles = NoTiles
  /\ \E positions \in 1..MaxRows, fullCommit \in BOOLEAN :
       LET need == SnapshotExtra(positions)
           h == Probe(0)
       IN  /\ ~fullCommit /\ ~box.verifyAlways /\ need # 0
           /\ grant' = Watermark("verify", need, h, Admitted(h, need))
  /\ UNCHANGED <<box, mem, bplan, ctx, wait, tiles>>

\* Other processes take and release memory.
Foreign ==
  /\ tiles = NoTiles
  /\ \E f \in ForeignSteps : mem' = [mem EXCEPT !.foreign = f]
  /\ UNCHANGED <<box, bplan, ctx, wait, tiles, grant>>

----------------------------------------------------------------------------
(* Tiles of experts.                                                       *)

\* next_expert_tile: rows from `first` on while their union fits `limit`.
TileFrom(routes, first, limit) ==
  LET union(n) == UNION {routes[r] : r \in first..(first + n - 1)}
      rows == {n \in 1..Smaller(TileRows, Len(routes) - first + 1) :
                 \A k \in 1..n : k = 1 \/ Cardinality(union(k)) <= limit}
  IN  [rows |-> Max(rows), union |-> union(Max(rows))]

\* replacement_admission_bytes: nothing for a buffer that is already wide enough.
SlabAdmits(count, override) ==
  count <= bplan.slab \/ HostAdmits(ExpertSpan * count, override)

\* prepare_complete_expert_union: what a verification of this many rows may
\* stage at once: nothing special, its live admission, or a reserved capacity,
\* which raw slabs get now, by the stock reserve, and compact ones at startup.
UnionAdmission(positions, fullCommit) ==
  LET bound == positions * TopK
  IN  CASE box.union = "off" -> "disabled"
        [] box.union # "off" /\ (~fullCommit \/ bound <= BaseUnion) -> "dynamic"
        [] box.union = "scale4" /\ fullCommit /\ bound \in (BaseUnion + 1) .. FullCommitMax
           /\ bplan.reserved >= bound -> "reserved"
        [] box.union = "raw" /\ fullCommit /\ bound \in (BaseUnion + 1) .. FullCommitMax
           /\ SlabAdmits(bound, None) -> "reserved"
        [] OTHER -> "disabled"

\* admit_complete_verifier_union
AdmitUnion(admission, count) ==
  \/ count <= BaseUnion
  \/ /\ count <= UnionMax
     /\ \/ admission = "reserved"
        \/ admission = "dynamic" /\ SlabAdmits(count, box.growReserve)

\* A mailbox of routes arrives; a verification may get all of it in one tile.
\* Reserving and reading widen the reader's buffer.
Mailbox ==
  /\ bplan.made /\ wait = NoWait /\ tiles = NoTiles
  /\ \E n \in 1..MaxRows, verify \in BOOLEAN, full \in BOOLEAN :
       \E routes \in [1..n -> kSubset(TopK, Experts)] :
         LET whole == TileFrom(routes, 1, UnionMax)
             admission == IF verify /\ box.kind # "discrete" THEN UnionAdmission(n, full) ELSE "disabled"
             staged == admission # "disabled" /\ n <= TileRows /\ whole.rows = n
                       /\ AdmitUnion(admission, Cardinality(whole.union))
             widths == {bplan.slab} \cup (IF admission = "reserved" THEN {n * TopK} ELSE {})
                       \cup (IF staged THEN {Cardinality(whole.union)} ELSE {})
         IN  /\ tiles' = IF staged
                         THEN [routes |-> routes, row |-> n + 1, union |-> whole.union, limit |-> UnionMax]
                         ELSE [routes |-> routes, row |-> 1, union |-> {}, limit |-> BaseUnion]
             /\ bplan' = [bplan EXCEPT !.slab = Max(widths)]
  /\ grant' = NoGrant
  /\ UNCHANGED <<box, mem, ctx, wait>>

\* finish_expert_mailbox: one tile after the other.
NextTile ==
  /\ tiles.row \in 1..Len(tiles.routes)
  /\ LET t == TileFrom(tiles.routes, tiles.row, BaseUnion)
     IN  /\ tiles' = [tiles EXCEPT !.row = @ + t.rows, !.union = t.union]
         /\ bplan' = [bplan EXCEPT !.slab = Larger(@, Cardinality(t.union))]
  /\ UNCHANGED <<box, mem, ctx, wait, grant>>

MailboxDone ==
  /\ tiles.row > Len(tiles.routes) /\ tiles.row > 0
  /\ tiles' = NoTiles
  /\ UNCHANGED <<box, mem, bplan, ctx, wait, grant>>

MNext ==
  \/ ReserveUnion \/ Plan \/ Chunk \/ Retry \/ GiveUp \/ VerifyWidth \/ Foreign
  \/ Mailbox \/ NextTile \/ MailboxDone

MSpec == MInit /\ [][MNext]_mvars

----------------------------------------------------------------------------
(* Properties.                                                             *)

\* Layers kept resident at start, the largest layer still to be streamed and
\* every fixed cost fit together: on the host they leave its reserve free, on a
\* discrete device they stay inside its envelope.  (A spread mask keeps the
\* number of layers of the budget, not their bytes, and is excepted.)
LoadLeavesTheReserve ==
  grant.kind = "load" /\ bplan.layers > 0 /\ ~box.spread =>
    /\ grant.host + HostReserve(grant.total, box.loadReserve) <= grant.free
    /\ ProviderEnvelope # None => grant.device <= ProviderEnvelope

\* The capacity the engine books for a context is the capacity the provider
\* reaches row by row, and what was admitted covers what was allocated.
GrowthMirrorsTheProvider ==
  /\ ctx.cap = ctx.real
  /\ ctx.peak <= ctx.admitted \/ ctx.peak = 0

\* Crediting a request reduces its admission to a watermark: what is free is
\* at least the reserve, and the request alone fits beside the reserve.
CreditIsAWatermark ==
  grant.kind \in {"grow", "verify"} /\ box.readable /\ box.kind # "discrete" =>
    (grant.admitted <=> /\ grant.free >= grant.reserve
                        /\ grant.need <= grant.total - grant.reserve)
=============================================================================
